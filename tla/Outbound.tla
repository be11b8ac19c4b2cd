------------------------------ MODULE Outbound ------------------------------
(***************************************************************************)
(* The outbound queues of the two WebSocket clients of the bridge          *)
(* (src/internal/app/app.go, wsClient), the hubs that send through them    *)
(* (src/internal/proxy/hub.go), and App.Close, which closes them while it  *)
(* holds connMu.                                                           *)
(*                                                                         *)
(* A client has one writer goroutine.  It may be closed by four others:    *)
(* App.Close through the hub, the goroutine of a failed Broadcast, the     *)
(* goroutine of a failed batch of errors, and its own reader.  A failing   *)
(* writer reports to the SDK, whose observer takes s.mu; a call of the SDK *)
(* that gives up holds s.mu while it asks for connMu.                      *)
(***************************************************************************)
EXTENDS Integers, Sequences, SequencesExt

CONSTANTS
  CloseOrder,    \* the clients, in the order in which App.Close closes their hubs
  Controller,    \* the one of them that is sent batches of errors
  Calls,         \* waiting requests of the SDK
  Batches,       \* the batches that may be sent: sequences of message sizes
  MessageLimit,  \* maxMessageBytes
  ByteLimit,     \* queueByteLimit
  QueueSize,     \* capacity of the channel outbound
  MaxSends,      \* bound: sends per client
  NoOne          \* a lock nobody holds

Clients == {CloseOrder[i] : i \in 1..Len(CloseOrder)}

Closers == {"app", "hub", "requests", "reader"}

ASSUME CloseOrderAssumption == IsInjective(CloseOrder) /\ Controller \in Clients

ASSUME LimitsAssumption == /\ {MessageLimit, ByteLimit} \subseteq Nat
                           /\ {QueueSize, MaxSends} \subseteq Nat \ {0}
                           /\ Batches \subseteq Seq(Nat)

ASSUME NoOneAssumption == NoOne \notin Calls \union {"app"}

VARIABLES
  outbound,    \* the batches in the channel, [id, sizes]
  queueBytes,  \* queueBytes
  sendMu,      \* the bytes a SendBatch inside sendMu has yet to count, or NoOne
  closed,      \* closed, set together with close(done)
  open,        \* the transport
  loop,        \* where writeLoop is
  hand,        \* the batch writeLoop has received, [id, sizes, next]
  hub,         \* the clients still in their hub
  ender,       \* where each goroutine that closes a client is
  app,         \* where App.Close is
  at,          \* the hub App.Close has reached
  connMu,      \* the writer of connMu
  smu,         \* the holder of s.mu
  call,        \* where each call of the SDK is
  sends,       \* batches offered so far
  due,         \* history: the messages of the batches SendBatch has accepted, in order
  wire         \* history: the messages written to the transport

clientVars == <<outbound, queueBytes, sendMu, closed, open, loop, hand, sends, due, wire>>
lockVars == <<connMu, smu>>
outboundVars == <<clientVars, hub, ender, app, at, lockVars, call>>

OutboundInit ==
  /\ outbound = [c \in Clients |-> <<>>]
  /\ queueBytes = [c \in Clients |-> 0]
  /\ sendMu = [c \in Clients |-> NoOne]
  /\ closed = [c \in Clients |-> FALSE]
  /\ open = [c \in Clients |-> TRUE]
  /\ loop = [c \in Clients |-> "poll"]
  /\ hand = [c \in Clients |-> [id |-> 0, sizes |-> <<>>, next |-> 1]]
  /\ hub = Clients
  /\ ender = [k \in Closers |-> [c \in Clients |-> IF k = "reader" THEN "reading" ELSE "idle"]]
  /\ app = "running"
  /\ at = 1
  /\ connMu = NoOne
  /\ smu = NoOne
  /\ call = [x \in Calls |-> "idle"]
  /\ sends = [c \in Clients |-> 0]
  /\ due = [c \in Clients |-> <<>>]
  /\ wire = [c \in Clients |-> <<>>]

Total(sizes) == FoldSeq(+, 0, sizes)

\* The messages of a batch.  A batch is known by the messages accepted before it.
Messages(b) == [i \in 1..Len(b.sizes) |-> <<b.id, i>>]

Batch(c, sizes) == [id |-> Len(due[c]), sizes |-> sizes]

-----------------------------------------------------------------------------
(***************************************************************************)
(* SendBatch.  The channel receives the batch and queueBytes is raised     *)
(* inside sendMu, but the writer receives from the channel outside it, so  *)
(* the two are two steps.                                                  *)
(***************************************************************************)
Fits(c, sizes) ==
  /\ ~closed[c]
  /\ \A i \in 1..Len(sizes) : sizes[i] <= MessageLimit
  /\ Total(sizes) <= ByteLimit - queueBytes[c]
  /\ Len(outbound[c]) < QueueSize

Offered(c) == sends' = [sends EXCEPT ![c] = @ + 1]

\* Mutant of Enqueue: the messages before the first that does not fit go out, and
\* the batch is refused.
EnqueueWhatFits(c, sizes) ==
  \/ /\ Fits(c, sizes)
     /\ outbound' = [outbound EXCEPT ![c] = Append(@, Batch(c, sizes))]
     /\ sendMu' = [sendMu EXCEPT ![c] = Total(sizes)]
     /\ due' = [due EXCEPT ![c] = @ \o Messages(Batch(c, sizes))]
     /\ Offered(c)
  \/ /\ ~Fits(c, sizes)
     /\ Fits(c, SubSeq(sizes, 1, 1))
     /\ outbound' = [outbound EXCEPT ![c] = Append(@, Batch(c, SubSeq(sizes, 1, 1)))]
     /\ sendMu' = [sendMu EXCEPT ![c] = sizes[1]]
     /\ Offered(c)
     /\ UNCHANGED due

Enqueue(c, sizes) ==
  /\ Fits(c, sizes)
  /\ outbound' = [outbound EXCEPT ![c] = Append(@, Batch(c, sizes))]
  /\ sendMu' = [sendMu EXCEPT ![c] = Total(sizes)]
  /\ due' = [due EXCEPT ![c] = @ \o Messages(Batch(c, sizes))]
  /\ Offered(c)

\* SendBatch counts the bytes and leaves sendMu.
CountBytes(c) ==
  /\ sendMu[c] # NoOne
  /\ queueBytes' = [queueBytes EXCEPT ![c] = @ + sendMu[c]]
  /\ sendMu' = [sendMu EXCEPT ![c] = NoOne]
  /\ UNCHANGED <<outbound, closed, open, loop, hand, sends, due, wire, hub, ender, app, at,
                 lockVars, call>>

\* App.Close holds the broadcastMu of the hub of c.
BroadcastHeld(c) == app = "locked" /\ CloseOrder[at] = c /\ ender["app"][c] # "idle"

\* Hub.Broadcast: a client that cannot take the message leaves the hub and is
\* closed by a goroutine of its own.
Broadcast(c, size) ==
  /\ c \in hub
  /\ sends[c] < MaxSends
  /\ sendMu[c] = NoOne
  /\ ~BroadcastHeld(c)
  /\ \/ /\ Enqueue(c, <<size>>)
        /\ UNCHANGED <<hub, ender>>
     \/ /\ ~Fits(c, <<size>>)
        /\ Offered(c)
        /\ hub' = hub \ {c}
        /\ ender' = [ender EXCEPT !["hub"][c] = "stop"]
        /\ UNCHANGED <<outbound, sendMu, due>>
  /\ UNCHANGED <<queueBytes, closed, open, loop, hand, wire, app, at, lockVars, call>>

\* failCurrentControllerRequestsLocked: one batch with an error for each of the
\* controller's requests.  If it is refused, the controller is closed.
SendErrors(sizes) ==
  LET c == Controller IN
  /\ ender["reader"][c] \in {"reading", "release"}
  /\ ender["requests"][c] = "idle"
  /\ sends[c] < MaxSends
  /\ sendMu[c] = NoOne
  /\ connMu = NoOne
  /\ \/ /\ Enqueue(c, sizes)
        /\ UNCHANGED ender
     \/ /\ ~Fits(c, sizes)
        /\ Offered(c)
        /\ ender' = [ender EXCEPT !["requests"][c] = "stop"]
        /\ UNCHANGED <<outbound, sendMu, due>>
  /\ UNCHANGED <<queueBytes, closed, open, loop, hand, wire, hub, app, at, lockVars, call>>

-----------------------------------------------------------------------------
(***************************************************************************)
(* writeLoop.  It asks whether it is done, then waits for a batch or the   *)
(* end, and the choice is free if both are there.                          *)
(***************************************************************************)
AtWriter(c, from, to) ==
  /\ loop[c] = from
  /\ loop' = [loop EXCEPT ![c] = to]
  /\ UNCHANGED <<outbound, sendMu, sends, due, hub, ender, app, at, lockVars, call>>

Poll(c) ==
  /\ AtWriter(c, "poll", IF closed[c] THEN "exit" ELSE "wait")
  /\ UNCHANGED <<queueBytes, closed, open, hand, wire>>

EndWait(c) ==
  /\ closed[c]
  /\ AtWriter(c, "wait", "exit")
  /\ UNCHANGED <<queueBytes, closed, open, hand, wire>>

Receive(c) ==
  /\ loop[c] = "wait"
  /\ outbound[c] # <<>>
  /\ loop' = [loop EXCEPT ![c] = "write"]
  /\ hand' = [hand EXCEPT ![c] = [id |-> Head(outbound[c]).id,
                                  sizes |-> Head(outbound[c]).sizes, next |-> 1]]
  /\ outbound' = [outbound EXCEPT ![c] = Tail(@)]
  /\ UNCHANGED <<queueBytes, sendMu, closed, open, sends, due, wire, hub, ender, app, at,
                 lockVars, call>>

WriteMessage(c) ==
  /\ open[c]
  /\ hand[c].next <= Len(hand[c].sizes)
  /\ AtWriter(c, "write", "write")
  /\ wire' = [wire EXCEPT ![c] = Append(@, <<hand[c].id, hand[c].next>>)]
  /\ hand' = [hand EXCEPT ![c].next = @ + 1]
  /\ UNCHANGED <<queueBytes, closed, open>>

\* A write fails at any time.  On a closed transport the error is
\* net.ErrClosed or, when the close frame went out first, websocket.ErrCloseSent;
\* only the first is not reported.
WriteFails(c) ==
  /\ hand[c].next <= Len(hand[c].sizes)
  /\ \/ AtWriter(c, "write", "failed")
     \/ ~open[c] /\ AtWriter(c, "write", "unplugged")
  /\ UNCHANGED <<queueBytes, closed, open, hand, wire>>

\* The bytes of the batch are given back, inside sendMu, whether or not all of
\* it was written.
Account(c) ==
  /\ sendMu[c] = NoOne
  /\ \/ hand[c].next > Len(hand[c].sizes) /\ AtWriter(c, "write", "poll")
     \/ AtWriter(c, "failed", "report")
     \/ AtWriter(c, "unplugged", "stop")
  /\ queueBytes' = [queueBytes EXCEPT ![c] = @ - Total(hand[c].sizes)]
  /\ hand' = [hand EXCEPT ![c] = [id |-> 0, sizes |-> <<>>, next |-> 1]]
  /\ UNCHANGED <<closed, open, wire>>

\* onError: reportRuntimeError calls the SDK's observer, which takes s.mu.
Report(c) ==
  /\ smu = NoOne
  /\ AtWriter(c, "report", "stop")
  /\ UNCHANGED <<queueBytes, closed, open, hand, wire>>

WriterStops(c) ==
  /\ sendMu[c] = NoOne
  /\ AtWriter(c, "stop", "transport")
  /\ closed' = [closed EXCEPT ![c] = TRUE]
  /\ UNCHANGED <<queueBytes, open, hand, wire>>

\* Mutant of WriterDone: the failing writer calls Close, which waits for the
\* writer.
WriterClosesItself(c) ==
  /\ loop[c] = "exit"
  /\ AtWriter(c, "transport", "exit")
  /\ open' = [open EXCEPT ![c] = FALSE]
  /\ UNCHANGED <<queueBytes, closed, hand, wire>>

WriterDone(c) ==
  /\ AtWriter(c, "transport", "exit")
  /\ open' = [open EXCEPT ![c] = FALSE]
  /\ UNCHANGED <<queueBytes, closed, hand, wire>>

WriteLoop(c) ==
  \/ Poll(c) \/ EndWait(c) \/ Receive(c) \/ WriteMessage(c) \/ WriteFails(c) \/ Account(c)
  \/ Report(c) \/ WriterStops(c) \/ WriterDone(c)

-----------------------------------------------------------------------------
(***************************************************************************)
(* wsClient.Close, by any of its callers: stop, close the transport, wait  *)
(* for the writer.                                                         *)
(***************************************************************************)
AtCloser(k, c, from, to) ==
  /\ ender[k][c] = from
  /\ ender' = [ender EXCEPT ![k][c] = to]
  /\ UNCHANGED <<outbound, queueBytes, sendMu, loop, hand, sends, due, wire, app, at, call>>

Stop(k, c) ==
  /\ sendMu[c] = NoOne
  /\ AtCloser(k, c, "stop", "transport")
  /\ closed' = [closed EXCEPT ![c] = TRUE]
  /\ UNCHANGED <<open, hub, lockVars>>

CloseTransport(k, c) ==
  /\ AtCloser(k, c, "transport", "wait")
  /\ open' = [open EXCEPT ![c] = FALSE]
  /\ UNCHANGED <<closed, hub, lockVars>>

\* Mutant of AwaitWriter: Close does not wait for the writer.
DoNotAwaitWriter(k, c) ==
  /\ AtCloser(k, c, "wait", "done")
  /\ UNCHANGED <<closed, open, hub, lockVars>>

AwaitWriter(k, c) ==
  /\ loop[c] = "exit"
  /\ AtCloser(k, c, "wait", "done")
  /\ UNCHANGED <<closed, open, hub, lockVars>>

CloseClient(k, c) == Stop(k, c) \/ CloseTransport(k, c) \/ AwaitWriter(k, c)

(***************************************************************************)
(* readDebug and readCDP: the reader ends when the transport is closed, or *)
(* when the peer goes.  It releases the endpoint under connMu, twice, and  *)
(* closes the client.                                                      *)
(***************************************************************************)
PeerGoes(c) ==
  /\ AtCloser("reader", c, "reading", "release")
  /\ UNCHANGED <<closed, open, hub, lockVars>>

ReadFails(c) == ~open[c] /\ PeerGoes(c)

ReleaseOwner(c) ==
  /\ connMu = NoOne
  /\ AtCloser("reader", c, "release", "finish")
  /\ hub' = hub \ {c}
  /\ UNCHANGED <<closed, open, lockVars>>

FinishRelease(c) ==
  /\ connMu = NoOne
  /\ AtCloser("reader", c, "finish", "stop")
  /\ UNCHANGED <<closed, open, hub, lockVars>>

-----------------------------------------------------------------------------
(***************************************************************************)
(* App.Close.  It holds connMu from before the first hub to after the      *)
(* second, and the broadcastMu of each while it closes the clients and     *)
(* waits for the goroutines of earlier broadcasts.                         *)
(***************************************************************************)
AppBegins ==
  /\ app = "running"
  /\ app' = "closing"
  /\ UNCHANGED <<clientVars, hub, ender, at, lockVars, call>>

LockConnMu ==
  /\ app = "closing"
  /\ connMu = NoOne
  /\ app' = "locked"
  /\ connMu' = "app"
  /\ UNCHANGED <<clientVars, hub, ender, at, smu, call>>

CloseAll ==
  LET c == CloseOrder[at] IN
  /\ app = "locked"
  /\ ender["app"][c] = "idle"
  /\ ender' = [ender EXCEPT !["app"][c] = IF c \in hub THEN "stop" ELSE "skipped"]
  /\ hub' = hub \ {c}
  /\ UNCHANGED <<clientVars, app, at, lockVars, call>>

\* closeWG.Wait, and on to the next hub or out of connMu.
HubClosed ==
  LET c == CloseOrder[at] IN
  /\ app = "locked"
  /\ ender["app"][c] \in {"skipped", "done"}
  /\ ender["hub"][c] \in {"idle", "done"}
  /\ IF at = Len(CloseOrder)
     THEN app' = "waiting" /\ connMu' = NoOne /\ at' = at
     ELSE app' = app /\ connMu' = connMu /\ at' = at + 1
  /\ UNCHANGED <<clientVars, hub, ender, smu, call>>

\* connectionWG.Wait: the readers have ended.
AppEnds ==
  /\ app = "waiting"
  /\ \A c \in Clients : ender["reader"][c] = "done"
  /\ app' = "closed"
  /\ UNCHANGED <<clientVars, hub, ender, at, lockVars, call>>

AppClose == LockConnMu \/ CloseAll \/ HubClosed \/ AppEnds

-----------------------------------------------------------------------------
(***************************************************************************)
(* A waiting request of the SDK (sendPayload).  When its send fails or its *)
(* time is up, it takes s.mu and asks the app to forget the request, which *)
(* reads the owner under connMu.                                           *)
(***************************************************************************)
CallWaits(x) ==
  /\ app = "running"
  /\ call[x] = "idle"
  /\ call' = [call EXCEPT ![x] = "waiting"]
  /\ UNCHANGED <<clientVars, hub, ender, app, at, lockVars>>

CallAnswered(x) ==
  /\ call[x] = "waiting"
  /\ call' = [call EXCEPT ![x] = "ended"]
  /\ UNCHANGED <<clientVars, hub, ender, app, at, lockVars>>

CallGivesUp(x) ==
  /\ call[x] = "waiting"
  /\ smu = NoOne
  /\ smu' = x
  /\ call' = [call EXCEPT ![x] = "cancelling"]
  /\ UNCHANGED <<clientVars, hub, ender, app, at, connMu>>

CancelCDPRequest(x) ==
  /\ call[x] = "cancelling"
  /\ connMu = NoOne
  /\ smu' = NoOne
  /\ call' = [call EXCEPT ![x] = "ended"]
  /\ UNCHANGED <<clientVars, hub, ender, app, at, connMu>>

-----------------------------------------------------------------------------
OutboundNext ==
  \/ \E c \in Clients :
       \/ CountBytes(c) \/ WriteLoop(c) \/ PeerGoes(c) \/ ReleaseOwner(c) \/ FinishRelease(c)
       \/ \E k \in Closers : CloseClient(k, c)
       \/ \E b \in Batches : Len(b) = 1 /\ Broadcast(c, b[1])
  \/ \E b \in Batches : SendErrors(b)
  \/ AppBegins \/ AppClose
  \/ \E x \in Calls : CallWaits(x) \/ CallAnswered(x) \/ CallGivesUp(x) \/ CancelCDPRequest(x)

\* Every goroutine runs on.  The peers, the senders, the caller of App.Close and
\* the failure of a write on an open transport owe nothing.
OutboundFairness ==
  /\ \A c \in Clients :
       /\ WF_outboundVars(CountBytes(c))
       /\ WF_outboundVars(WriteLoop(c))
       /\ WF_outboundVars(ReadFails(c)) /\ WF_outboundVars(ReleaseOwner(c))
       /\ WF_outboundVars(FinishRelease(c))
       /\ \A k \in Closers : WF_outboundVars(CloseClient(k, c))
  /\ WF_outboundVars(AppClose)
  /\ \A x \in Calls : WF_outboundVars(CallGivesUp(x)) /\ WF_outboundVars(CancelCDPRequest(x))

OutboundSpec == OutboundInit /\ [][OutboundNext]_outboundVars /\ OutboundFairness

-----------------------------------------------------------------------------
\* A batch is queued whole or not at all, and what the peer receives is the
\* accepted batches in order, cut off at most once, by a failure after which
\* nothing follows (SendBatch, writeLoop, failCurrentControllerRequestsLocked).
WholeBatches ==
  \A c \in Clients :
    /\ IsPrefix(wire[c], due[c])
    /\ (loop[c] = "wait" /\ outbound[c] = <<>>) => wire[c] = due[c]

\* After Close has returned, by whoever called it, the client accepts nothing and
\* its writer has ended: it writes nothing and reports nothing to an observer whose
\* service may be gone (wsClient.Close waits for writerDone).
QuietAfterClose ==
  [][\A c \in Clients : (\E k \in Closers : ender[k][c] = "done")
       => UNCHANGED <<loop[c], wire[c], due[c]>>]_outboundVars

\* App.Close with connMu waits for a writer that reports its error and needs
\* s.mu, which a call holds that needs connMu.
Crossed ==
  /\ connMu = "app"
  /\ \E x \in Calls : smu = x /\ call[x] = "cancelling"
  /\ LET c == CloseOrder[at] IN
       loop[c] = "report" /\ "wait" \in {ender["app"][c], ender["hub"][c]}

\* App.Close returns, unless that circle has closed: nothing else can hold it,
\* be it a full queue, a dropped client, a reader or a peer that does not read.
CloseReturnsUnlessCrossed == (app = "closing") ~> (app = "closed" \/ Crossed)

\* "shutdown has a total budget; what cannot end normally must be forced to", as
\* the hardening spec says: App.Close returns.
AppCloseReturns == (app = "closing") ~> (app = "closed")
=============================================================================
