------------------------------ MODULE RLPEgress ------------------------------
(***************************************************************************)
(* The reverse log proxy's egress API (src/src/rlp/internal/egress): the   *)
(* handlers Receiver and BatchedReceiver, the admission of streams up to   *)
(* maxStreams, and the end of a stream: the client leaves, a Send fails,   *)
(* the subscription ends, or RLP.Stop cancels the server's context and     *)
(* waits in GracefulStop for every handler.                                *)
(*                                                                         *)
(* A stream has two goroutines of its own: the handler, and one that moves *)
(* envelopes from the subscription into a bounded channel (consumeReceiver *)
(* or consumeBatchReceiver).  Envelopes are told apart by nothing, so      *)
(* buffers are counts.  Time is abstracted: the batch interval may have    *)
(* lapsed at any Write or Flush.                                           *)
(***************************************************************************)
EXTENDS Integers, FiniteSets

CONSTANTS
    Streams,        \* the calls of Receiver and BatchedReceiver
    MaxStreams,     \* maxStreams
    BufferSize,     \* envelopeBufferSize (10000 in the code)
    BatchSize,      \* batchSize
    MaxEnvelopes    \* bound: envelopes a subscription yields

ASSUME RLPEgressAssumption ==
    /\ IsFiniteSet(Streams)
    /\ MaxStreams \in Nat
    /\ BufferSize \in Nat
    /\ BatchSize \in Nat \ {0}
    /\ MaxEnvelopes \in Nat

VARIABLES
    serverDone,     \* s.ctx is cancelled: RLP.Stop was called
    subscriptions,  \* s.subscriptions, shared, updated with AddInt64
    method,         \* a stream: "Receiver" or "BatchedReceiver"
    hpc,            \* its handler: "idle", "admit", "validate", "subscribe",
                    \* "loop", "send", "drain", "drainsend", "leave" or "done"
    subCount,       \* its handler's local subCount
    ctx,            \* its context is cancelled
    gpc,            \* its consume goroutine: "none", "rx", "close" or "exited"
    buffer,         \* how many envelopes its channel holds
    closed,         \* its channel is closed
    receiveError,   \* receiveErrorStream holds an error
    senderError,    \* senderErrorStream holds an error
    batch,          \* how many envelopes are in the batch or, in Receiver, in hand
    received, dropped, sent, failed \* history: envelopes by what became of them

admission == <<subscriptions, subCount>>
channels == <<buffer, closed, receiveError, senderError>>
counts == <<received, dropped, sent, failed>>
vars == <<serverDone, admission, method, hpc, ctx, gpc, channels, batch, counts>>

Batched(s) == method[s] = "BatchedReceiver"

Init ==
    /\ serverDone = FALSE
    /\ subscriptions = 0
    /\ subCount = [s \in Streams |-> 0]
    /\ method \in [Streams -> {"Receiver", "BatchedReceiver"}]
    /\ hpc = [s \in Streams |-> "idle"]
    /\ ctx = [s \in Streams |-> FALSE]
    /\ gpc = [s \in Streams |-> "none"]
    /\ buffer = [s \in Streams |-> 0]
    /\ closed = [s \in Streams |-> FALSE]
    /\ receiveError = [s \in Streams |-> FALSE]
    /\ senderError = [s \in Streams |-> FALSE]
    /\ batch = [s \in Streams |-> 0]
    /\ received = [s \in Streams |-> 0]
    /\ dropped = [s \in Streams |-> 0]
    /\ sent = [s \in Streams |-> 0]
    /\ failed = [s \in Streams |-> 0]

Goto(s, label) == hpc' = [hpc EXCEPT ![s] = label]
Add(f, s, n) == [f EXCEPT ![s] = @ + n]

-----------------------------------------------------------------------------
(* The environment *)

(* RLP.Stop cancels the server's context. *)
Stop ==
    /\ ~serverDone
    /\ serverDone' = TRUE
    /\ UNCHANGED <<admission, method, hpc, ctx, gpc, channels, batch, counts>>

(* The client goes away: srv.Context() ends, and the stream's context with it. *)
ClientLeaves(s) ==
    /\ hpc[s] \notin {"idle", "done"}
    /\ ~ctx[s]
    /\ ctx' = [ctx EXCEPT ![s] = TRUE]
    /\ UNCHANGED <<serverDone, admission, method, hpc, gpc, channels, batch, counts>>

(* The goroutine that passes the server's end on to the stream's context. *)
WatchServer(s) ==
    /\ hpc[s] \in {"subscribe", "loop", "send", "drain", "drainsend"}
    /\ serverDone
    /\ ~ctx[s]
    /\ ctx' = [ctx EXCEPT ![s] = TRUE]
    /\ UNCHANGED <<serverDone, admission, method, hpc, gpc, channels, batch, counts>>

-----------------------------------------------------------------------------
(* The handler, up to its loop *)

(* Mutant: load, then store: two calls at the same time count as one. *)
CountStream_Load(s) ==
    /\ hpc[s] = "idle"
    /\ subscriptions' \in {subscriptions, subscriptions + 1}
    /\ subCount' = [subCount EXCEPT ![s] = subscriptions + 1]
    /\ Goto(s, "admit")
    /\ UNCHANGED <<serverDone, method, ctx, gpc, channels, batch, counts>>

(* A client calls; subCount := atomic.AddInt64(&s.subscriptions, 1). *)
CountStream(s) ==
    /\ hpc[s] = "idle"
    /\ subscriptions' = subscriptions + 1
    /\ subCount' = [subCount EXCEPT ![s] = subscriptions']
    /\ Goto(s, "admit")
    /\ UNCHANGED <<serverDone, method, ctx, gpc, channels, batch, counts>>

(* ResourceExhausted above the limit. *)
Admit(s) ==
    /\ hpc[s] = "admit"
    /\ Goto(s, IF subCount[s] > MaxStreams THEN "leave" ELSE "validate")
    /\ UNCHANGED <<serverDone, admission, method, ctx, gpc, channels, batch, counts>>

(* A request by what validation tells apart: the selectors' messages (a      *)
(* missing one is FALSE), and the legacy selector if there is one.           *)
Requests == [legacy : SUBSET BOOLEAN, selectors : SUBSET BOOLEAN]

(* Selectors win over the legacy selector. *)
convergeSelectors(r) == IF r.selectors # {} THEN r.selectors ELSE r.legacy

(* InvalidArgument without selectors, or with one that has no message. *)
Validate(s) ==
    /\ hpc[s] = "validate"
    /\ \E r \in Requests :
         /\ Cardinality(r.legacy) <= 1
         /\ Goto(s, IF convergeSelectors(r) = {TRUE} THEN "subscribe" ELSE "leave")
    /\ UNCHANGED <<serverDone, admission, method, ctx, gpc, channels, batch, counts>>

(* receiver.Subscribe fails when the connector has no slot left. *)
SubscribeErr(s) ==
    /\ hpc[s] = "subscribe"
    /\ Goto(s, "leave")
    /\ UNCHANGED <<serverDone, admission, method, ctx, gpc, channels, batch, counts>>

SubscribeOk(s) ==
    /\ hpc[s] = "subscribe"
    /\ gpc' = [gpc EXCEPT ![s] = "rx"]
    /\ Goto(s, "loop")
    /\ UNCHANGED <<serverDone, admission, method, ctx, channels, batch, counts>>

-----------------------------------------------------------------------------
(* The consume goroutine *)

(* rx yields an envelope; it goes into the channel or, if that is full, is   *)
(* counted as dropped.  rx may still yield after the context ended.          *)
Forward(s) ==
    /\ gpc[s] = "rx"
    /\ received[s] < MaxEnvelopes
    /\ received' = Add(received, s, 1)
    /\ IF buffer[s] < BufferSize
       THEN buffer' = Add(buffer, s, 1) /\ UNCHANGED dropped
       ELSE dropped' = Add(dropped, s, 1) /\ UNCHANGED buffer
    /\ UNCHANGED <<serverDone, admission, method, hpc, ctx, gpc, closed, receiveError,
                   senderError, batch, sent, failed>>

(* rx fails, because the context or the subscription ended: BatchedReceiver's *)
(* goroutine reports it before it closes the channel.                         *)
RxErr(s) ==
    /\ gpc[s] = "rx"
    /\ receiveError' = [receiveError EXCEPT ![s] = Batched(s)]
    /\ gpc' = [gpc EXCEPT ![s] = "close"]
    /\ UNCHANGED <<serverDone, admission, method, hpc, ctx, buffer, closed, senderError,
                   batch, counts>>

(* Mutant: the channel is not closed when the goroutine ends. *)
CloseBuffer_Never(s) ==
    /\ gpc[s] = "close"
    /\ ctx' = [ctx EXCEPT ![s] = TRUE]
    /\ gpc' = [gpc EXCEPT ![s] = "exited"]
    /\ UNCHANGED <<serverDone, admission, method, hpc, channels, batch, counts>>

(* The deferred close and cancel. *)
CloseBuffer(s) ==
    /\ gpc[s] = "close"
    /\ closed' = [closed EXCEPT ![s] = TRUE]
    /\ ctx' = [ctx EXCEPT ![s] = TRUE]
    /\ gpc' = [gpc EXCEPT ![s] = "exited"]
    /\ UNCHANGED <<serverDone, admission, method, hpc, buffer, receiveError, senderError,
                   batch, counts>>

-----------------------------------------------------------------------------
(* The handler's loop: "loop" until the subscription ends, then "drain". *)

Sending(s) == IF hpc[s] = "loop" THEN "send" ELSE "drainsend"

(* An envelope from the channel.  Receiver sends it; BatchedReceiver writes   *)
(* it to the batcher, which flushes unless the batch is partial and the       *)
(* interval has not lapsed.                                                   *)
Take(s) ==
    /\ hpc[s] \in {"loop", "drain"}
    /\ buffer[s] > 0
    /\ buffer' = Add(buffer, s, -1)
    /\ batch' = Add(batch, s, 1)
    /\ \/ Goto(s, Sending(s))
       \/ Batched(s) /\ batch'[s] < BatchSize /\ UNCHANGED hpc
    /\ UNCHANGED <<serverDone, admission, method, ctx, gpc, closed, receiveError,
                   senderError, counts>>

(* The timer: Flush sends what there is, if the interval has lapsed. *)
TimerFlush(s) ==
    /\ hpc[s] = "loop"
    /\ Batched(s)
    /\ batch[s] > 0
    /\ Goto(s, "send")
    /\ UNCHANGED <<serverDone, admission, method, ctx, gpc, channels, batch, counts>>

(* Mutant: the handler returns at once when the subscription ends. *)
SeeReceiveError_NoDrain(s) ==
    /\ hpc[s] = "loop"
    /\ receiveError[s]
    /\ receiveError' = [receiveError EXCEPT ![s] = FALSE]
    /\ Goto(s, "leave")
    /\ UNCHANGED <<serverDone, admission, method, ctx, gpc, buffer, closed, senderError,
                   batch, counts>>

(* The subscription ended: what is in the channel is written first. *)
SeeReceiveError(s) ==
    /\ hpc[s] = "loop"
    /\ receiveError[s]
    /\ receiveError' = [receiveError EXCEPT ![s] = FALSE]
    /\ Goto(s, "drain")
    /\ UNCHANGED <<serverDone, admission, method, ctx, gpc, buffer, closed, senderError,
                   batch, counts>>

SeeSenderError(s) ==
    /\ hpc[s] = "loop"
    /\ senderError[s]
    /\ senderError' = [senderError EXCEPT ![s] = FALSE]
    /\ Goto(s, "leave")
    /\ UNCHANGED <<serverDone, admission, method, ctx, gpc, buffer, closed, receiveError,
                   batch, counts>>

(* The range over a closed and empty channel ends: BatchedReceiver forces a  *)
(* last flush, and both return nil.                                          *)
ChannelEnds(s) ==
    /\ hpc[s] = IF Batched(s) THEN "drain" ELSE "loop"
    /\ closed[s]
    /\ buffer[s] = 0
    /\ Goto(s, IF batch[s] > 0 THEN "drainsend" ELSE "leave")
    /\ UNCHANGED <<serverDone, admission, method, ctx, gpc, channels, batch, counts>>

Resume(s) == IF hpc[s] = "send" THEN "loop" ELSE "drain"

(* Mutant: the egress metric is not told of the last batch. *)
SendOk_DrainUncounted(s) ==
    /\ hpc[s] \in {"send", "drainsend"}
    /\ sent' = IF hpc[s] = "send" THEN Add(sent, s, batch[s]) ELSE sent
    /\ batch' = [batch EXCEPT ![s] = 0]
    /\ Goto(s, Resume(s))
    /\ UNCHANGED <<serverDone, admission, method, ctx, gpc, channels, received, dropped, failed>>

SendOk(s) ==
    /\ hpc[s] \in {"send", "drainsend"}
    /\ sent' = Add(sent, s, batch[s])
    /\ batch' = [batch EXCEPT ![s] = 0]
    /\ Goto(s, Resume(s))
    /\ UNCHANGED <<serverDone, admission, method, ctx, gpc, channels, received, dropped, failed>>

(* Receiver returns; the batchWriter reports the error if its channel of     *)
(* capacity 1 has room, and never waits.                                     *)
SendErr(s) ==
    /\ hpc[s] \in {"send", "drainsend"}
    /\ failed' = Add(failed, s, batch[s])
    /\ batch' = [batch EXCEPT ![s] = 0]
    /\ senderError' = [senderError EXCEPT ![s] = Batched(s)]
    /\ Goto(s, IF Batched(s) THEN Resume(s) ELSE "leave")
    /\ UNCHANGED <<serverDone, admission, method, ctx, gpc, buffer, closed, receiveError,
                   received, dropped, sent>>

(* Mutant: a rejected call does not give its place back. *)
Leave_KeepCount(s) ==
    /\ hpc[s] = "leave"
    /\ ctx' = [ctx EXCEPT ![s] = TRUE]
    /\ subscriptions' = IF subCount[s] > MaxStreams THEN subscriptions ELSE subscriptions - 1
    /\ Goto(s, "done")
    /\ UNCHANGED <<serverDone, subCount, method, gpc, channels, batch, counts>>

(* Mutant: the stream's context is not cancelled when the handler returns. *)
Leave_NoCancel(s) ==
    /\ hpc[s] = "leave"
    /\ subscriptions' = subscriptions - 1
    /\ Goto(s, "done")
    /\ UNCHANGED <<serverDone, subCount, method, ctx, gpc, channels, batch, counts>>

(* The deferred cancel and AddInt64(&s.subscriptions, -1). *)
Leave(s) ==
    /\ hpc[s] = "leave"
    /\ ctx' = [ctx EXCEPT ![s] = TRUE]
    /\ subscriptions' = subscriptions - 1
    /\ Goto(s, "done")
    /\ UNCHANGED <<serverDone, subCount, method, gpc, channels, batch, counts>>

-----------------------------------------------------------------------------
Opening(s) == Admit(s) \/ Validate(s) \/ SubscribeErr(s) \/ SubscribeOk(s)
Send(s) == SendOk(s) \/ SendErr(s)

Handler(s) ==
    \/ Opening(s)
    \/ Take(s) \/ TimerFlush(s) \/ SeeReceiveError(s) \/ SeeSenderError(s)
    \/ ChannelEnds(s) \/ Send(s) \/ Leave(s)

Next ==
    \/ Stop
    \/ \E s \in Streams :
         \/ CountStream(s) \/ Handler(s) \/ ClientLeaves(s) \/ WatchServer(s)
         \/ Forward(s) \/ RxErr(s) \/ CloseBuffer(s)

Spec == Init /\ [][Next]_vars

(* The goroutines run: the handler takes a step whenever it can, and which    *)
(* one is left to its select; a receiver fails once its context is done.      *)
(* Send returns, because the clients keep reading or their connections break; *)
(* nothing in the program bounds that wait.                                   *)
LiveSpec ==
    /\ Spec
    /\ \A s \in Streams :
         /\ WF_vars(Handler(s))
         /\ WF_vars(WatchServer(s))
         /\ WF_vars((ctx[s] /\ RxErr(s)) \/ CloseBuffer(s))

-----------------------------------------------------------------------------
(* Properties *)

InHandler == {s \in Streams : hpc[s] \notin {"idle", "done"}}

(* The handlers that were admitted and have not returned. *)
Admitted == {s \in Streams : hpc[s] \in {"validate", "subscribe", "loop", "send",
                                         "drain", "drainsend"}}

(* The variables keep their types; a batch never outgrows BatchSize, nor the  *)
(* channel its capacity.                                                      *)
TypeOK ==
    /\ serverDone \in BOOLEAN
    /\ subscriptions \in Nat
    /\ subCount \in [Streams -> Nat]
    /\ method \in [Streams -> {"Receiver", "BatchedReceiver"}]
    /\ hpc \in [Streams -> {"idle", "admit", "validate", "subscribe", "loop", "send",
                            "drain", "drainsend", "leave", "done"}]
    /\ ctx \in [Streams -> BOOLEAN]
    /\ gpc \in [Streams -> {"none", "rx", "close", "exited"}]
    /\ buffer \in [Streams -> 0 .. BufferSize]
    /\ closed \in [Streams -> BOOLEAN]
    /\ receiveError \in [Streams -> BOOLEAN]
    /\ senderError \in [Streams -> BOOLEAN]
    /\ batch \in [Streams -> 0 .. BatchSize]
    /\ received \in [Streams -> Nat]
    /\ dropped \in [Streams -> Nat]
    /\ sent \in [Streams -> Nat]
    /\ failed \in [Streams -> Nat]

(* s.subscriptions counts the handlers in progress, rejected ones included,   *)
(* so no path through a handler leaks a place.                                *)
SubscriptionsExact == subscriptions = Cardinality(InHandler)

(* Never more than maxStreams streams are served at a time, although the      *)
(* counter is added to and compared in two steps.                             *)
AdmittedBound == Cardinality(Admitted) <= MaxStreams

(* Every envelope of the subscription was sent, was in a batch whose Send     *)
(* failed, was counted as dropped, or is in the channel or the batch.         *)
Conservation ==
    \A s \in Streams :
        received[s] = sent[s] + failed[s] + dropped[s] + buffer[s] + batch[s]

(* "drains existing ones" (Stop): a handler that has returned, whether its     *)
(* client left, its subscription ended or the server stopped, has sent all    *)
(* that reached its channel, unless a Send failed.                            *)
DrainedOnReturn ==
    \A s \in Streams :
        hpc[s] = "done" /\ failed[s] = 0 => received[s] = sent[s] + dropped[s]

(* Stop returns: GracefulStop waits for the handlers, and every handler       *)
(* returns once the server's context is cancelled.                            *)
StopReturns == \A s \in Streams : (serverDone /\ s \in InHandler) ~> hpc[s] = "done"

(* The consume goroutine does not outlive its handler for ever. *)
ConsumerExits == \A s \in Streams : hpc[s] = "done" ~> gpc[s] \in {"none", "exited"}

(* The inductive invariant behind the safety properties. *)

(* The handlers whose subCount lets them pass, whether they compared it yet   *)
(* or not.  Unlike Admitted, this set grows only when the counter is added to. *)
Passing == {s \in InHandler : subCount[s] <= MaxStreams}

AdmissionInv ==
    /\ SubscriptionsExact
    /\ Cardinality(Passing) <= MaxStreams
    /\ Admitted \subseteq Passing

(* What relates a stream's handler, its consume goroutine and its counts. *)
StreamInv(s) ==
    /\ hpc[s] \notin {"send", "drainsend", "leave", "done"} => batch[s] < BatchSize
    /\ hpc[s] \in {"send", "drainsend"} => batch[s] > 0
    /\ hpc[s] \in {"idle", "admit", "validate", "subscribe"} => gpc[s] = "none"
    /\ hpc[s] \in {"loop", "send", "drain", "drainsend"} => gpc[s] # "none"
    /\ gpc[s] = "none" => received[s] = 0 /\ sent[s] = 0 /\ dropped[s] = 0
    /\ closed[s] => gpc[s] = "exited"
    /\ senderError[s] => failed[s] > 0
    /\ hpc[s] \in {"leave", "done"} =>
         failed[s] > 0 \/ (gpc[s] # "rx" /\ received[s] = sent[s] + dropped[s])

IndInv ==
    /\ TypeOK
    /\ AdmissionInv
    /\ Conservation
    /\ \A s \in Streams : StreamInv(s)
=============================================================================
