--------------------------- MODULE EgressStreamV2 ---------------------------
(***************************************************************************)
(* One stream of the router's v2 egress API: EgressServer.BatchedReceiver. *)
(* The publisher writes matching envelopes into the stream's diode; a      *)
(* goroutine of the stream takes them out and hands them over an           *)
(* unbuffered channel to the handler, which batches and sends them.        *)
(*                                                                         *)
(* The diode is what OneToOneWaiter implements, LossyFifo.  Time is        *)
(* abstracted: the flush timer may fire at any moment once it is set, and  *)
(* the batch interval may have lapsed at any write.  Stop of a timer       *)
(* returns false only if its value has been received, and Reset discards   *)
(* one that has not (timers of Go 1.23 and later).                         *)
(***************************************************************************)
EXTENDS Integers, Sequences, SequencesExt

CONSTANTS
    BufferSize, \* size of the subscription's diode (1000 in the code)
    BatchSize,  \* batchSize
    MaxSets     \* bound: envelopes published to this stream

ASSUME EgressStreamAssumption ==
    /\ BufferSize \in Nat \ {0}
    /\ BatchSize \in Nat \ {0}
    /\ MaxSets \in Nat

VARIABLES
    written, next, delivered, lost, \* the diode, see LossyFifo
    done,       \* the stream's context is cancelled
    subscribed, \* registered with the PubSub (from Subscribe to the deferred cancel)
    rpc,        \* reader goroutine: "next", "wait" (in Next), "send", "exited"
    env,        \* the envelope the reader goroutine holds at "send"
    hpc,        \* handler: "start", "select", "send", "report", "stop", "reset"
                \* or "returned"
    then,       \* what it does with the timer after a write: "stop" or "reset" it
    timer,      \* "set", "fired" or "received"
    batch,      \* the batcher's batch
    errStream,  \* channel of capacity 1: TRUE when it holds an error
    sent,       \* history: the envelopes passed to Send, oldest first
    failed      \* history: how many of them were in batches whose Send failed

diodeVars == <<written, next, delivered, lost>>
timerVars == <<then, timer>>
handlerVars == <<hpc, timerVars, batch, errStream, sent, failed>>
streamVars == <<diodeVars, done, subscribed, rpc, env, handlerVars>>

Diode == INSTANCE LossyFifo WITH N <- BufferSize

None == -1

StreamInit ==
    /\ Diode!Init
    /\ done = FALSE
    /\ subscribed = FALSE
    /\ rpc = "exited"
    /\ env = None
    /\ hpc = "start"
    /\ then = "reset"
    /\ timer = "received"
    /\ batch = <<>>
    /\ errStream = FALSE
    /\ sent = <<>>
    /\ failed = 0

-----------------------------------------------------------------------------
(* The environment *)

(* The PubSub sets an envelope while the subscription is registered. *)
SetEnvelope ==
    /\ subscribed
    /\ Diode!Put
    /\ UNCHANGED <<done, subscribed, rpc, env, handlerVars>>

(* The client goes away, or the call is cancelled. *)
Cancel ==
    /\ ~done
    /\ done' = TRUE
    /\ UNCHANGED <<diodeVars, subscribed, rpc, env, handlerVars>>

-----------------------------------------------------------------------------
(* The reader goroutine *)

(* d.Next() finds an envelope. *)
ReaderGet ==
    /\ rpc = "next"
    /\ \E s \in next .. written - 1 : Diode!Get(s) /\ env' = s
    /\ rpc' = "send"
    /\ UNCHANGED <<done, subscribed, handlerVars>>

(* d.Next() finds none and waits. *)
ReaderWait ==
    /\ rpc = "next"
    /\ next = written
    /\ rpc' = "wait"
    /\ UNCHANGED <<diodeVars, done, subscribed, env, handlerVars>>

(* d.Next() is woken by a Set. *)
ReaderWake ==
    /\ rpc = "wait"
    /\ next < written
    /\ rpc' = "next"
    /\ UNCHANGED <<diodeVars, done, subscribed, env, handlerVars>>

(* Mutant: the send on the channel does not watch the context. *)
ReaderExit_OnlyNext ==
    /\ rpc = "wait"
    /\ done
    /\ rpc' = "exited"
    /\ UNCHANGED <<diodeVars, done, subscribed, env, handlerVars>>

(* d.Next() returns nil, or the select with the send sees the context done. *)
ReaderExit ==
    /\ rpc \in {"wait", "send"}
    /\ done
    /\ rpc' = "exited"
    /\ UNCHANGED <<diodeVars, done, subscribed, env, handlerVars>>

-----------------------------------------------------------------------------
(* The handler *)

(* The handler subscribes, starts the reader goroutine and sets the timer. *)
Start ==
    /\ hpc = "start"
    /\ subscribed' = TRUE
    /\ rpc' = "next"
    /\ hpc' = "select"
    /\ timer' = "set"
    /\ UNCHANGED <<diodeVars, done, env, then, batch, errStream, sent, failed>>

(* Returning runs the deferred cancel, and gRPC cancels the stream's context. *)
Return ==
    /\ subscribed' = FALSE
    /\ hpc' = "returned"

ReturnOnDone ==
    /\ hpc = "select"
    /\ done
    /\ Return
    /\ UNCHANGED <<diodeVars, done, rpc, env, timerVars, batch, errStream, sent, failed>>

ReturnOnError ==
    /\ hpc = "select"
    /\ errStream
    /\ errStream' = FALSE
    /\ Return
    /\ done' = TRUE
    /\ UNCHANGED <<diodeVars, rpc, env, timerVars, batch, sent, failed>>

TimerFires ==
    /\ timer = "set"
    /\ timer' = "fired"
    /\ UNCHANGED <<diodeVars, done, subscribed, rpc, env, hpc, then, batch, errStream, sent, failed>>

(* The timer's case: ForcedFlush, a no-op on an empty batch. *)
TimerFlush ==
    /\ hpc = "select"
    /\ timer = "fired"
    /\ timer' = "received"
    /\ then' = "reset"
    /\ hpc' = IF batch = <<>> THEN "reset" ELSE "send"
    /\ UNCHANGED <<diodeVars, done, subscribed, rpc, env, batch, errStream, sent, failed>>

(* Mutant: the reader goroutine drops an envelope the handler does not take. *)
Receive_Lossy ==
    /\ rpc = "send"
    /\ rpc' = "next"
    /\ env' = None
    /\ IF hpc = "select"
       THEN /\ batch' = Append(batch, env)
            /\ then' = "stop"
            /\ hpc' = IF Len(batch') < BatchSize THEN "stop" ELSE "send"
       ELSE UNCHANGED <<batch, then, hpc>>
    /\ UNCHANGED <<diodeVars, done, subscribed, timer, errStream, sent, failed>>

(* env := <-c meets the reader's c <- env.  Batcher.Write appends it and     *)
(* flushes unless the batch is partial and the interval has not lapsed.      *)
Receive ==
    /\ hpc = "select"
    /\ rpc = "send"
    /\ rpc' = "next"
    /\ env' = None
    /\ batch' = Append(batch, env)
    /\ then' = "stop"
    /\ \/ Len(batch') < BatchSize /\ hpc' = "stop"
       \/ hpc' = "send"
    /\ UNCHANGED <<diodeVars, done, subscribed, timer, errStream, sent, failed>>

(* batchWriter.Write: Send succeeds; the batcher starts a new batch. *)
SendOk ==
    /\ hpc = "send"
    /\ sent' = sent \o batch
    /\ batch' = <<>>
    /\ hpc' = then
    /\ UNCHANGED <<diodeVars, done, subscribed, rpc, env, timerVars, errStream, failed>>

(* batchWriter.Write: Send fails (because the stream is gone or the message  *)
(* is refused) and the error goes to errStream: a blocking send.             *)
SendErr ==
    /\ hpc = "send"
    /\ hpc' = "report"
    /\ UNCHANGED <<diodeVars, done, subscribed, rpc, env, timerVars, batch, errStream, sent, failed>>

Report ==
    /\ hpc = "report"
    /\ ~errStream
    /\ errStream' = TRUE
    /\ sent' = sent \o batch
    /\ failed' = failed + Len(batch)
    /\ batch' = <<>>
    /\ hpc' = then
    /\ UNCHANGED <<diodeVars, done, subscribed, rpc, env, timerVars>>

(* After an envelope was written: if !timer.Stop() { <-timer.C }.  Nobody would *)
(* ever send a value that has been received before.                             *)
StopTimer ==
    /\ hpc = "stop"
    /\ timer # "received"
    /\ hpc' = "reset"
    /\ UNCHANGED <<diodeVars, done, subscribed, rpc, env, timerVars, batch, errStream, sent, failed>>

(* Mutant: the timer is not set again when it has fired. *)
ResetTimer_NotFired ==
    /\ hpc = "reset"
    /\ timer' = IF timer = "received" THEN timer ELSE "set"
    /\ hpc' = "select"
    /\ UNCHANGED <<diodeVars, done, subscribed, rpc, env, then, batch, errStream, sent, failed>>

ResetTimer ==
    /\ hpc = "reset"
    /\ timer' = "set"
    /\ hpc' = "select"
    /\ UNCHANGED <<diodeVars, done, subscribed, rpc, env, then, batch, errStream, sent, failed>>

-----------------------------------------------------------------------------
Reader == ReaderGet \/ ReaderWait \/ ReaderWake
Send == SendOk \/ SendErr

StreamNext ==
    \/ SetEnvelope \/ Cancel
    \/ Reader \/ ReaderExit
    \/ Start \/ ReturnOnDone \/ ReturnOnError \/ TimerFlush \/ Receive
    \/ Send \/ Report \/ StopTimer \/ ResetTimer
    \/ TimerFires

StreamSpec == StreamInit /\ [][StreamNext]_streamVars

(* Goroutines that can run do run.  A select with several ready cases picks  *)
(* one at random, so no case that stays or keeps becoming ready is ignored   *)
(* for ever: strong fairness for each of them.  Send returns: the client     *)
(* keeps receiving, or its stream is torn down and Send fails.  The timer    *)
(* fires.                                                                    *)
LiveSpec ==
    /\ StreamSpec
    /\ WF_streamVars(Start) /\ WF_streamVars(Send) /\ WF_streamVars(Report)
    /\ WF_streamVars(StopTimer) /\ WF_streamVars(ResetTimer) /\ WF_streamVars(TimerFires)
    /\ WF_streamVars(Reader) /\ SF_streamVars(ReaderExit)
    /\ SF_streamVars(ReturnOnDone) /\ SF_streamVars(ReturnOnError)
    /\ SF_streamVars(TimerFlush) /\ SF_streamVars(Receive)

-----------------------------------------------------------------------------
(* Properties *)

(* The variables keep their types, and a batch never outgrows BatchSize. *)
TypeOK ==
    /\ written \in Nat /\ next \in Nat /\ lost \in Nat
    /\ delivered \in Seq(Nat)
    /\ done \in BOOLEAN /\ subscribed \in BOOLEAN /\ errStream \in BOOLEAN
    /\ rpc \in {"next", "wait", "send", "exited"}
    /\ env \in Nat \cup {None}
    /\ hpc \in {"start", "select", "send", "report", "stop", "reset", "returned"}
    /\ then \in {"stop", "reset"}
    /\ timer \in {"set", "fired", "received"}
    /\ batch \in Seq(Nat)
    /\ Len(batch) <= BatchSize
    /\ sent \in Seq(Nat)
    /\ failed \in Nat

(* Nothing is lost, doubled or reordered between the diode and Send: what was *)
(* passed to Send, followed by the batch and the envelope in the reader       *)
(* goroutine's hand (where it stays if that goroutine exits), is what came    *)
(* out of the diode.                                                          *)
Conservation ==
    delivered = sent \o batch \o (IF env = None THEN <<>> ELSE <<env>>)

(* "flushes if there are no more envelopes in the diode": an envelope that    *)
(* reached the batch is sent even if no other follows, unless the stream ends: *)
(* whenever the timer fires, the handler is not stuck in its Stop, and the     *)
(* timer is always set again.                                                  *)
BatchFlushed ==
    \A k \in 0 .. MaxSets - 1 :
        k \in ToSet(batch) ~> (k \in ToSet(sent) \/ hpc = "report" \/ done)

(* A stream whose context is done is released: its reader goroutine exits,    *)
(* even if the handler never takes another envelope, and the PubSub does not  *)
(* know it any more.  Only a handler that is blocked in its second report of  *)
(* an error (see ReturnsIfCancelled) stays registered.                        *)
Released ==
    (done /\ hpc # "start") ~>
        rpc = "exited" /\ (subscribed => hpc = "report" /\ errStream)

(* "returns if the context is cancelled": the handler returns once its        *)
(* context is done.                                                           *)
ReturnsIfCancelled == done ~> hpc = "returned"
=============================================================================
