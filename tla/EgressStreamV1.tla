--------------------------- MODULE EgressStreamV1 ---------------------------
(***************************************************************************)
(* One stream of the router's v1 egress API (DopplerServer): Subscribe,    *)
(* whose handler sends every envelope by itself, or BatchSubscribe, whose  *)
(* handler batches.  One goroutine polls the stream's diode and sends; in  *)
(* Subscribe a second one, monitorContext, turns the context's end into a  *)
(* flag that the first one polls.                                          *)
(*                                                                         *)
(* The diode is what the OneToOne diode implements, LossyFifo.  Time is    *)
(* abstracted: the batch interval may have lapsed at any Write or Flush.   *)
(***************************************************************************)
EXTENDS Integers, Sequences, SequencesExt

CONSTANTS
    BufferSize, \* bufferSize of the subscription's diode
    BatchSize,  \* batchSize
    MaxSets     \* bound: envelopes published to this stream

ASSUME EgressStreamAssumption ==
    /\ BufferSize \in Nat \ {0}
    /\ BatchSize \in Nat \ {0}
    /\ MaxSets \in Nat

VARIABLES
    written, next, delivered, lost, \* the diode, see LossyFifo
    method,     \* "Subscribe" or "BatchSubscribe"
    ctxDone,    \* the stream's context is cancelled
    doneFlag,   \* Subscribe: the variable done that monitorContext sets
    registered, \* registered with the Router (from Register to the deferred cleanup)
    pc,         \* handler: "start", "loop", "next", "send", "report" or "returned"
    batch,      \* the batcher's batch; for Subscribe, the envelope being sent
    errStream,  \* channel of capacity 1: TRUE when it holds an error
    sent,       \* history: the envelopes passed to Send, oldest first
    failed      \* history: how many of them were lost in a failed Send

diodeVars == <<written, next, delivered, lost>>
sendVars == <<batch, errStream, sent, failed>>
streamVars == <<diodeVars, method, ctxDone, doneFlag, registered, pc, sendVars>>

Diode == INSTANCE LossyFifo WITH N <- BufferSize

Batched == method = "BatchSubscribe"

StreamInit ==
    /\ Diode!Init
    /\ method \in {"Subscribe", "BatchSubscribe"}
    /\ ctxDone = FALSE
    /\ doneFlag = FALSE
    /\ registered = FALSE
    /\ pc = "start"
    /\ batch = <<>>
    /\ errStream = FALSE
    /\ sent = <<>>
    /\ failed = 0

-----------------------------------------------------------------------------
(* The environment *)

(* The Router sets an envelope while the stream is registered. *)
Publish ==
    /\ registered
    /\ Diode!Put
    /\ UNCHANGED <<method, ctxDone, doneFlag, registered, pc, sendVars>>

(* The client goes away, or the call is cancelled. *)
Cancel ==
    /\ ~ctxDone
    /\ ctxDone' = TRUE
    /\ UNCHANGED <<diodeVars, method, doneFlag, registered, pc, sendVars>>

(* Mutant: monitorContext sets the flag for the batching handler only. *)
MonitorContext_Batched ==
    /\ Batched
    /\ pc # "start"
    /\ ctxDone
    /\ ~doneFlag
    /\ doneFlag' = TRUE
    /\ UNCHANGED <<diodeVars, method, ctxDone, registered, pc, sendVars>>

(* monitorContext, the second goroutine of Subscribe. *)
MonitorContext ==
    /\ ~Batched
    /\ pc # "start"
    /\ ctxDone
    /\ ~doneFlag
    /\ doneFlag' = TRUE
    /\ UNCHANGED <<diodeVars, method, ctxDone, registered, pc, sendVars>>

-----------------------------------------------------------------------------
(* The handler *)

Start ==
    /\ pc = "start"
    /\ registered' = TRUE
    /\ pc' = "loop"
    /\ UNCHANGED <<diodeVars, method, ctxDone, doneFlag, sendVars>>

(* Returning runs the deferred cleanup; gRPC cancels the context. *)
Return ==
    /\ registered' = FALSE
    /\ pc' = "returned"
    /\ ctxDone' = TRUE

(* The top of the loop finds nothing to stop for and goes on to TryNext. *)
Poll ==
    /\ pc = "loop"
    /\ IF Batched THEN ~ctxDone /\ ~errStream ELSE ~doneFlag
    /\ pc' = "next"
    /\ UNCHANGED <<diodeVars, method, ctxDone, doneFlag, registered, sendVars>>

(* The top of the loop finds the context done: in BatchSubscribe a case of    *)
(* its select, in Subscribe the flag of monitorContext.                       *)
ReturnOnDone ==
    /\ pc = "loop"
    /\ IF Batched THEN ctxDone ELSE doneFlag
    /\ Return
    /\ UNCHANGED <<diodeVars, method, doneFlag, sendVars>>

(* BatchSubscribe's select receives the error of the last Send. *)
ReturnOnError ==
    /\ pc = "loop"
    /\ Batched
    /\ errStream
    /\ errStream' = FALSE
    /\ Return
    /\ UNCHANGED <<diodeVars, method, doneFlag, batch, sent, failed>>

(* Mutant: Batcher.Write drops the envelope that fills the batch. *)
TryNextOk_DropLast ==
    /\ pc = "next"
    /\ \E s \in next .. written - 1 :
         /\ Diode!Get(s)
         /\ batch' = IF Len(batch) + 1 < BatchSize \/ ~Batched
                     THEN Append(batch, s) ELSE batch
    /\ \/ Batched /\ Len(batch') < BatchSize /\ pc' = "loop"
       \/ pc' = "send"
    /\ UNCHANGED <<method, ctxDone, doneFlag, registered, errStream, sent, failed>>

(* TryNext finds an envelope.  Subscribe sends it; BatchSubscribe writes it  *)
(* to the batcher, which flushes unless the batch is partial and the         *)
(* interval has not lapsed.                                                  *)
TryNextOk ==
    /\ pc = "next"
    /\ \E s \in next .. written - 1 :
         /\ Diode!Get(s)
         /\ batch' = Append(batch, s)
    /\ \/ Batched /\ Len(batch') < BatchSize /\ pc' = "loop"
       \/ pc' = "send"
    /\ UNCHANGED <<method, ctxDone, doneFlag, registered, errStream, sent, failed>>

(* TryNext finds nothing.  BatchSubscribe calls Flush, which sends what the  *)
(* batch holds if the interval has lapsed; then both sleep and loop.         *)
TryNextMiss ==
    /\ pc = "next"
    /\ next = written
    /\ pc' = "loop"
    /\ UNCHANGED <<diodeVars, method, ctxDone, doneFlag, registered, sendVars>>

FlushPartial ==
    /\ pc = "next"
    /\ next = written
    /\ batch # <<>>
    /\ pc' = "send"
    /\ UNCHANGED <<diodeVars, method, ctxDone, doneFlag, registered, sendVars>>

SendOk ==
    /\ pc = "send"
    /\ sent' = sent \o batch
    /\ batch' = <<>>
    /\ pc' = "loop"
    /\ UNCHANGED <<diodeVars, method, ctxDone, doneFlag, registered, errStream, failed>>

(* Subscribe returns the error of Send at once. *)
SendErr ==
    /\ pc = "send"
    /\ ~Batched
    /\ failed' = failed + Len(batch)
    /\ sent' = sent \o batch
    /\ batch' = <<>>
    /\ Return
    /\ UNCHANGED <<diodeVars, method, doneFlag, errStream>>

(* BatchSubscribe's batchWriter reports it: a blocking send. *)
BatchSendErr ==
    /\ pc = "send"
    /\ Batched
    /\ pc' = "report"
    /\ UNCHANGED <<diodeVars, method, ctxDone, doneFlag, registered, sendVars>>

Report ==
    /\ pc = "report"
    /\ ~errStream
    /\ errStream' = TRUE
    /\ failed' = failed + Len(batch)
    /\ sent' = sent \o batch
    /\ batch' = <<>>
    /\ pc' = "loop"
    /\ UNCHANGED <<diodeVars, method, ctxDone, doneFlag, registered>>

-----------------------------------------------------------------------------
Send == SendOk \/ SendErr \/ BatchSendErr

Handler ==
    \/ Start \/ Poll \/ ReturnOnDone \/ ReturnOnError
    \/ TryNextOk \/ TryNextMiss \/ FlushPartial
    \/ Send \/ Report

StreamNext == Publish \/ Cancel \/ MonitorContext \/ Handler

StreamSpec == StreamInit /\ [][StreamNext]_streamVars

(* The goroutines keep running; Send returns; and time passes, so the batch  *)
(* interval is found lapsed if Flush is called again and again.              *)
LiveSpec ==
    /\ StreamSpec
    /\ WF_streamVars(Handler) /\ WF_streamVars(MonitorContext)
    /\ SF_streamVars(FlushPartial)

-----------------------------------------------------------------------------
(* Properties *)

(* The variables keep their types, and a batch never outgrows BatchSize. *)
TypeOK ==
    /\ written \in Nat /\ next \in Nat /\ lost \in Nat
    /\ delivered \in Seq(Nat)
    /\ method \in {"Subscribe", "BatchSubscribe"}
    /\ ctxDone \in BOOLEAN /\ doneFlag \in BOOLEAN
    /\ registered \in BOOLEAN /\ errStream \in BOOLEAN
    /\ pc \in {"start", "loop", "next", "send", "report", "returned"}
    /\ batch \in Seq(Nat)
    /\ Len(batch) <= (IF Batched THEN BatchSize ELSE 1)
    /\ sent \in Seq(Nat)
    /\ failed \in Nat

(* Nothing is lost, doubled or reordered between the diode and Send: what was *)
(* passed to Send, followed by the batch, is what came out of the diode.      *)
Conservation == delivered = sent \o batch

(* The handler returns, and its buffer is no longer registered, once its      *)
(* context is done or a Send has failed.                                      *)
Returns == (ctxDone \/ failed > 0) ~> (pc = "returned" /\ ~registered)
=============================================================================
