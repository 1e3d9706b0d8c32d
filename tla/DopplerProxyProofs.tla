------------------------- MODULE DopplerProxyProofs -------------------------
(***************************************************************************)
(* Proofs about MetricEmitter, that no increment is lost or counted twice  *)
(* whatever the program does with its metrics and whatever fails; and      *)
(* about DopplerProxy, whose handler uses it: the safety properties of the *)
(* run, for any clients, tokens and grants and any number of messages.     *)
(***************************************************************************)
EXTENDS DopplerProxy, TLAPS

(* The invariant needs that a delta is out of the counter only while the      *)
(* pulse goroutine is in WithEnvelope: the next swap would overwrite it.      *)
EmitterInv ==
    /\ EmitterTypeOK
    /\ CounterConservation
    /\ pulse = "tick" => taken = 0

(* The conversions of a gauge keep to the natural numbers. *)
LEMMA ConversionTypes ==
    ASSUME NEW n \in Nat
    PROVE  toUint64(n) \in Nat /\ toFloat64(n) \in Nat
  <1>1. Precision \in Nat /\ Precision > 0
    BY EmitterAssumption
  <1>2. n * Precision \in Nat
    BY <1>1
  <1>3. n \div Precision \in Nat
    BY <1>1
  <1>. QED
    BY <1>2, <1>3 DEF toUint64, toFloat64

(* The emitter starts with nothing counted, sent or in hand. *)
LEMMA EmitterInitInv == EmitterInit => EmitterInv
  <1>. SUFFICES ASSUME EmitterInit
                PROVE  EmitterInv
    OBVIOUS
  <1>1. sender \in BOOLEAN
    BY Zenon DEF EmitterInit
  <1>. QED
    BY <1>1 DEF EmitterInit, EmitterInv, EmitterTypeOK, CounterConservation

(* A step of a pulse goroutine preserves the invariant: a delta is in one of  *)
(* three places, and each step moves it from one to another.                  *)
LEMMA PulseInv == EmitterInv /\ Pulse => EmitterInv'
  <1>. SUFFICES ASSUME EmitterInv, Pulse
                PROVE  EmitterInv'
    OBVIOUS
  <1>1. sender' \in BOOLEAN
    BY Zenon DEF EmitterInv, EmitterTypeOK, Pulse, OpenStream, TakeDelta, SendCounter,
                 SendCounterErr, AddBack, SendGauge
  <1>2. CASE OpenStream
    BY <1>1, <1>2 DEF OpenStream, EmitterInv, EmitterTypeOK, CounterConservation, counterVars, gaugeVars
  <1>3. CASE TakeDelta
    BY <1>1, <1>3 DEF TakeDelta, EmitterInv, EmitterTypeOK, CounterConservation, gaugeVars
  <1>4. CASE SendCounter
    BY <1>1, <1>4 DEF SendCounter, EmitterInv, EmitterTypeOK, CounterConservation, gaugeVars
  <1>5. CASE SendCounterErr
    BY <1>1, <1>5 DEF SendCounterErr, EmitterInv, EmitterTypeOK, CounterConservation, counterVars, gaugeVars
  <1>6. CASE AddBack
    BY <1>1, <1>6 DEF AddBack, EmitterInv, EmitterTypeOK, CounterConservation, gaugeVars
  <1>7. CASE SendGauge
    BY <1>1, <1>7, ConversionTypes DEF SendGauge, EmitterInv, EmitterTypeOK, CounterConservation, counterVars
  <1>. QED
    BY <1>2, <1>3, <1>4, <1>5, <1>6, <1>7 DEF Pulse

(* Others may increment the counter between any two steps of a pulse. *)
LEMMA IncrementInv ==
    ASSUME NEW n \in Nat, EmitterInv, Increment(n)
    PROVE  EmitterInv'
  <1>1. sender' \in BOOLEAN
    BY Zenon DEF EmitterInv, EmitterTypeOK, Increment
  <1>. QED
    BY <1>1 DEF Increment, EmitterInv, EmitterTypeOK, CounterConservation, gaugeVars

(* Others may set the gauge between any two steps of a pulse. *)
LEMMA SetGaugeInv ==
    ASSUME NEW n \in Nat, EmitterInv, SetGauge(n)
    PROVE  EmitterInv'
  <1>1. sender' \in BOOLEAN
    BY Zenon DEF EmitterInv, EmitterTypeOK, SetGauge
  <1>. QED
    BY <1>1, ConversionTypes DEF SetGauge, EmitterInv, EmitterTypeOK, CounterConservation, counterVars

(* The inductive invariant holds in every program that uses its metrics only  *)
(* by Increment and Set.                                                      *)
THEOREM EmitterInvariance == EmitterSpec => []EmitterInv
  <1>1. EmitterInv /\ [EmitterNext]_emitterVars => EmitterInv'
    <2>. SUFFICES ASSUME EmitterInv, [EmitterNext]_emitterVars
                  PROVE  EmitterInv'
      OBVIOUS
    <2>1. CASE Pulse
      BY <2>1, PulseInv
    <2>2. ASSUME NEW n \in Nat, Increment(n)
          PROVE  EmitterInv'
      BY <2>2, IncrementInv
    <2>3. ASSUME NEW n \in Nat, SetGauge(n)
          PROVE  EmitterInv'
      BY <2>3, SetGaugeInv
    <2>4. CASE UNCHANGED emitterVars
      BY <2>4 DEF emitterVars, EmitterInv, EmitterTypeOK, CounterConservation
    <2>. QED
      BY <2>1, <2>2, <2>3, <2>4 DEF EmitterNext
  <1>. QED
    BY <1>1, EmitterInitInv, PTL DEF EmitterSpec

(* Counts and values stay natural numbers: nothing is taken from a counter    *)
(* that was not added to it.                                                  *)
THEOREM EmitterTypeCorrect == EmitterSpec => []EmitterTypeOK
  <1>1. EmitterInv => EmitterTypeOK
    BY DEF EmitterInv
  <1>. QED
    BY <1>1, EmitterInvariance, PTL

(* What was reported, what is being sent and what is still counted add up to  *)
(* all increments, for any amounts and any number of failed sends.            *)
THEOREM CounterConservationHolds == EmitterSpec => []CounterConservation
  <1>1. EmitterInv => CounterConservation
    BY DEF EmitterInv
  <1>. QED
    BY <1>1, EmitterInvariance, PTL

-----------------------------------------------------------------------------
(* The handler *)

Serving == {"subscribe", "upgrade", "select", "write", "close"}

(* The handler's counter counts it while it serves the request. *)
CountInv ==
    /\ handler \in {"authorize", "done"} \cup Serving
    /\ count = IF handler \in Serving THEN 1 ELSE 0

Allowed ==
    LET token == getAuthToken(request) IN
    IF request.endpoint = "firehose"
    THEN token \in Admins
    ELSE request.app \in GUIDs /\ <<token, request.app>> \in Access

(* Access was granted before the handler came to serve, so before it started   *)
(* the goroutine that receives.                                                *)
AccessInv ==
    (handler \in Serving \/ receiver # "none") /\ ~disableAccessControl => Allowed

(* Between the connector and the client there is at most the message that the  *)
(* goroutine offers and the one the handler writes.                            *)
GapInv ==
    /\ received \in Nat /\ written \in Nat /\ inHand \in Nat
    /\ receiver \in {"none", "recv", "offer", "exited"}
    /\ handler \in {"authorize", "subscribe"} => receiver = "none"
    /\ handler \in {"authorize", "subscribe", "upgrade", "select"} =>
         /\ receiver \in {"none", "recv"} => received = written
         /\ receiver = "offer" => received = written + 1
    /\ handler = "write" =>
         /\ inHand = written + 1
         /\ receiver \in {"none", "recv"} => received = inHand
         /\ receiver = "offer" => received = inHand + 1

-----------------------------------------------------------------------------
(* The proxy does with its metrics what the emitter expects of a program. *)

(* Every step keeps the number of streams and the handler in agreement. *)
LEMMA CountStep == CountInv /\ [Next]_vars => CountInv'
  <1>. SUFFICES ASSUME CountInv, [Next]_vars
                PROVE  CountInv'
    OBVIOUS
  <1>1. CASE Authorize
    BY <1>1 DEF CountInv, Serving, Authorize
  <1>2. CASE SubscribeOk \/ SubscribeErr
    BY <1>2 DEF CountInv, Serving, SubscribeOk, SubscribeErr
  <1>3. CASE UpgradeOk \/ UpgradeErr \/ WriteOk \/ WriteErr \/ Return
    BY <1>3 DEF CountInv, Serving, UpgradeOk, UpgradeErr, WriteOk, WriteErr, Return
  <1>4. CASE Leave
    BY <1>4 DEF CountInv, Serving, Leave
  <1>5. CASE Take
    BY <1>5 DEF CountInv, Serving, Take
  <1>6. CASE Recv \/ RecvErr \/ SlowConsumer
    BY <1>6 DEF CountInv, Serving, Recv, RecvErr, SlowConsumer
  <1>7. CASE ReadErr \/ KeepAliveRun \/ pongHandler
    BY <1>7 DEF CountInv, Serving, ReadErr, KeepAliveRun, Ping, AwaitPong, pongHandler
  <1>8. CASE ClientLeaves \/ emitMetrics \/ EmitterStep
    BY <1>8 DEF CountInv, Serving, ClientLeaves, emitMetrics, EmitterStep
  <1>9. CASE UNCHANGED vars
    BY <1>9 DEF CountInv, vars
  <1>. QED
    BY <1>1, <1>2, <1>3, <1>4, <1>5, <1>6, <1>7, <1>8, <1>9 DEF Next, Handler

(* Every step of the proxy is one the emitter allows, or does not concern *)
(* it.                                                                    *)
LEMMA EmitterSimulation == CountInv /\ [Next]_vars => [EmitterNext]_emitterVars
  <1>. SUFFICES ASSUME CountInv, [Next]_vars
                PROVE  EmitterNext \/ UNCHANGED emitterVars
    OBVIOUS
  <1>1. CASE Authorize
    BY <1>1 DEF Authorize
  <1>2. CASE WriteOk
    <2>1. Increment(1)
      BY <1>2 DEF WriteOk
    <2>. QED
      BY <2>1 DEF EmitterNext
  <1>3. CASE SubscribeOk \/ SubscribeErr \/ UpgradeOk \/ UpgradeErr \/ WriteErr \/ Return \/ Leave
    BY <1>3 DEF SubscribeOk, SubscribeErr, UpgradeOk, UpgradeErr, WriteErr, Return, Leave
  <1>4. CASE Take
    BY <1>4 DEF Take
  <1>5. CASE Recv \/ RecvErr \/ SlowConsumer
    BY <1>5 DEF Recv, RecvErr, SlowConsumer
  <1>6. CASE ReadErr \/ KeepAliveRun \/ pongHandler
    BY <1>6 DEF ReadErr, KeepAliveRun, Ping, AwaitPong, pongHandler
  <1>7. CASE ClientLeaves
    BY <1>7 DEF ClientLeaves
  <1>8. CASE emitMetrics
    <2>1. count \in Nat
      BY DEF CountInv
    <2>2. SetGauge(count)
      BY <1>8 DEF emitMetrics
    <2>. QED
      BY <2>1, <2>2 DEF EmitterNext
  <1>9. CASE EmitterStep
    BY <1>9 DEF EmitterStep, EmitterNext
  <1>10. CASE UNCHANGED vars
    BY <1>10 DEF vars
  <1>. QED
    BY <1>1, <1>2, <1>3, <1>4, <1>5, <1>6, <1>7, <1>8, <1>9, <1>10
       DEF Next, Handler

(* The number of streams counts this handler while it serves. *)
LEMMA CountInvariance == Spec => []CountInv
  <1>1. Init => CountInv
    BY DEF Init, CountInv, Serving
  <1>. QED
    BY <1>1, CountStep, PTL DEF Spec

(* The proxy implements the emitter's specification: seen through the metrics  *)
(* alone, its steps are those of a program that increments and sets them.      *)
THEOREM ImplementsEmitter == Spec => EmitterSpec
  <1>1. Init => EmitterInit
    BY DEF Init
  <1>. QED
    BY <1>1, CountInvariance, EmitterSimulation, PTL DEF Spec, EmitterSpec

(* The "egress" metric of a stream conserves its increments. *)
THEOREM ProxyCounterConservation == Spec => []CounterConservation
  BY ImplementsEmitter, CounterConservationHolds, PTL

-----------------------------------------------------------------------------
(* Access control *)

(* What the authorities can answer without granting access is never "ok". *)
LEMMA AuthorizeSound ==
    ASSUME Authorize, handler' = "subscribe", ~disableAccessControl
    PROVE  Allowed
  <1>. DEFINE token == getAuthToken(request)
  <1>1. CASE request.endpoint = "firehose"
    <2>1. "ok" \in authorizeAdmin(token)
      BY <1>1 DEF Authorize
    <2>2. "admin" \in GetAuthData(token)
      BY <2>1 DEF authorizeAdmin
    <2>3. token \in Admins
      BY <2>2 DEF GetAuthData
    <2>. QED
      BY <1>1, <2>3 DEF Allowed
  <1>2. CASE request.endpoint # "firehose"
    <2>1. "ok" \in authorizeLog(token, request.app)
      BY <1>2 DEF Authorize
    <2>2. request.app \in GUIDs /\ "ok" \in logAccess(token, request.app)
      BY <2>1 DEF authorizeLog, logAccess
    <2>3. <<token, request.app>> \in Access
      BY <2>2 DEF logAccess
    <2>. QED
      BY <1>2, <2>2, <2>3 DEF Allowed
  <1>. QED
    BY <1>1, <1>2

(* The request does not change, and nothing but Authorize lets the handler     *)
(* serve it.                                                                   *)
LEMMA OnlyAuthorizeAdmits ==
    ASSUME [Next]_vars, CountInv
    PROVE  /\ UNCHANGED <<request, disableAccessControl>>
           /\ (handler' \in Serving \/ receiver' # "none") =>
                \/ handler \in Serving \/ receiver # "none"
                \/ Authorize /\ handler' = "subscribe"
  <1>1. CASE Authorize
    BY <1>1 DEF Authorize, Serving, streamVars
  <1>2. CASE SubscribeOk \/ SubscribeErr
    BY <1>2 DEF Serving, SubscribeOk, SubscribeErr, accessVars, streamVars
  <1>3. CASE UpgradeOk \/ UpgradeErr \/ WriteOk \/ WriteErr \/ Return
    BY <1>3 DEF Serving, UpgradeOk, UpgradeErr, WriteOk, WriteErr, Return, accessVars, streamVars
  <1>4. CASE Leave
    BY <1>4 DEF Serving, Leave, accessVars
  <1>5. CASE Take
    BY <1>5 DEF Serving, Take, accessVars
  <1>6. CASE Recv \/ RecvErr \/ SlowConsumer
    BY <1>6 DEF Recv, RecvErr, SlowConsumer, accessVars
  <1>7. CASE ReadErr \/ KeepAliveRun \/ pongHandler
    BY <1>7 DEF ReadErr, KeepAliveRun, Ping, AwaitPong, pongHandler, accessVars, streamVars
  <1>8. CASE ClientLeaves \/ emitMetrics \/ EmitterStep
    BY <1>8 DEF ClientLeaves, emitMetrics, EmitterStep, accessVars, streamVars
  <1>9. CASE UNCHANGED vars
    BY <1>9 DEF vars, accessVars, streamVars
  <1>. QED
    BY <1>1, <1>2, <1>3, <1>4, <1>5, <1>6, <1>7, <1>8, <1>9 DEF Next, Handler

(* A stream is opened only for a client that may have it: for all tokens,      *)
(* scopes and grants, whichever calls to UAA and to the cloud controller fail. *)
THEOREM OpenedOnlyIfAllowedHolds == Spec => []OpenedOnlyIfAllowed
  <1>1. Init => AccessInv
    BY DEF Init, AccessInv, Serving
  <1>2. AccessInv /\ CountInv /\ [Next]_vars => AccessInv'
    <2>. SUFFICES ASSUME AccessInv, CountInv, [Next]_vars,
                         handler' \in Serving \/ receiver' # "none", ~disableAccessControl'
                  PROVE  Allowed'
      BY DEF AccessInv
    <2>1. UNCHANGED <<request, disableAccessControl>>
      BY OnlyAuthorizeAdmits
    <2>2. Allowed
      BY <2>1, OnlyAuthorizeAdmits, AuthorizeSound DEF AccessInv
    <2>. QED
      BY <2>1, <2>2 DEF Allowed, getAuthToken
  <1>3. AccessInv => OpenedOnlyIfAllowed
    BY DEF AccessInv, OpenedOnlyIfAllowed, Allowed
  <1>. QED
    BY <1>1, <1>2, <1>3, CountInvariance, PTL DEF Spec

-----------------------------------------------------------------------------
(* The messages *)

(* Every step keeps track of each message from recv to WriteMessage. *)
LEMMA GapStep == GapInv /\ CountInv /\ [Next]_vars => GapInv'
  <1>. SUFFICES ASSUME GapInv, CountInv, [Next]_vars
                PROVE  GapInv'
    OBVIOUS
  <1>1. CASE Authorize
    BY <1>1 DEF GapInv, Authorize, streamVars
  <1>2. CASE SubscribeOk \/ SubscribeErr
    BY <1>2 DEF GapInv, SubscribeOk, SubscribeErr, streamVars
  <1>3. CASE UpgradeOk \/ UpgradeErr \/ WriteErr \/ Return
    BY <1>3 DEF GapInv, UpgradeOk, UpgradeErr, WriteErr, Return, streamVars
  <1>4. CASE WriteOk
    BY <1>4 DEF GapInv, WriteOk
  <1>5. CASE Leave
    BY <1>5 DEF GapInv, Leave, streamVars
  <1>6. CASE Take
    BY <1>6 DEF GapInv, Take
  <1>7. CASE Recv
    BY <1>7 DEF GapInv, Recv
  <1>8. CASE RecvErr \/ SlowConsumer
    BY <1>8 DEF GapInv, RecvErr, SlowConsumer
  <1>9. CASE ReadErr \/ KeepAliveRun \/ pongHandler
    BY <1>9 DEF GapInv, ReadErr, KeepAliveRun, Ping, AwaitPong, pongHandler, streamVars
  <1>10. CASE ClientLeaves \/ emitMetrics \/ EmitterStep
    BY <1>10 DEF GapInv, ClientLeaves, emitMetrics, EmitterStep, streamVars
  <1>11. CASE UNCHANGED vars
    BY <1>11 DEF GapInv, vars, streamVars
  <1>. QED
    BY <1>1, <1>2, <1>3, <1>4, <1>5, <1>6, <1>7, <1>8, <1>9, <1>10, <1>11 DEF Next, Handler

(* A client never misses a message and goes on, for any number of messages. *)
THEOREM WithoutGapsHolds == Spec => []WithoutGaps
  <1>1. Init => GapInv
    BY DEF Init, GapInv
  <1>2. GapInv => WithoutGaps
    BY DEF GapInv, WithoutGaps
  <1>. QED
    BY <1>1, <1>2, GapStep, CountInvariance, PTL DEF Spec
=============================================================================
