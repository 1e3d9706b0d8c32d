---------------------------- MODULE DopplerProxy ----------------------------
(***************************************************************************)
(* One request to the traffic controller's proxy                           *)
(* (src/src/trafficcontroller/internal/proxy): access control, the handler *)
(* of a firehose or of an application's stream, its subscription at the    *)
(* connector, and the websocket with its goroutines: one that receives     *)
(* from the connector and gives up on a slow consumer, one that reads from *)
(* the client, and one that keeps the connection alive.  The proxy's       *)
(* metrics are those of MetricEmitter: the counter is the handler's        *)
(* "egress" metric, the gauge the number of open streams.                  *)
(*                                                                         *)
(* Time is left out: a timer may fire whenever a goroutine waits for it.   *)
(* Stop of a timer whose value nobody received returns true, so none of    *)
(* the receives behind "if !timer.Stop()" is ever reached.                 *)
(***************************************************************************)
EXTENDS MetricEmitter, FiniteSets

CONSTANTS
    Tokens,         \* the authorization tokens that clients have
    Admins,         \* those to which UAA gives the scope doppler.firehose
    AppIDs,
    GUIDs,          \* the app IDs that have the form of a GUID
    Access,         \* the pairs of tokens and app IDs the cloud controller allows
    Empty,          \* the empty string
    Malformed,      \* a cookie's value that cannot be unescaped
    Cases,          \* pairs of a client's request and the flag DisableAccessControl
    MaxMessages     \* bound: messages the connector hands out

Requests ==
    [endpoint : {"firehose", "stream"}, app : AppIDs,
     header : Tokens \cup {Empty}, cookie : Tokens \cup {Empty, Malformed}]

ASSUME ProxyAssumption ==
    /\ Admins \subseteq Tokens /\ GUIDs \subseteq AppIDs /\ Access \subseteq Tokens \X AppIDs
    /\ Empty \notin Tokens /\ Malformed \notin Tokens \cup {Empty}
    /\ Cases \subseteq Requests \X BOOLEAN
    /\ MaxMessages \in Nat

VARIABLES
    request,
    disableAccessControl,
    status,     \* what the client is answered, "none" before
    handler,    \* where the request's handler is
    count,      \* FirehoseHandler.counter or StreamHandler.counter
    cancelled,  \* the subscription's context is done
    receiver,   \* where ServeWS's goroutine is; data is closed when it has exited
    received,   \* the number of messages recv has returned
    inHand,   \* the number of the message the handler writes
    written,    \* the number of messages that WriteMessage accepted
    slow,       \* slowConsumerMetric
    client,     \* "there" or "gone"
    ws,         \* "none", "open" or "closed"
    reader,     \* the goroutine that reads from the client; clientWentAway closes with it
    keepAlive,  \* where KeepAlive.Run is; keepAliveExpired closes with it
    pong        \* pongChan holds a pong

streamVars == <<receiver, received, inHand, written, slow>>
socketVars == <<client, ws, reader, keepAlive, pong>>
accessVars == <<request, disableAccessControl, status>>
vars == <<accessVars, handler, count, cancelled, streamVars, socketVars, emitterVars>>

Init ==
    /\ EmitterInit
    /\ \E c \in Cases : request = c[1] /\ disableAccessControl = c[2]
    /\ status = "none"
    /\ handler = "authorize"
    /\ count = 0
    /\ cancelled = FALSE
    /\ receiver = "none"
    /\ received = 0
    /\ inHand = 0
    /\ written = 0
    /\ slow = 0
    /\ client = "there"
    /\ ws = "none"
    /\ reader = "none"
    /\ keepAlive = "none"
    /\ pong = FALSE

-----------------------------------------------------------------------------
(* Access control *)

(* getAuthToken: the header, or else the cookie, which counts as empty if it  *)
(* cannot be unescaped.                                                       *)
getAuthToken(r) ==
    IF r.header # Empty THEN r.header
    ELSE IF r.cookie = Malformed THEN Empty ELSE r.cookie

(* uaaClient.GetAuthData: an answer other than 200, or one that cannot be      *)
(* read, is an error; and HasPermission.                                       *)
GetAuthData(token) == {"error"} \cup (IF token \in Admins THEN {"admin"} ELSE {"other"})

(* Mutant: an error of UAA is not told from an answer. *)
authorizeAdmin_IgnoreError(token) ==
    IF disableAccessControl THEN {"ok"}
    ELSE IF token = Empty THEN {"unauthorized"}
    ELSE {IF a \in {"admin", "error"} THEN "ok" ELSE "unauthorized" : a \in GetAuthData(token)}

(* NewAdminAccessAuthorizer and AdminAccessMiddleware.Wrap *)
authorizeAdmin(token) ==
    IF disableAccessControl THEN {"ok"}
    ELSE IF token = Empty THEN {"unauthorized"}
    ELSE {IF a = "admin" THEN "ok" ELSE "unauthorized" : a \in GetAuthData(token)}

(* NewLogAccessAuthorizer: the status of the cloud controller, and a server    *)
(* error if it does not answer.                                                *)
logAccess(token, app) ==
    IF token = Empty THEN {"unauthorized"}
    ELSE {"unavailable"} \cup (IF <<token, app>> \in Access
                              THEN {"ok"}
                              ELSE {"unauthorized", "forbidden", "not found"})

(* LogAccessMiddleware.Wrap *)
authorizeLog(token, app) ==
    IF disableAccessControl THEN {"ok"}
    ELSE IF app \notin GUIDs THEN {"unauthorized"}
    ELSE {CASE s \in {"ok", "unauthorized"} -> s
            [] s \in {"forbidden", "not found"} -> "not found"
            [] OTHER -> "server error" : s \in logAccess(token, app)}

Authorize ==
    /\ handler = "authorize"
    /\ \E s \in LET token == getAuthToken(request) IN
                IF request.endpoint = "firehose"
                THEN authorizeAdmin(token)
                ELSE authorizeLog(token, request.app) :
         \/ /\ s = "ok"
            /\ handler' = "subscribe"
            /\ count' = count + 1
            /\ UNCHANGED status
         \/ /\ s # "ok"
            /\ handler' = "done"
            /\ status' = s
            /\ UNCHANGED count
    /\ UNCHANGED <<request, disableAccessControl, cancelled, streamVars, socketVars, emitterVars>>

-----------------------------------------------------------------------------
(* FirehoseHandler.ServeHTTP and StreamHandler.ServeHTTP *)

SubscribeErr ==
    /\ handler = "subscribe"
    /\ status' = "unavailable"
    /\ handler' = "done"
    /\ count' = count - 1
    /\ cancelled' = TRUE
    /\ UNCHANGED <<request, disableAccessControl, streamVars, socketVars, emitterVars>>

(* ServeWS starts its goroutine before the handler upgrades the connection. *)
SubscribeOk ==
    /\ handler = "subscribe"
    /\ handler' = "upgrade"
    /\ receiver' = "recv"
    /\ UNCHANGED <<accessVars, count, cancelled, received, inHand, written, slow, socketVars,
                   emitterVars>>

UpgradeErr ==
    /\ handler = "upgrade"
    /\ status' = "bad request"
    /\ handler' = "close"
    /\ UNCHANGED <<request, disableAccessControl, count, cancelled, streamVars, socketVars,
                   emitterVars>>

UpgradeOk ==
    /\ handler = "upgrade"
    /\ status' = "ok"
    /\ handler' = "select"
    /\ ws' = "open"
    /\ reader' = "read"
    /\ keepAlive' = "ping"
    /\ UNCHANGED <<request, disableAccessControl, count, cancelled, streamVars, client, pong,
                   emitterVars>>

(* Mutant: the subscription's context is left open. *)
Leave_NoCancel ==
    /\ handler = "close"
    /\ handler' = "done"
    /\ ws' = IF ws = "open" THEN "closed" ELSE ws
    /\ count' = count - 1
    /\ UNCHANGED <<accessVars, cancelled, streamVars, client, reader, keepAlive, pong, emitterVars>>

(* The close message is written, and the deferred calls are run: ws.Close,     *)
(* cancel and the counter.                                                     *)
Leave ==
    /\ handler = "close"
    /\ handler' = "done"
    /\ ws' = IF ws = "open" THEN "closed" ELSE ws
    /\ cancelled' = TRUE
    /\ count' = count - 1
    /\ UNCHANGED <<accessVars, streamVars, client, reader, keepAlive, pong, emitterVars>>

-----------------------------------------------------------------------------
(* The goroutine of ServeWS *)

(* recv returns a message, perhaps one that is left in the connector's channel *)
(* when its context is done; ServeWS sets the timer and offers it.             *)
Recv ==
    /\ receiver = "recv"
    /\ received < MaxMessages
    /\ received' = received + 1
    /\ receiver' = "offer"
    /\ UNCHANGED <<accessVars, handler, count, cancelled, inHand, written, slow, socketVars,
                   emitterVars>>

(* recv fails: its context is done, or the connector gave it an error. *)
RecvErr ==
    /\ receiver = "recv"
    /\ receiver' = "exited"
    /\ UNCHANGED <<accessVars, handler, count, cancelled, received, inHand, written, slow,
                   socketVars, emitterVars>>

(* Mutant: the message of a slow consumer is dropped, the consumer kept. *)
SlowConsumer_Skip ==
    /\ receiver = "offer"
    /\ slow' = slow + 1
    /\ receiver' = "recv"
    /\ UNCHANGED <<accessVars, handler, count, cancelled, received, inHand, written, socketVars,
                   emitterVars>>

(* The timer fires before the handler takes the message: the consumer is      *)
(* reported as slow, and data is closed.                                       *)
SlowConsumer ==
    /\ receiver = "offer"
    /\ slow' = slow + 1
    /\ receiver' = "exited"
    /\ UNCHANGED <<accessVars, handler, count, cancelled, received, inHand, written, socketVars,
                   emitterVars>>

-----------------------------------------------------------------------------
(* runWebsocketUntilClosed *)

(* The handler takes the message the goroutine offers. *)
Take ==
    /\ handler = "select"
    /\ receiver = "offer"
    /\ handler' = "write"
    /\ receiver' = "recv"
    /\ inHand' = received
    /\ UNCHANGED <<accessVars, count, cancelled, received, written, slow, socketVars, emitterVars>>

(* Mutant: the metric is incremented whether or not the message was written. *)
WriteErr_Counted ==
    /\ handler = "write"
    /\ handler' = "close"
    /\ Increment(1)
    /\ UNCHANGED <<accessVars, count, cancelled, streamVars, socketVars>>

(* WriteMessage succeeds, also for a while after the client has left. *)
WriteOk ==
    /\ handler = "write"
    /\ handler' = "select"
    /\ written' = written + 1
    /\ Increment(1)
    /\ UNCHANGED <<accessVars, count, cancelled, receiver, received, inHand, slow, socketVars>>

(* WriteMessage fails, at its deadline if the client does not read. *)
WriteErr ==
    /\ handler = "write"
    /\ handler' = "close"
    /\ UNCHANGED <<accessVars, count, cancelled, streamVars, socketVars, emitterVars>>

(* Mutant: a message read from the closed channel is taken for a message. *)
DataClosed_NotOk == FALSE

DataClosed == receiver = "exited"
ClientWentAway == reader = "exited"
KeepAliveExpired == keepAlive = "exited"

(* The other cases of the select. *)
Return ==
    /\ handler = "select"
    /\ DataClosed \/ ClientWentAway \/ KeepAliveExpired
    /\ handler' = "close"
    /\ UNCHANGED <<accessVars, count, cancelled, streamVars, socketVars, emitterVars>>

(* The goroutine that reads from the client. *)
ReadErr ==
    /\ reader = "read"
    /\ client = "gone" \/ ws = "closed"
    /\ reader' = "exited"
    /\ UNCHANGED <<accessVars, handler, count, cancelled, streamVars, client, ws, keepAlive, pong,
                   emitterVars>>

-----------------------------------------------------------------------------
(* KeepAlive *)

Ping ==
    /\ keepAlive = "ping"
    /\ \/ /\ ws = "open"
          /\ keepAlive' = "wait"
       \/ /\ client = "gone" \/ ws = "closed"
          /\ keepAlive' = "exited"
    /\ UNCHANGED <<accessVars, handler, count, cancelled, streamVars, client, ws, reader, pong,
                   emitterVars>>

(* pongHandler, called by ReadMessage: a pong more than the channel holds is   *)
(* dropped.                                                                    *)
pongHandler ==
    /\ client = "there"
    /\ reader = "read"
    /\ keepAlive \in {"ping", "wait"}
    /\ pong' = TRUE
    /\ UNCHANGED <<accessVars, handler, count, cancelled, streamVars, client, ws, reader, keepAlive,
                   emitterVars>>

(* The select of Run: a pong, after which it sleeps, or the timeout. *)
AwaitPong ==
    /\ keepAlive = "wait"
    /\ \/ /\ pong
          /\ pong' = FALSE
          /\ keepAlive' = "ping"
       \/ /\ keepAlive' = "exited"
          /\ UNCHANGED pong
    /\ UNCHANGED <<accessVars, handler, count, cancelled, streamVars, client, ws, reader,
                   emitterVars>>

-----------------------------------------------------------------------------
(* The client, and the proxy's metrics *)

ClientLeaves ==
    /\ client = "there"
    /\ client' = "gone"
    /\ UNCHANGED <<accessVars, handler, count, cancelled, streamVars, ws, reader, keepAlive, pong,
                   emitterVars>>

(* DopplerProxy.emitMetrics *)
emitMetrics ==
    /\ SetGauge(count)
    /\ UNCHANGED <<accessVars, handler, count, cancelled, streamVars, socketVars>>

EmitterStep ==
    /\ Pulse
    /\ UNCHANGED <<accessVars, handler, count, cancelled, streamVars, socketVars>>

Handler ==
    \/ Authorize \/ SubscribeOk \/ SubscribeErr \/ UpgradeOk \/ UpgradeErr
    \/ WriteOk \/ WriteErr \/ Return \/ Leave

KeepAliveRun == Ping \/ AwaitPong

Next ==
    \/ Handler \/ Take
    \/ Recv \/ RecvErr \/ SlowConsumer
    \/ ReadErr \/ KeepAliveRun \/ pongHandler
    \/ ClientLeaves \/ emitMetrics \/ EmitterStep

Spec == Init /\ [][Next]_vars

(* Goroutines run; WriteMessage and the pings have deadlines; a recv whose     *)
(* context is done returns; the timers fire; the write of the close message    *)
(* returns.  Nobody is made to send or to leave.                               *)
LiveSpec ==
    /\ Spec
    /\ WF_vars(Handler)
    /\ SF_vars(Return)
    /\ WF_vars(cancelled /\ RecvErr) /\ WF_vars(SlowConsumer)
    /\ WF_vars(ReadErr) /\ WF_vars(KeepAliveRun)
    /\ WF_vars(emitMetrics)
    /\ EmitterFairness

-----------------------------------------------------------------------------
(* Properties *)

TypeOK ==
    /\ EmitterTypeOK
    /\ request \in Requests
    /\ handler \in {"authorize", "subscribe", "upgrade", "select", "write", "close", "done"}
    /\ count \in {0, 1}
    /\ receiver \in {"none", "recv", "offer", "exited"}
    /\ written \in 0 .. MaxMessages /\ received \in 0 .. MaxMessages
    /\ reader \in {"none", "read", "exited"}
    /\ keepAlive \in {"none", "ping", "wait", "exited"}

(* A stream is opened only for a client that may have it, whichever of the     *)
(* authorities failed, and wherever the token came from.                       *)
OpenedOnlyIfAllowed ==
    receiver # "none" /\ ~disableAccessControl =>
        LET token == getAuthToken(request) IN
        IF request.endpoint = "firehose"
        THEN token \in Admins
        ELSE request.app \in GUIDs /\ <<token, request.app>> \in Access

(* What a client gets is what the connector handed out, from the first message *)
(* on and without a gap: a slow consumer is cut off, it never misses a message *)
(* and goes on.                                                                *)
WithoutGaps == handler = "write" => inHand = written + 1

(* A stream ends once its client is gone, once its keep-alive has given up on  *)
(* a pong or a ping, once its consumer was found slow, and once the            *)
(* connector's stream failed.                                                  *)
StreamEnds ==
    receiver # "none" /\ (client = "gone" \/ keepAlive = "exited" \/ receiver = "exited")
        ~> handler = "done"

(* No goroutine of a stream outlives it for ever: neither the one that may be  *)
(* offering a message nobody takes, nor the two of the websocket.              *)
GoroutinesExit ==
    handler = "done" ~> /\ receiver \in {"none", "exited"}
                        /\ reader \in {"none", "exited"}
                        /\ keepAlive \in {"none", "exited"}

(* After the stream has ended, the metrics catch up with it in spite of failed *)
(* sends: the agent has been told of every message written, and that no stream *)
(* is open.                                                                    *)
MetricsSettle == handler = "done" ~> reported = written /\ gaugeSent = 0
=============================================================================
