------------------------------ MODULE Gateway ------------------------------
(***************************************************************************)
(* One request to /v2/read of the RLP gateway (src/src/rlp-gateway):       *)
(* access control (CFAuthMiddlewareProvider, UAAClient, CAPIClient), the   *)
(* selectors of the query (BuildSelector) and the stream of batches        *)
(* (ReadHandler), with the goroutine that receives from the RLP.           *)
(*                                                                         *)
(* A query has sets where the URL has lists, since neither order nor       *)
(* repetition of its values matters; a value of gauge.name is the set of   *)
(* the different names between its commas.  A name is never the empty      *)
(* string.  A key of a parsed URL has at least one value, so that the      *)
(* branches for a key without any are never taken.  The status and the     *)
(* text of an answer are left out.                                         *)
(***************************************************************************)
EXTENDS Naturals

CONSTANTS
    Tokens,         \* authorization tokens
    Admins,         \* those with the scope doppler.firehose or logs.admin
    Sources,        \* source IDs
    GUIDs,          \* those that have the form of a GUID
    LogAccess,      \* pairs of a token and a source, by the internal log_access endpoint
    ServiceAccess,  \* the same, by the external service_instances endpoint
    Empty,          \* the empty string
    Names,          \* names of metrics
    Requests,       \* the requests a client may make
    MaxBatches      \* bound: batches the RLP sends

EnvelopeTypes == {"log", "counter", "gauge", "timer", "event"}

Queries ==
    [sources : SUBSET Sources, keys : SUBSET EnvelopeTypes,
     counterNames : SUBSET Names, gaugeNames : SUBSET {v \in SUBSET Names : v # {}}]

ASSUME GatewayAssumption ==
    /\ Admins \subseteq Tokens /\ GUIDs \subseteq Sources
    /\ LogAccess \subseteq Tokens \X Sources /\ ServiceAccess \subseteq Tokens \X Sources
    /\ Empty \notin Tokens \cup Sources
    /\ Requests \subseteq [token : Tokens \cup {Empty}, get : BOOLEAN, query : Queries]
    /\ MaxBatches \in Nat

VARIABLES
    request,
    handler,        \* where the request's handler is
    unchecked,      \* the sources the middleware has not asked the CAPI about
    selectors,      \* of the request to the RLP
    ctxDone,        \* ctx is done
    receiver,       \* where ReadHandler's goroutine is
    received,       \* the number of batches recv has returned
    errs,           \* errs holds an error
    heartbeat,      \* heartbeatTimer: "set", "fired" or "received"
    streamTimer,    \* streamTimeoutTimer, in the same way
    client,         \* "reads", "stalled" or "gone"
    provider        \* the connection to the RLP: "open" or "closed"

accessVars == <<request, unchecked, selectors>>
timers == <<heartbeat, streamTimer>>
peers == <<client, provider>>
vars == <<accessVars, handler, ctxDone, receiver, received, errs, timers, peers>>

Init ==
    /\ request \in Requests
    /\ handler = "read token"
    /\ unchecked = request.query.sources
    /\ selectors = {}
    /\ ctxDone = FALSE
    /\ receiver = "none"
    /\ received = 0
    /\ errs = FALSE
    /\ heartbeat = "received"
    /\ streamTimer = "received"
    /\ client = "reads"
    /\ provider = "open"

(* A return of the handler ends its context. *)
Finish == handler' = "done" /\ ctxDone' = TRUE

-----------------------------------------------------------------------------
(* CFAuthMiddlewareProvider.Middleware *)

(* UAAClient.Read: an answer that cannot be read is an error; one that can is  *)
(* not an admin's unless its status is 200 and it has the scope.               *)
Read(token) == {"error", "not admin"} \cup (IF token \in Admins THEN {"admin"} ELSE {})

ReadToken ==
    /\ handler = "read token"
    /\ \/ /\ request.token = Empty
          /\ Finish
       \/ /\ request.token # Empty
          /\ \E c \in Read(request.token) :
               IF c = "admin" THEN handler' = "build" /\ UNCHANGED ctxDone
               ELSE IF c = "error" \/ unchecked = {} THEN Finish
               ELSE handler' = "check source" /\ UNCHANGED ctxDone
    /\ UNCHANGED <<accessVars, receiver, received, errs, timers, peers>>

(* CAPIClient.IsAuthorized: the second endpoint is asked when the first one    *)
(* answered, and refused; a request that fails refuses.                        *)
IsAuthorized(source, token) ==
    {FALSE, <<token, source>> \in LogAccess, <<token, source>> \in ServiceAccess}

(* Mutant: only the first source is checked. *)
CheckSource_First ==
    /\ handler = "check source"
    /\ \E s \in unchecked, ok \in BOOLEAN :
         /\ ok \in IsAuthorized(s, request.token)
         /\ IF ok /\ s \in GUIDs
            THEN handler' = "build" /\ unchecked' = {} /\ UNCHANGED ctxDone
            ELSE Finish /\ UNCHANGED unchecked
    /\ UNCHANGED <<request, selectors, receiver, received, errs, timers, peers>>

CheckSource ==
    /\ handler = "check source"
    /\ \E s \in unchecked, ok \in BOOLEAN :
         /\ ok \in IsAuthorized(s, request.token)
         /\ \/ /\ ok /\ s \in GUIDs
               /\ unchecked' = unchecked \ {s}
               /\ handler' = IF unchecked' = {} THEN "build" ELSE handler
               /\ UNCHANGED ctxDone
            \/ /\ ~(ok /\ s \in GUIDs)
               /\ Finish
               /\ UNCHANGED unchecked
    /\ UNCHANGED <<request, selectors, receiver, received, errs, timers, peers>>

-----------------------------------------------------------------------------
(* BuildSelector *)

Selector(source, type, names) == [source |-> source, type |-> type, names |-> names]

(* addCounterSelector: one selector for each name. *)
addCounterSelector(source, names) ==
    IF names = {} THEN {Selector(source, "counter", {})}
    ELSE {Selector(source, "counter", {n}) : n \in names}

(* addGaugeSelector: one selector, with all of its names, for each value. *)
addGaugeSelector(source, values) ==
    IF values = {} THEN {Selector(source, "gauge", {})}
    ELSE {Selector(source, "gauge", names) : names \in values}

containsEnvelopeType(q) == q.keys # {} \/ q.counterNames # {} \/ q.gaugeNames # {}

(* Mutant: a type's key and the names given for it are both served. *)
BuildSelector_Both(q) ==
    UNION {{Selector(sid, t, {}) : t \in q.keys}
              \cup (IF q.counterNames = {} THEN {} ELSE addCounterSelector(sid, q.counterNames))
              \cup (IF q.gaugeNames = {} THEN {} ELSE addGaugeSelector(sid, q.gaugeNames)) :
           sid \in IF q.sources = {} THEN {Empty} ELSE q.sources}

BuildSelector(q) ==
    UNION {{Selector(sid, t, {}) : t \in q.keys \cap {"log", "timer", "event"}}
              \cup (IF "counter" \in q.keys \/ q.counterNames # {}
                    THEN addCounterSelector(sid, q.counterNames) ELSE {})
              \cup (IF "gauge" \in q.keys \/ q.gaugeNames # {}
                    THEN addGaugeSelector(sid, q.gaugeNames) ELSE {}) :
           sid \in IF q.sources = {} THEN {Empty} ELSE q.sources}

-----------------------------------------------------------------------------
(* ReadHandler *)

(* The method and the query are checked, and the selectors built. *)
Build ==
    /\ handler = "build"
    /\ \/ /\ request.get /\ containsEnvelopeType(request.query)
          /\ selectors' = BuildSelector(request.query)
          /\ handler' = "open"
          /\ UNCHANGED ctxDone
       \/ /\ ~(request.get /\ containsEnvelopeType(request.query))
          /\ Finish
          /\ UNCHANGED selectors
    /\ UNCHANGED <<request, unchecked, receiver, received, errs, timers, peers>>

(* LogClient.Stream.  The goroutine is started and the timers are set. *)
OpenStream ==
    /\ handler = "open"
    /\ handler' = "select"
    /\ receiver' = "recv"
    /\ heartbeat' = "set"
    /\ streamTimer' = "set"
    /\ UNCHANGED <<accessVars, ctxDone, received, errs, peers>>

OpenStreamErr ==
    /\ handler = "open"
    /\ Finish
    /\ UNCHANGED <<accessVars, receiver, received, errs, timers, peers>>

(* The goroutine.  A nil batch changes nothing. *)
Recv ==
    /\ receiver = "recv"
    /\ provider = "open"
    /\ ~ctxDone
    /\ received < MaxBatches
    /\ received' = received + 1
    /\ receiver' = "offer"
    /\ UNCHANGED <<accessVars, handler, ctxDone, errs, timers, peers>>

(* Mutant: errs is not buffered: the goroutine waits for ever, unless the     *)
(* handler is there to take its error.                                        *)
RecvErr_Unbuffered ==
    /\ receiver = "recv"
    /\ receiver' = IF handler = "select" THEN "exited" ELSE "blocked"
    /\ errs' = (handler = "select")
    /\ UNCHANGED <<accessVars, handler, ctxDone, received, timers, peers>>

RecvErr ==
    /\ receiver = "recv"
    /\ errs' = TRUE
    /\ receiver' = "exited"
    /\ UNCHANGED <<accessVars, handler, ctxDone, received, timers, peers>>

OfferCancelled ==
    /\ receiver = "offer"
    /\ ctxDone
    /\ receiver' = "exited"
    /\ UNCHANGED <<accessVars, handler, ctxDone, received, errs, timers, peers>>

(* The cases of the handler's select. *)

SelectBatch ==
    /\ handler = "select"
    /\ receiver = "offer"
    /\ handler' = "write batch"
    /\ receiver' = "recv"
    /\ UNCHANGED <<accessVars, ctxDone, received, errs, timers, peers>>

SelectDone ==
    /\ handler = "select"
    /\ ctxDone
    /\ Finish
    /\ UNCHANGED <<accessVars, receiver, received, errs, timers, peers>>

SelectErr ==
    /\ handler = "select"
    /\ errs
    /\ errs' = FALSE
    /\ Finish
    /\ UNCHANGED <<accessVars, receiver, received, timers, peers>>

SelectStreamTimeout ==
    /\ handler = "select"
    /\ streamTimer = "fired"
    /\ streamTimer' = "received"
    /\ handler' = "write closing"
    /\ UNCHANGED <<accessVars, ctxDone, receiver, received, errs, heartbeat, peers>>

SelectHeartbeat ==
    /\ handler = "select"
    /\ heartbeat = "fired"
    /\ heartbeat' = "received"
    /\ handler' = "write heartbeat"
    /\ UNCHANGED <<accessVars, ctxDone, receiver, received, errs, streamTimer, peers>>

(* What follows: the marshalling, the write, which waits as long as the client *)
(* stalls and ignores an error, and the timer.                                 *)

MarshalErr ==
    /\ handler = "write batch"
    /\ Finish
    /\ UNCHANGED <<accessVars, receiver, received, errs, timers, peers>>

WriteBatch ==
    /\ handler = "write batch"
    /\ handler' = "rearm"
    /\ UNCHANGED <<accessVars, ctxDone, receiver, received, errs, timers, peers>>

(* Stop returns false only if the timer's value has been received; the         *)
(* following receive would then wait for ever.  Reset discards a value that    *)
(* nobody received.                                                            *)
Rearm ==
    /\ handler = "rearm"
    /\ heartbeat # "received"
    /\ heartbeat' = "set"
    /\ handler' = "select"
    /\ UNCHANGED <<accessVars, ctxDone, receiver, received, errs, streamTimer, peers>>

(* Mutant: the timer is not set again after a heartbeat. *)
WriteHeartbeat_NoReset ==
    /\ handler = "write heartbeat"
    /\ handler' = "select"
    /\ UNCHANGED <<accessVars, ctxDone, receiver, received, errs, timers, peers>>

WriteHeartbeat ==
    /\ handler = "write heartbeat"
    /\ heartbeat' = "set"
    /\ handler' = "select"
    /\ UNCHANGED <<accessVars, ctxDone, receiver, received, errs, streamTimer, peers>>

WriteClosing ==
    /\ handler = "write closing"
    /\ Finish
    /\ UNCHANGED <<accessVars, receiver, received, errs, timers, peers>>

-----------------------------------------------------------------------------
(* Timers, the client and the gateway's Stop *)

TimerFires ==
    /\ \/ heartbeat = "set" /\ heartbeat' = "fired" /\ UNCHANGED streamTimer
       \/ streamTimer = "set" /\ streamTimer' = "fired" /\ UNCHANGED heartbeat
    /\ UNCHANGED <<accessVars, handler, ctxDone, receiver, received, errs, peers>>

Client ==
    /\ \/ client = "reads" /\ client' \in {"stalled", "gone"}
       \/ client = "stalled" /\ client' \in {"reads", "gone"}
    /\ UNCHANGED <<accessVars, handler, ctxDone, receiver, received, errs, timers, provider>>

(* The server sees that the connection is gone, and ends the request's context. *)
RequestDone ==
    /\ client = "gone"
    /\ ~ctxDone
    /\ ctxDone' = TRUE
    /\ UNCHANGED <<accessVars, handler, receiver, received, errs, timers, peers>>

(* Gateway.Stop: server.Close closes the client's connection, and              *)
(* LogClient.Close then ends the streams from the RLP.                         *)
ServerClose ==
    /\ client # "gone"
    /\ client' = "gone"
    /\ UNCHANGED <<accessVars, handler, ctxDone, receiver, received, errs, timers, provider>>

LogClientClose ==
    /\ client = "gone"
    /\ provider = "open"
    /\ provider' = "closed"
    /\ UNCHANGED <<accessVars, handler, ctxDone, receiver, received, errs, timers, client>>

Access == ReadToken \/ CheckSource \/ Build \/ OpenStream \/ OpenStreamErr
Select == SelectBatch \/ SelectDone \/ SelectErr \/ SelectStreamTimeout \/ SelectHeartbeat
Write == MarshalErr \/ WriteBatch \/ WriteHeartbeat \/ WriteClosing
Goroutine == Recv \/ RecvErr \/ OfferCancelled
Stop == ServerClose \/ LogClientClose

Next ==
    \/ Access \/ Select \/ Write \/ Rearm \/ Goroutine
    \/ TimerFires \/ Client \/ RequestDone \/ Stop

Spec == Init /\ [][Next]_vars

(* Goroutines run, a select that finds a case ready again and again takes it,  *)
(* a write returns unless its client stalls, and recv returns once its context *)
(* is done or its connection closed.  Nothing makes the timers fire, the RLP   *)
(* send or the client leave.                                                   *)
LiveSpec ==
    /\ Spec
    /\ WF_vars(Access) /\ WF_vars(Rearm)
    /\ SF_vars(SelectDone) /\ SF_vars(SelectErr) /\ SF_vars(SelectStreamTimeout)
    /\ SF_vars(client # "stalled" /\ Write)
    /\ WF_vars((ctxDone \/ provider = "closed") /\ RecvErr) /\ WF_vars(OfferCancelled)
    /\ WF_vars(RequestDone)

-----------------------------------------------------------------------------
(* Properties *)

TypeOK ==
    /\ request \in Requests
    /\ handler \in {"read token", "check source", "build", "open", "select", "write batch",
                    "write heartbeat", "write closing", "rearm", "done"}
    /\ unchecked \subseteq Sources
    /\ receiver \in {"none", "recv", "offer", "exited"}
    /\ received \in 0 .. MaxBatches
    /\ {heartbeat, streamTimer} \subseteq {"set", "fired", "received"}

(* A stream from the RLP is opened only for an admin, or for sources each of   *)
(* which the client may read, whichever of the calls to UAA and CAPI failed.   *)
(* In particular nobody but an admin gets a stream of all sources.             *)
StreamAuthorized ==
    receiver # "none" =>
        \/ request.token \in Admins
        \/ /\ request.query.sources # {}
           /\ \A s \in request.query.sources :
                s \in GUIDs /\ <<request.token, s>> \in LogAccess \cup ServiceAccess

Envelopes ==
    [source : Sources, type : {"log", "timer", "event"}, names : {{}}]
        \cup [source : Sources, type : {"counter"}, names : {{n} : n \in Names}]
        \cup [source : Sources, type : {"gauge"}, names : SUBSET Names \ {{}}]

(* What a selector selects (see PubSubV2). *)
Selects(sel, e) ==
    /\ sel.source \in {Empty, e.source}
    /\ sel.type = e.type
    /\ sel.names \in {{}, e.names}

(* What a query asks for (docs/rlp_gateway.md): names filter the envelopes of  *)
(* their type; a gauge must consist of the names of one value of gauge.name.   *)
Asks(q, e) ==
    LET filter == IF e.type = "counter" THEN {{n} : n \in q.counterNames}
                  ELSE IF e.type = "gauge" THEN q.gaugeNames ELSE {}
    IN /\ q.sources = {} \/ e.source \in q.sources
       /\ IF filter = {} THEN e.type \in q.keys ELSE e.names \in filter

(* The selectors that reach the RLP select what the query asks for, no more    *)
(* and no less.                                                                *)
SelectsAsAsked ==
    receiver # "none" =>
        \A e \in Envelopes : (\E sel \in selectors : Selects(sel, e)) <=> Asks(request.query, e)

(* A stream ends after its timeout, an error of the RLP, the end of the        *)
(* client's connection and the gateway's Stop, unless the client holds it up   *)
(* by not reading: the handler is never stuck in its timers.                   *)
StreamEnds ==
    receiver # "none" /\ (streamTimer = "fired" \/ errs \/ client = "gone" \/ provider = "closed")
        ~> handler = "done" \/ client = "stalled"

(* The goroutine does not outlive the request for ever. *)
ReceiverExits == handler = "done" ~> receiver \in {"none", "exited"}
=============================================================================
