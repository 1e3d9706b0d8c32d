--------------------------- MODULE GatewayProofs ---------------------------
(***************************************************************************)
(* Proofs about Gateway: who gets a stream, and of what, for any requests, *)
(* tokens, grants and names; and that none of its goroutines gets stuck.   *)
(***************************************************************************)
EXTENDS Gateway, TLAPS

Opening == {"build", "open"}
Streaming == {"select", "write batch", "write heartbeat", "write closing", "rearm"}

MayRead(s) == s \in GUIDs /\ <<request.token, s>> \in LogAccess \cup ServiceAccess

(* The sources that are no longer to be checked may be read; a request that    *)
(* got past the middleware is an admin's, or has no source left to check.      *)
AccessInv ==
    /\ handler = "check source" =>
         /\ unchecked # {} /\ unchecked \subseteq request.query.sources
         /\ \A s \in request.query.sources \ unchecked : MayRead(s)
    /\ handler \in Opening \cup Streaming \/ receiver # "none" =>
         \/ request.token \in Admins
         \/ /\ request.query.sources # {}
            /\ \A s \in request.query.sources : MayRead(s)
    /\ handler \in {"read token", "check source"} => receiver = "none"
    /\ handler = "read token" => unchecked = request.query.sources

(* A stream has the selectors of its query. *)
SelectorInv ==
    /\ request \in Requests
    /\ handler \in {"open"} \cup Streaming \/ receiver # "none" =>
         selectors = BuildSelector(request.query)

-----------------------------------------------------------------------------
(* The steps after the middleware and ReadHandler's beginning, and the steps   *)
(* of the goroutine, leave the request and its selectors alone and open no     *)
(* stream.                                                                     *)
LateStep ==
    \/ Select \/ Write \/ Rearm \/ Goroutine \/ TimerFires \/ Client \/ RequestDone \/ Stop
    \/ UNCHANGED vars

(* A step that comes late neither changes what was checked nor opens a *)
(* stream.                                                             *)
LEMMA LateSteps ==
    ASSUME LateStep
    PROVE  /\ UNCHANGED accessVars
           /\ \/ UNCHANGED handler
              \/ handler \in Streaming /\ handler' \in Streaming \cup {"done"}
           /\ receiver' # "none" => receiver # "none"
  <1>1. CASE Select
    BY <1>1 DEF Select, SelectBatch, SelectDone, SelectErr, SelectStreamTimeout, SelectHeartbeat, Finish,
                Streaming
  <1>2. CASE Write
    BY <1>2 DEF Write, MarshalErr, WriteBatch, WriteHeartbeat, WriteClosing, Finish, Streaming
  <1>3. CASE Rearm
    BY <1>3 DEF Rearm, Streaming
  <1>4. CASE Goroutine
    BY <1>4 DEF Goroutine, Recv, RecvErr, OfferCancelled
  <1>5. CASE TimerFires \/ Client \/ RequestDone \/ Stop
    BY <1>5 DEF TimerFires, Client, RequestDone, Stop, ServerClose, LogClientClose
  <1>6. CASE UNCHANGED vars
    BY <1>6 DEF vars
  <1>. QED
    BY <1>1, <1>2, <1>3, <1>4, <1>5, <1>6 DEF LateStep

(* Every step keeps what was checked allowed. *)
LEMMA AccessStep == AccessInv /\ [Next]_vars => AccessInv'
  <1>. SUFFICES ASSUME AccessInv, [Next]_vars
                PROVE  AccessInv'
    OBVIOUS
  <1>1. CASE ReadToken
    BY <1>1 DEF ReadToken, Read, Finish, AccessInv, MayRead, Opening, Streaming, accessVars
  <1>2. CASE CheckSource
    <2>1. PICK s \in unchecked, ok \in BOOLEAN :
            /\ ok \in IsAuthorized(s, request.token)
            /\ \/ /\ ok /\ s \in GUIDs
                  /\ unchecked' = unchecked \ {s}
                  /\ handler' = IF unchecked' = {} THEN "build" ELSE handler
               \/ Finish /\ UNCHANGED unchecked
      BY <1>2 DEF CheckSource
    <2>2. handler = "check source" /\ UNCHANGED <<request, receiver>>
      BY <1>2 DEF CheckSource
    <2>3. CASE Finish /\ UNCHANGED unchecked
      BY <2>2, <2>3 DEF Finish, AccessInv, MayRead, Opening, Streaming
    <2>4. CASE ok /\ s \in GUIDs /\ unchecked' = unchecked \ {s}
               /\ handler' = IF unchecked' = {} THEN "build" ELSE handler
      <3>1. MayRead(s)
        BY <2>1, <2>4 DEF IsAuthorized, MayRead
      <3>2. \A t \in request.query.sources \ unchecked' : MayRead(t)
        BY <2>2, <2>4, <3>1 DEF AccessInv
      <3>3. \A t : MayRead(t)' <=> MayRead(t)
        BY <2>2 DEF MayRead
      <3>. QED
        BY <2>2, <2>4, <3>2, <3>3 DEF AccessInv, Opening, Streaming
    <2>. QED
      BY <2>1, <2>3, <2>4
  <1>3. CASE Build
    BY <1>3 DEF Build, Finish, AccessInv, MayRead, Opening, Streaming
  <1>4. CASE OpenStream
    BY <1>4 DEF OpenStream, AccessInv, MayRead, Opening, Streaming, accessVars
  <1>5. CASE OpenStreamErr
    BY <1>5 DEF OpenStreamErr, Finish, AccessInv, MayRead, Opening, Streaming, accessVars
  <1>6. CASE LateStep
    BY <1>6, LateSteps DEF AccessInv, MayRead, Opening, Streaming, accessVars
  <1>. QED
    BY <1>1, <1>2, <1>3, <1>4, <1>5, <1>6 DEF Next, Access, LateStep

(* A stream is opened only for an admin or for sources each of which the      *)
(* client may read, for any number of sources and whichever calls fail.       *)
THEOREM StreamAuthorizedHolds == Spec => []StreamAuthorized
  <1>1. Init => AccessInv
    BY DEF Init, AccessInv, Opening, Streaming
  <1>2. AccessInv => StreamAuthorized
    BY DEF AccessInv, StreamAuthorized, MayRead
  <1>. QED
    BY <1>1, <1>2, AccessStep, PTL DEF Spec

-----------------------------------------------------------------------------
(* The selectors *)

(* The names a query asks for of envelopes of e's type, and whether it asks    *)
(* for e but for its source.                                                   *)
Filter(q, e) ==
    IF e.type = "counter" THEN {{n} : n \in q.counterNames}
    ELSE IF e.type = "gauge" THEN q.gaugeNames ELSE {}

TypeAsked(q, e) == IF Filter(q, e) = {} THEN e.type \in q.keys ELSE e.names \in Filter(q, e)

(* What BuildSelector makes of a query for one source. *)
Part(q, sid) ==
    {Selector(sid, t, {}) : t \in q.keys \cap {"log", "timer", "event"}}
        \cup (IF "counter" \in q.keys \/ q.counterNames # {}
              THEN addCounterSelector(sid, q.counterNames) ELSE {})
        \cup (IF "gauge" \in q.keys \/ q.gaugeNames # {}
              THEN addGaugeSelector(sid, q.gaugeNames) ELSE {})

(* What one selector selects. *)
LEMMA SelectorSelects ==
    ASSUME NEW sid, NEW t, NEW names, NEW e
    PROVE  /\ Selector(sid, t, names).type = t
           /\ Selects(Selector(sid, t, names), e)
                <=> sid \in {Empty, e.source} /\ t = e.type /\ names \in {{}, e.names}
  BY DEF Selector, Selects

(* The selectors for one source select of the envelopes of that source those   *)
(* that the query asks for.                                                    *)
LEMMA PartExact ==
    ASSUME NEW q \in Queries, NEW e \in Envelopes, NEW sid
    PROVE  (\E sel \in Part(q, sid) : Selects(sel, e))
               <=> sid \in {Empty, e.source} /\ TypeAsked(q, e)
  <1>. DEFINE plain == {Selector(sid, t, {}) : t \in q.keys \cap {"log", "timer", "event"}}
  <1>. DEFINE counters == IF "counter" \in q.keys \/ q.counterNames # {}
                          THEN addCounterSelector(sid, q.counterNames) ELSE {}
  <1>. DEFINE gauges == IF "gauge" \in q.keys \/ q.gaugeNames # {}
                        THEN addGaugeSelector(sid, q.gaugeNames) ELSE {}
  <1>. DEFINE here == sid \in {Empty, e.source}
  <1>1. (\E sel \in Part(q, sid) : Selects(sel, e))
            <=> \/ \E sel \in plain : Selects(sel, e)
                \/ \E sel \in counters : Selects(sel, e)
                \/ \E sel \in gauges : Selects(sel, e)
    BY DEF Part
  <1>2. (\E sel \in plain : Selects(sel, e))
            <=> here /\ e.type \in q.keys \cap {"log", "timer", "event"}
    <2>1. (\E sel \in plain : Selects(sel, e))
              <=> \E t \in q.keys \cap {"log", "timer", "event"} : Selects(Selector(sid, t, {}), e)
      BY Zenon
    <2>. QED
      BY <2>1, SelectorSelects
  <1>3. (\E sel \in counters : Selects(sel, e))
            <=> /\ here /\ e.type = "counter"
                /\ IF q.counterNames = {} THEN "counter" \in q.keys
                   ELSE \E n \in q.counterNames : {n} = e.names
    <2>1. CASE q.counterNames = {}
      BY <2>1, SelectorSelects DEF addCounterSelector
    <2>2. CASE q.counterNames # {}
      <3>1. counters = {Selector(sid, "counter", {n}) : n \in q.counterNames}
        BY <2>2 DEF addCounterSelector
      <3>2. (\E sel \in counters : Selects(sel, e))
                <=> \E n \in q.counterNames : Selects(Selector(sid, "counter", {n}), e)
        BY <3>1, Zenon
      <3>3. ASSUME NEW n
            PROVE  Selects(Selector(sid, "counter", {n}), e)
                       <=> here /\ e.type = "counter" /\ {n} = e.names
        <4>. DEFINE one == {n}
        <4>1. one # {}
          OBVIOUS
        <4>2. Selects(Selector(sid, "counter", one), e)
                  <=> here /\ "counter" = e.type /\ one \in {{}, e.names}
          BY SelectorSelects, Zenon
        <4>. QED
          BY <4>1, <4>2
      <3>. QED
        BY <2>2, <3>2, <3>3, Zenon
    <2>. QED
      BY <2>1, <2>2
  <1>4. (\E sel \in gauges : Selects(sel, e))
            <=> /\ here /\ e.type = "gauge"
                /\ IF q.gaugeNames = {} THEN "gauge" \in q.keys
                   ELSE \E names \in q.gaugeNames : names \in {{}, e.names}
    <2>1. CASE q.gaugeNames = {}
      BY <2>1, SelectorSelects DEF addGaugeSelector
    <2>2. CASE q.gaugeNames # {}
      <3>1. gauges = {Selector(sid, "gauge", names) : names \in q.gaugeNames}
        BY <2>2 DEF addGaugeSelector
      <3>2. (\E sel \in gauges : Selects(sel, e))
                <=> \E names \in q.gaugeNames : Selects(Selector(sid, "gauge", names), e)
        BY <3>1, Zenon
      <3>. QED
        BY <2>2, <3>2, SelectorSelects
    <2>. QED
      BY <2>1, <2>2
  <1>5. CASE e.type = "counter"
    <2>1. Filter(q, e) = {} <=> q.counterNames = {}
      BY <1>5 DEF Filter
    <2>2. e.names \in Filter(q, e) <=> \E n \in q.counterNames : {n} = e.names
      <3>1. Filter(q, e) = {{n} : n \in q.counterNames}
        BY <1>5 DEF Filter
      <3>. QED
        BY <3>1, Zenon
    <2>3. ~(\E sel \in plain : Selects(sel, e)) /\ ~(\E sel \in gauges : Selects(sel, e))
      BY <1>2, <1>4, <1>5
    <2>4. TypeAsked(q, e) <=> IF q.counterNames = {} THEN "counter" \in q.keys
                              ELSE \E n \in q.counterNames : {n} = e.names
      BY <1>5, <2>1, <2>2, Zenon DEF TypeAsked
    <2>. QED
      BY <1>1, <1>3, <1>5, <2>3, <2>4, Zenon
  <1>6. CASE e.type = "gauge"
    <2>1. \A names \in q.gaugeNames : names # {}
      <3>1. q.gaugeNames \subseteq {v \in SUBSET Names : v # {}}
        BY DEF Queries
      <3>. QED
        BY <3>1, Zenon
    <2>2. Filter(q, e) = q.gaugeNames
      BY <1>6 DEF Filter
    <2>. QED
      BY <1>1, <1>2, <1>3, <1>4, <1>6, <2>1, <2>2 DEF TypeAsked
  <1>7. CASE e.type \in {"log", "timer", "event"}
    <2>1. Filter(q, e) = {}
      BY <1>7 DEF Filter
    <2>. QED
      BY <1>1, <1>2, <1>3, <1>4, <1>7, <2>1 DEF TypeAsked
  <1>. QED
    BY <1>5, <1>6, <1>7 DEF Envelopes

(* What BuildSelector returns selects an envelope just if the query asks for *)
(* it.                                                                       *)
LEMMA BuildSelectorExact ==
    ASSUME NEW q \in Queries, NEW e \in Envelopes
    PROVE  (\E sel \in BuildSelector(q) : Selects(sel, e)) <=> Asks(q, e)
  <1>. DEFINE sids == IF q.sources = {} THEN {Empty} ELSE q.sources
  <1>1. BuildSelector(q) = UNION {Part(q, sid) : sid \in sids}
    BY DEF BuildSelector, Part
  <1>2. (\E sel \in BuildSelector(q) : Selects(sel, e))
            <=> \E sid \in sids : sid \in {Empty, e.source} /\ TypeAsked(q, e)
    BY <1>1, PartExact
  <1>3. q.sources \subseteq Sources /\ Empty \notin Sources
    BY GatewayAssumption DEF Queries
  <1>4. (\E sid \in sids : sid \in {Empty, e.source}) <=> q.sources = {} \/ e.source \in q.sources
    BY <1>3
  <1>. QED
    BY <1>2, <1>4 DEF Asks, TypeAsked, Filter

(* Every step keeps the selectors those of the query. *)
LEMMA SelectorStep == SelectorInv /\ AccessInv /\ [Next]_vars => SelectorInv'
  <1>. SUFFICES ASSUME SelectorInv, AccessInv, [Next]_vars
                PROVE  SelectorInv'
    OBVIOUS
  <1>1. CASE ReadToken
    BY <1>1 DEF ReadToken, Finish, SelectorInv, AccessInv, Streaming, accessVars
  <1>2. CASE CheckSource
    BY <1>2 DEF CheckSource, Finish, SelectorInv, AccessInv, Streaming
  <1>3. CASE Build
    BY <1>3 DEF Build, Finish, SelectorInv, Streaming
  <1>4. CASE OpenStream \/ OpenStreamErr
    BY <1>4 DEF OpenStream, OpenStreamErr, Finish, SelectorInv, Streaming, accessVars
  <1>5. CASE LateStep
    BY <1>5, LateSteps DEF SelectorInv, Streaming, accessVars
  <1>. QED
    BY <1>1, <1>2, <1>3, <1>4, <1>5 DEF Next, Access, LateStep

(* The selectors that reach the RLP select exactly what the query asks for,    *)
(* for every query, any sources and any names.                                 *)
THEOREM SelectsAsAskedHolds == Spec => []SelectsAsAsked
  <1>1. Init => SelectorInv /\ AccessInv
    BY DEF Init, SelectorInv, AccessInv, Opening, Streaming
  <1>2. SelectorInv => SelectsAsAsked
    <2>. SUFFICES ASSUME SelectorInv, receiver # "none", NEW e \in Envelopes
                  PROVE  (\E sel \in selectors : Selects(sel, e)) <=> Asks(request.query, e)
      BY DEF SelectsAsAsked
    <2>1. request.query \in Queries
      BY GatewayAssumption DEF SelectorInv
    <2>. QED
      BY <2>1, BuildSelectorExact DEF SelectorInv
  <1>. QED
    BY <1>1, <1>2, AccessStep, SelectorStep, PTL DEF Spec

-----------------------------------------------------------------------------
(* Neither of a stream's goroutines waits for itself: the value of the         *)
(* heartbeat timer that the handler stops was not received, so there is no     *)
(* wait for it; and the error of recv finds room in errs.                      *)
NeverStuck ==
    /\ handler = "rearm" => heartbeat # "received"
    /\ receiver = "recv" => ~errs

(* The timer is set whenever a batch may be taken. *)
TimerInv ==
    /\ handler \in {"select", "write batch", "rearm"} => heartbeat # "received"
    /\ handler \in {"read token", "check source", "build", "open"} => receiver = "none"

(* The goroutine reports one error, its last act. *)
ErrorInv == receiver = "exited" \/ ~errs

(* Every step keeps the timer set. *)
LEMMA TimerStep == TimerInv /\ [Next]_vars => TimerInv'
  <1>. SUFFICES ASSUME TimerInv, [Next]_vars PROVE TimerInv'
    OBVIOUS
  <1>. USE DEF TimerInv
  <1>1. CASE ReadToken \/ CheckSource \/ Build
    BY <1>1 DEF ReadToken, CheckSource, Build, Finish, timers
  <1>2. CASE OpenStream \/ OpenStreamErr
    BY <1>2 DEF OpenStream, OpenStreamErr, Finish, timers
  <1>3. CASE Select
    BY <1>3 DEF Select, SelectBatch, SelectDone, SelectErr, SelectStreamTimeout, SelectHeartbeat, Finish,
                timers
  <1>4. CASE Write \/ Rearm
    BY <1>4 DEF Write, MarshalErr, WriteBatch, WriteHeartbeat, WriteClosing, Rearm, Finish, timers
  <1>5. CASE Goroutine
    BY <1>5 DEF Goroutine, Recv, RecvErr, OfferCancelled, timers
  <1>6. CASE TimerFires
    BY <1>6 DEF TimerFires
  <1>7. CASE Client \/ RequestDone \/ Stop \/ UNCHANGED vars
    BY <1>7 DEF Client, RequestDone, Stop, ServerClose, LogClientClose, vars, timers
  <1>. QED
    BY <1>1, <1>2, <1>3, <1>4, <1>5, <1>6, <1>7 DEF Next, Access

(* Every step keeps errs empty until the goroutine exits. *)
LEMMA ErrorStep == TimerInv /\ ErrorInv /\ [Next]_vars => ErrorInv'
  <1>. SUFFICES ASSUME TimerInv, ErrorInv, [Next]_vars PROVE ErrorInv'
    OBVIOUS
  <1>1. CASE UNCHANGED <<receiver, errs>>
    BY <1>1, Zenon DEF ErrorInv
  <1>2. CASE OpenStream
    <2>1. receiver # "exited" /\ errs' = errs
      <3>1. receiver = "none"
        BY <1>2 DEF OpenStream, TimerInv
      <3>. QED
        BY <1>2, <3>1 DEF OpenStream
    <2>. QED
      BY <2>1, Zenon DEF ErrorInv
  <1>3. CASE SelectErr
    BY <1>3, Zenon DEF SelectErr, ErrorInv
  <1>4. CASE SelectBatch \/ Recv
    <2>1. receiver # "exited" /\ errs' = errs
      BY <1>4 DEF SelectBatch, Recv
    <2>. QED
      BY <2>1, Zenon DEF ErrorInv
  <1>5. CASE RecvErr \/ OfferCancelled
    BY <1>5, Zenon DEF RecvErr, OfferCancelled, ErrorInv
  <1>6. \/ OpenStream \/ SelectErr \/ SelectBatch \/ Recv \/ RecvErr \/ OfferCancelled
        \/ UNCHANGED <<receiver, errs>>
    BY Zenon DEF Next, Access, ReadToken, CheckSource, Build, OpenStreamErr, Select, SelectDone,
       SelectStreamTimeout, SelectHeartbeat, Write, MarshalErr, WriteBatch, WriteHeartbeat, WriteClosing,
       Rearm, Goroutine, TimerFires, Client, RequestDone, Stop, ServerClose, LogClientClose, vars
  <1>. QED
    BY <1>1, <1>2, <1>3, <1>4, <1>5, <1>6

(* In whichever order batches, timers, errors and the client's end come, the   *)
(* handler is never stuck in its timer nor the goroutine in its error.         *)
THEOREM NeverStuckHolds == Spec => []NeverStuck
  <1>1. Init => TimerInv
    BY DEF Init, TimerInv
  <1>2. Init => ErrorInv
    BY Zenon DEF Init, ErrorInv
  <1>3. TimerInv /\ ErrorInv => NeverStuck
    <2>1. receiver = "recv" => receiver # "exited"
      OBVIOUS
    <2>2. TimerInv => (handler = "rearm" => heartbeat # "received")
      BY DEF TimerInv
    <2>. QED
      BY <2>1, <2>2, Zenon DEF ErrorInv, NeverStuck
  <1>. QED
    BY <1>1, <1>2, <1>3, TimerStep, ErrorStep, PTL DEF Spec
=============================================================================
