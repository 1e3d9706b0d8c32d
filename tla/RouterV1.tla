------------------------------ MODULE RouterV1 ------------------------------
(***************************************************************************)
(* The router's v1 pub-sub (src/src/router/internal/server/v1/router.go):  *)
(* an index from filters and shard IDs to the buffers ("setters") of the   *)
(* registered streams; and the MessageRouter (internal/sinks) that finds   *)
(* an envelope's app ID and sends it.  Handlers register and clean up      *)
(* under the lock; the one MessageRouter goroutine sends under the read    *)
(* lock; so each is one action.  An envelope is its event type and its app *)
(* ID, the marshalled bytes are abstracted away; an application's UUID is  *)
(* identified with its text.  A list of setters is the set of them: every  *)
(* stream appends its own setter once, and the order only decides which    *)
(* one a random index means.                                               *)
(***************************************************************************)
EXTENDS Integers, FiniteSets

CONSTANTS
    Setters,    \* the streams' buffers, one per call of (Batch)Subscribe
    AppIDs,     \* non-empty app IDs
    ShardIDs,   \* non-empty shard IDs
    system,     \* systemAppId
    Empty,      \* the empty string, as an app ID and as a shard ID
    Nil         \* a nil filter, UUID or envelope, and the request of a setter without one

Types == {"log", "metric"}
Filters == [appID : AppIDs \cup {system, Empty}, envelopeType : Types \cup {"no"}]
RequestFilters == Filters \cup {Nil}
Requests == [filter : RequestFilters, shard : ShardIDs \cup {Empty}]

(* A log or a container metric has an app ID, perhaps an empty one; an HTTP    *)
(* event may have an application's UUID; ValueMetric stands for the other      *)
(* events, which have neither.                                                 *)
Envelopes ==
    [event : {"LogMessage", "ContainerMetric"}, app : AppIDs \cup {Empty}]
        \cup [event : {"HttpStartStop"}, app : AppIDs \cup {Nil}]
        \cup [event : {"ValueMetric"}, app : {Nil}]

ASSUME RouterAssumption ==
    /\ Empty \notin AppIDs \cup ShardIDs \cup {system}
    /\ Nil \notin AppIDs \cup {system, Empty} \cup Filters \cup Requests \cup Envelopes

VARIABLES
    subscriptions,  \* r.subscriptions: a map of filters to maps of shard IDs to setters
    request,        \* the request each setter is registered with, or Nil
    last            \* history: if the last step was a SendTo, its envelope and how
                    \* often it Set each setter

vars == <<subscriptions, request, last>>

EmptyMap == [x \in {} |-> x]
NoSend == [envelope |-> Nil, hits |-> [s \in Setters |-> 0]]

Init ==
    /\ subscriptions = EmptyMap
    /\ request = [s \in Setters |-> Nil]
    /\ last = NoSend

(* m[k] of a Go map: the zero value if there is no entry. *)
Get(m, k, zero) == IF k \in DOMAIN m THEN m[k] ELSE zero
Put(m, k, v) == [x \in DOMAIN m \cup {k} |-> IF x = k THEN v ELSE m[x]]
Delete(m, k) == [x \in DOMAIN m \ {k} |-> m[x]]

-----------------------------------------------------------------------------
convertFilter(req) ==
    IF req.filter = Nil THEN [appID |-> Empty, envelopeType |-> "no"] ELSE req.filter

(* registerSetter *)
Register(s, req) ==
    LET f == convertFilter(req)
        m == Get(subscriptions, f, EmptyMap)
    IN
    /\ request[s] = Nil
    /\ request' = [request EXCEPT ![s] = req]
    /\ subscriptions' =
           Put(subscriptions, f, Put(m, req.shard, Get(m, req.shard, {}) \cup {s}))
    /\ last' = NoSend

(* Mutant: the last setter leaves its empty list behind. *)
Cleanup_KeepEmpty(s) ==
    LET req == request[s]
        f == convertFilter(req)
        m == Get(subscriptions, f, EmptyMap)
        setters == Get(m, req.shard, {}) \ {s}
    IN
    /\ req # Nil
    /\ request' = [request EXCEPT ![s] = Nil]
    /\ subscriptions' = Put(subscriptions, f, Put(m, req.shard, setters))
    /\ last' = NoSend

(* Mutant: the last setter of a shard removes the whole filter. *)
Cleanup_DropFilter(s) ==
    LET req == request[s]
        f == convertFilter(req)
        m == Get(subscriptions, f, EmptyMap)
        setters == Get(m, req.shard, {}) \ {s}
    IN
    /\ req # Nil
    /\ request' = [request EXCEPT ![s] = Nil]
    /\ subscriptions' = IF setters # {}
                        THEN Put(subscriptions, f, Put(m, req.shard, setters))
                        ELSE Delete(subscriptions, f)
    /\ last' = NoSend

(* The function buildCleanup returns, called when the handler returns. *)
Cleanup(s) ==
    LET req == request[s]
        f == convertFilter(req)
        m == Get(subscriptions, f, EmptyMap)
        setters == Get(m, req.shard, {}) \ {s}
        rest == Delete(m, req.shard)
    IN
    /\ req # Nil
    /\ request' = [request EXCEPT ![s] = Nil]
    /\ \/ /\ setters # {}
          /\ subscriptions' = Put(subscriptions, f, Put(m, req.shard, setters))
       \/ /\ setters = {}
          /\ rest # EmptyMap
          /\ subscriptions' = Put(subscriptions, f, rest)
       \/ /\ setters = {}
          /\ rest = EmptyMap
          /\ subscriptions' = Delete(subscriptions, f)
    /\ last' = NoSend

getAppId(e) ==
    CASE e.event \in {"LogMessage", "ContainerMetric"} -> e.app
      [] e.event = "HttpStartStop" -> IF e.app = Nil THEN system ELSE e.app
      [] OTHER -> system

filterTypeFromEnvelope(e) == IF e.event = "LogMessage" THEN "log" ELSE "metric"

(* The filters an envelope is looked up under. *)
createTypedFilters(appID, e) ==
    [appID : {Empty}, envelopeType : {filterTypeFromEnvelope(e), "no"}]
        \cup (IF appID = Empty
              THEN {}
              ELSE [appID : {appID}, envelopeType : {filterTypeFromEnvelope(e), "no"}])

(* The lists of setters an envelope meets, by filter and shard ID. *)
Groups(appID, e) ==
    {g \in createTypedFilters(appID, e) \X (ShardIDs \cup {Empty}) :
        g[2] \in DOMAIN Get(subscriptions, g[1], EmptyMap)}
Members(g) == subscriptions[g[1]][g[2]]

(* writeToShard: all setters of the empty shard ID, one of any other. *)
Written(g, pick, s) ==
    IF g[2] = Empty THEN s \in Members(g) ELSE s = pick[g]

(* SendTo.  pick is the setter at the index that rand.Intn returns for each    *)
(* list of a shard; it panics on an empty one.  (An envelope that cannot be    *)
(* marshalled changes nothing.)                                                *)
SendTo(appID, e) ==
    LET gs == Groups(appID, e)
        shards == {g \in gs : g[2] # Empty}
    IN
    /\ \E pick \in [shards -> Setters] :
         /\ \A g \in shards : pick[g] \in Members(g)
         /\ last' = [envelope |-> e,
                     hits |-> [s \in Setters |-> Cardinality({g \in gs : Written(g, pick, s)})]]
    /\ UNCHANGED <<subscriptions, request>>

(* MessageRouter.Start: the next envelope of the diode, to the one sender. *)
Route(e) == SendTo(getAppId(e), e)

Next ==
    \/ \E s \in Setters : Cleanup(s) \/ \E req \in Requests : Register(s, req)
    \/ \E e \in Envelopes : Route(e)

Spec == Init /\ [][Next]_vars

-----------------------------------------------------------------------------
(* Properties *)

Registered == {s \in Setters : request[s] # Nil}

(* Whatever was registered and cleaned up before, the maps hold the setters of *)
(* the streams that are registered, each where its request belongs, and no     *)
(* empty entry: an empty list would make rand.Intn(0) panic in          *)
(* writeToShard, and a setter or a map left behind would stay for ever.        *)
NothingLeftBehind ==
    \A f \in DOMAIN subscriptions :
        /\ DOMAIN subscriptions[f] # {}
        /\ \A id \in DOMAIN subscriptions[f] :
             LET list == subscriptions[f][id] IN
             /\ list # {}
             /\ \A s \in list :
                  s \in Registered /\ convertFilter(request[s]) = f /\ request[s].shard = id

(* A request asks for an envelope: no filter, or the same app and type where   *)
(* the filter names them.  What belongs to no application is the system's.     *)
Wants(req, e) ==
    req.filter # Nil =>
        /\ \/ req.filter.appID \in {Empty, e.app}
           \/ req.filter.appID = system /\ e.app = Nil
        /\ \/ req.filter.envelopeType = "no"
           \/ req.filter.envelopeType = "log" <=> e.event = "LogMessage"

(* The setters that share envelopes with s: same filter and shard ID. *)
ShardOf(s) ==
    {t \in Registered : convertFilter(request[t]) = convertFilter(request[s])
                        /\ request[t].shard = request[s].shard}

(* Whatever registered and left before, an envelope reaches every stream that *)
(* asked for it and no other: a stream without a shard ID exactly once, and    *)
(* exactly one stream of each shard.                                          *)
RoutedToSubscribers ==
    LET e == last.envelope
        hits == last.hits
    IN e # Nil =>
         /\ \A s \in Setters : hits[s] > 0 => s \in Registered /\ Wants(request[s], e)
         /\ \A s \in Registered : Wants(request[s], e) =>
              IF request[s].shard = Empty
              THEN hits[s] = 1
              ELSE \E t \in ShardOf(s) : \A u \in ShardOf(s) : hits[u] = IF u = t THEN 1 ELSE 0
=============================================================================
