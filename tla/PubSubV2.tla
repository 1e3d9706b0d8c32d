------------------------------ MODULE PubSubV2 ------------------------------
(***************************************************************************)
(* The router's v2 pub-sub: PubSub.Subscribe and Publish                   *)
(* (src/src/router/internal/server/v2/pubsub.go) on the subscription tree  *)
(* of go-pubsub, with sharding and deterministic routing.  A subscriber    *)
(* subscribes at every router (the reverse log proxy opens a stream to     *)
(* each of them), one selector after the other, in its own time.  The tree *)
(* is locked for each selector and for each Publish, so these are actions. *)
(*                                                                         *)
(* A tree is the map of its paths to the subscriptions at their nodes;     *)
(* nodes without any are left out.  Strings are numbers, which are their   *)
(* hashes: crc64, and the sums of the hashes of the names of a gauge, are  *)
(* taken to be without collisions.  The empty string hashes to 0.          *)
(***************************************************************************)
EXTENDS Integers, Sequences, FiniteSets, SequencesExt, TLC

CONSTANTS
    Routers,
    Subscribers,
    Requests,       \* what a subscriber may ask for: [selectors, shard, dName]
    SourceIDs,      \* non-empty source IDs
    Names,          \* non-empty metric names
    Published,      \* the envelopes that are published
    Nil             \* no envelope

(* The empty string, and 0, the path element that means any value. *)
Empty == 0
AnyValue == 0

(* The path elements of the message types; none is 0. *)
noMessage == 0
counterType == 1
eventType == 2
gaugeType == 3
logType == 4
timerType == 5

Types == {noMessage, counterType, eventType, gaugeType, logType, timerType}

(* What a selector asks for, and what an envelope has.  Counters have one name *)
(* or none, gauges any.  A selector of a gauge lists different names, and the  *)
(* hash of a list is the sum of theirs, so the list is a set.                  *)
Attributes ==
    {a \in [source : SourceIDs \cup {Empty}, type : Types, names : SUBSET Names] :
        /\ a.type = counterType => Cardinality(a.names) <= 1
        /\ a.type \notin {counterType, gaugeType} => a.names = {}}

Selectors == Attributes
Envelopes == Attributes

hashUint64(h) == IF h = 0 THEN 1 ELSE h

(* The path element of a set of names. *)
hashNames(names) == hashUint64(MapThenSumSet(hashUint64, names))

(* hashEnvelope: of the envelopes whose hash is not random. *)
Hashed(e) == e.type \in {counterType, gaugeType}
hashEnvelope(e) == MapThenSumSet(LAMBDA n : n, e.names)

ASSUME PubSubAssumption ==
    /\ SourceIDs \cup Names \subseteq Nat \ {0, 1}
    /\ \A req \in Requests : req.selectors \in Seq(Selectors) /\ req.shard \in Nat /\ req.dName \in Nat
    /\ \A m, n \in SUBSET Names : hashNames(m) = hashNames(n) => m = n
    /\ Published \subseteq Envelopes
    /\ \A e \in Published : hashEnvelope(e) \in Nat
    /\ Nil \notin Envelopes

VARIABLES
    tree,       \* each router's tree: paths to maps of shard IDs to lists
    request,    \* each subscriber's request
    up,         \* the last of its selectors that a subscriber has subscribed at a router
    down,       \* the last of them that it has unsubscribed again
    last        \* history: if the last step was a Publish, its router and envelope
                \* and which entries of the tree it invoked

vars == <<tree, request, up, down, last>>

EmptyMap == [x \in {} |-> x]
Get(m, k, zero) == IF k \in DOMAIN m THEN m[k] ELSE zero
Put(m, k, v) == [x \in DOMAIN m \cup {k} |-> IF x = k THEN v ELSE m[x]]
Delete(m, k) == [x \in DOMAIN m \ {k} |-> m[x]]

NoPublish == [router |-> Nil, envelope |-> Nil, writes |-> {}]

Init ==
    /\ tree = [r \in Routers |-> EmptyMap]
    /\ request \in [Subscribers -> Requests]
    /\ up = [r \in Routers |-> [s \in Subscribers |-> 0]]
    /\ down = [r \in Routers |-> [s \in Subscribers |-> 0]]
    /\ last = NoPublish

-----------------------------------------------------------------------------
(* Paths *)

(* The path of a filter below its source ID: of a counter or a gauge the type  *)
(* and, if names are asked for, 1 and their hash; of the others the type (no   *)
(* filter asks for the title or the body of an event).                         *)
nameElements(sel) == IF sel.names = {} THEN <<>> ELSE <<1, hashNames(sel.names)>>
counterPath(sel) == <<counterType>> \o nameElements(sel)
gaugePath(sel) == <<gaugeType>> \o nameElements(sel)
eventPath(sel) == <<eventType>>
typePath(sel) == <<sel.type>>

(* buildFilter and envelopeTraverserCreatePath: the source ID or AnyValue, and *)
(* what the one kind of message adds.                                          *)
createPath(sel) ==
    <<sel.source>>
        \o CASE sel.type = counterType -> counterPath(sel)
             [] sel.type = gaugeType -> gaugePath(sel)
             [] sel.type = eventType -> eventPath(sel)
             [] OTHER -> typePath(sel)

(* What follows a source ID on the paths of an envelope: of a counter and of a *)
(* gauge, AnyValue and the hash of the names; of an event, of which the title  *)
(* and the body (empty strings here) could be asked for, all combinations.     *)
counterPaths(e) == {<<counterType, 1, h>> : h \in {AnyValue, hashNames(e.names)}}
gaugePaths(e) == {<<gaugeType, 1, h>> : h \in {AnyValue, hashNames(e.names)}}
eventPaths(e) == {<<eventType, 1>> \o p : p \in {AnyValue, hashUint64(Empty)} \X {AnyValue, hashUint64(Empty)}}
logPaths(e) == {<<logType, 1>>}
timerPaths(e) == {<<timerType, 1>>}

messagePaths(e) ==
    CASE e.type = counterType -> counterPaths(e)
      [] e.type = gaugeType -> gaugePaths(e)
      [] e.type = eventType -> eventPaths(e)
      [] e.type = logType -> logPaths(e)
      [] e.type = timerType -> timerPaths(e)
      [] OTHER -> {<<noMessage>>}

(* envelopeTraverserTraverse: the full paths that an envelope goes down. *)
traversePaths(e) == {<<src>> \o p : src \in {AnyValue, hashUint64(e.source)}, p \in messagePaths(e)}

(* traversePublish looks at every node on the way. *)
Visited ==
    [e \in Published |-> UNION {{SubSeq(p, 1, n) : n \in 0 .. Len(p)} : p \in traversePaths(e)}]

-----------------------------------------------------------------------------
(* Nodes *)

(* Mutant: AddSubscription without the sort. *)
AddSubscription_Unsorted(list, x) == {Append(list, x)}

(* AddSubscription: the entry is appended and the list sorted by dName.       *)
(* sort.Sort is not stable: entries with the same name, old ones as well, may *)
(* end up in any order.                                                       *)
AddSubscription(list, x) ==
    LET l == Append(list, x)
        indices == 1 .. Len(l)
    IN {m \in {[i \in indices |-> l[f[i]]] : f \in Bijection(indices, indices)} :
           \A i, j \in indices : i < j => m[i].dName <= m[j].dName}

(* The selectors of a request that are subscribed, by their numbers: those     *)
(* with a message.  The first of them after number n, if there is one.         *)
Required(req) == {k \in 1 .. Len(req.selectors) : req.selectors[k].type # noMessage}
Following(req, n) ==
    {k \in Required(req) : n < k /\ \A j \in Required(req) : n < j => k <= j}

(* go-pubsub's Subscribe: the entry of the k-th selector of s goes into the    *)
(* list of its path and shard.                                                 *)
SubscribeSelector(r, s, k) ==
    LET req == request[s]
        p == createPath(req.selectors[k])
        node == Get(tree[r], p, EmptyMap)
        entry == [sub |-> s, selector |-> k, dName |-> req.dName]
    IN
    /\ \E list \in AddSubscription(Get(node, req.shard, <<>>), entry) :
         tree' = [tree EXCEPT ![r] = Put(@, p, Put(node, req.shard, list))]
    /\ up' = [up EXCEPT ![r][s] = k]
    /\ last' = NoPublish
    /\ UNCHANGED <<request, down>>

(* Subscribe: one selector of s after the other at r. *)
Subscribe(r, s) == \E k \in Following(request[s], up[r][s]) : SubscribeSelector(r, s, k)

(* Where the entry with the id of this subscription is. *)
Position(list, s, k) == CHOOSE i \in 1 .. Len(list) : list[i].sub = s /\ list[i].selector = k

(* Mutant: DeleteSubscription keeps the shard's list when it becomes empty. *)
DeleteSubscription_KeepEmpty(node, shard, s, k) ==
    Put(node, shard, RemoveAt(node[shard], Position(node[shard], s, k)))

(* DeleteSubscription: remove the entry, and the shard with its last one. *)
DeleteSubscription(node, shard, s, k) ==
    LET list == RemoveAt(node[shard], Position(node[shard], s, k))
    IN IF list = <<>> THEN Delete(node, shard) ELSE Put(node, shard, list)

(* cleanupSubscriptionTree: a node goes with its last entry. *)
UnsubscribeSelector(r, s, k) ==
    LET req == request[s]
        p == createPath(req.selectors[k])
        node == DeleteSubscription(tree[r][p], req.shard, s, k)
    IN
    /\ tree' = [tree EXCEPT ![r] = IF node = EmptyMap THEN Delete(@, p) ELSE Put(@, p, node)]
    /\ down' = [down EXCEPT ![r][s] = k]
    /\ last' = NoPublish
    /\ UNCHANGED <<request, up>>

(* The function Subscribe returned, called when the handler returns: it       *)
(* unsubscribes one selector after the other.                                  *)
Unsubscribe(r, s) ==
    /\ Following(request[s], up[r][s]) = {}
    /\ \E k \in Following(request[s], down[r][s]) : UnsubscribeSelector(r, s, k)

-----------------------------------------------------------------------------
(* Publish *)

(* The lists an envelope meets, by path and shard ID. *)
Groups(r, e) ==
    UNION {{<<p, id>> : id \in DOMAIN tree[r][p]} : p \in Visited[e] \cap DOMAIN tree[r]}

List(r, g) == tree[r][g[1]][g[2]]

(* determineIdx: the index follows from the hash if an entry of the list has a *)
(* dName; any other index is random.                                           *)
Indices(list, e) ==
    IF Hashed(e) /\ \E i \in 1 .. Len(list) : list[i].dName # Empty
    THEN {(hashEnvelope(e) % Len(list)) + 1}
    ELSE 1 .. Len(list)

(* Mutant: the empty shard ID is treated like any other. *)
Written_AllSharded(r, g, pick) == {pick[g]}

(* traversePublish: all entries of the empty shard ID, one of any other.      *)
(* (subscription's test of the source ID never fails without collisions.)     *)
Written(r, g, pick) == IF g[2] = Empty THEN 1 .. Len(List(r, g)) ELSE {pick[g]}

Writes(r, g, pick) == {[group |-> g, index |-> i, entry |-> List(r, g)[i]] : i \in Written(r, g, pick)}

Publish(r, e) ==
    LET gs == Groups(r, e) IN
    /\ \E pick \in [gs -> UNION {Indices(List(r, g), e) : g \in gs}] :
         /\ \A g \in gs : pick[g] \in Indices(List(r, g), e)
         /\ last' = [router |-> r, envelope |-> e, writes |-> UNION {Writes(r, g, pick) : g \in gs}]
    /\ UNCHANGED <<tree, request, up, down>>

Next ==
    \E r \in Routers :
        \/ \E s \in Subscribers : Subscribe(r, s) \/ Unsubscribe(r, s)
        \/ \E e \in Published : Publish(r, e)

Spec == Init /\ [][Next]_vars

-----------------------------------------------------------------------------
(* Properties *)

(* The selectors of s that are subscribed at r, by their numbers. *)
Current(r, s) == {k \in Required(request[s]) : down[r][s] < k /\ k <= up[r][s]}

(* Whatever was subscribed and unsubscribed before, a tree holds the entries   *)
(* of the selectors that are subscribed, each once and under its path and      *)
(* shard, and no empty list or node: on an empty list both the random and the  *)
(* hashed index would panic in Publish, and what is left behind would stay for *)
(* ever.                                                                       *)
NothingLeftBehind ==
    \A r \in Routers : \A p \in DOMAIN tree[r] :
        /\ DOMAIN tree[r][p] # {}
        /\ \A id \in DOMAIN tree[r][p] :
             LET list == tree[r][p][id] IN
             /\ list # <<>>
             /\ IsInjective(list)
             /\ \A x \in ToSet(list) :
                  /\ x.selector \in Current(r, x.sub)
                  /\ createPath(request[x.sub].selectors[x.selector]) = p
                  /\ request[x.sub].shard = id

Matches(sel, e) ==
    /\ sel.source \in {Empty, e.source}
    /\ sel.type = e.type
    /\ sel.names \in {{}, e.names}

Matching(r, s, e) == {k \in Current(r, s) : Matches(request[s].selectors[k], e)}

(* An invocation that is due for the k-th selector of s: without a shard ID    *)
(* its own; with one, that of any member of the shard for the same selector.   *)
Serves(w, s, k) ==
    IF request[s].shard = Empty
    THEN w.entry.sub = s /\ w.entry.selector = k
    ELSE /\ request[w.entry.sub].shard = request[s].shard
         /\ request[w.entry.sub].selectors[w.entry.selector] = request[s].selectors[k]

(* Whatever was subscribed and unsubscribed before: a subscriber without a     *)
(* shard ID gets an envelope once for each of its selectors that matches it;   *)
(* of the subscribers that share a shard ID, one gets it, once, for each       *)
(* different selector that matches it; and nobody gets it for a selector that  *)
(* does not match it or is not subscribed.                                     *)
RoutedToSubscribers ==
    LET r == last.router
        e == last.envelope
    IN e # Nil =>
         /\ \A w \in last.writes : w.entry.selector \in Matching(r, w.entry.sub, e)
         /\ \A s \in Subscribers : \A k \in Matching(r, s, e) :
              \E w \in last.writes :
                  Serves(w, s, k) /\ \A v \in last.writes : Serves(v, s, k) => v = w

DistinctNames(list) ==
    \A i, j \in 1 .. Len(list) :
        list[i].dName # Empty /\ (list[i].dName = list[j].dName => i = j)

(* Deterministic routing: two routers where the same subscribers with         *)
(* different names share a shard send a metric to the same one of them, in    *)
(* whatever order each of them subscribed and left at each router.            *)
SameSubscriberEverywhere ==
    \A r1, r2 \in Routers, e \in {e \in Published : Hashed(e)} :
        \A g \in Groups(r1, e) \cap Groups(r2, e) :
            LET l1 == List(r1, g)
                l2 == List(r2, g)
            IN DistinctNames(l1) /\ ToSet(l1) = ToSet(l2) =>
                 \A i \in Indices(l1, e), j \in Indices(l2, e) : l1[i] = l2[j]
=============================================================================
