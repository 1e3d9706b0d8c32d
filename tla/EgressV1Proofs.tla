--------------------------- MODULE EgressV1Proofs ---------------------------
(***************************************************************************)
(* Proofs about the router's v1 egress, for any streams, apps, shards and  *)
(* buffer sizes: the index of the pub-sub (RouterV1) holds exactly what is *)
(* registered and SendTo writes to whom it should; and between its diode   *)
(* and Send a stream (EgressStreamV1) loses nothing.                       *)
(***************************************************************************)
EXTENDS RouterV1, EgressStreamV1, FiniteSetTheorems, SequenceTheorems, TLAPS

(* The place in the index that the request of a setter asks for. *)
Home(s) == <<convertFilter(request[s]), request[s].shard>>

Indexed(s) ==
    LET f == convertFilter(request[s])
        id == request[s].shard
    IN /\ f \in DOMAIN subscriptions
       /\ id \in DOMAIN subscriptions[f]
       /\ s \in subscriptions[f][id]

(* What is in the index is registered (NothingLeftBehind), and conversely: a  *)
(* registered setter that a Cleanup of another one dropped would leave no     *)
(* trace in the index, and miss its envelopes.                                *)
IndexInv ==
    /\ request \in [Setters -> Requests \cup {Nil}]
    /\ NothingLeftBehind
    /\ \A s \in Registered : Indexed(s)

-----------------------------------------------------------------------------
(* Maps *)

(* A map with one entry deleted is the empty map if there was no other. *)
LEMMA DeleteMap ==
    ASSUME NEW m, NEW k
    PROVE  /\ DOMAIN Delete(m, k) = DOMAIN m \ {k}
           /\ \A x \in DOMAIN m : x # k => Delete(m, k)[x] = m[x]
           /\ Delete(m, k) = EmptyMap <=> DOMAIN m \ {k} = {}
  <1>1. DOMAIN m \ {k} = {} => Delete(m, k) = EmptyMap
    BY DEF Delete, EmptyMap
  <1>2. Delete(m, k) = EmptyMap => DOMAIN m \ {k} = {}
    BY DEF Delete, EmptyMap
  <1>. QED
    BY <1>1, <1>2 DEF Delete

(* The empty map has no entries. *)
LEMMA EmptyDomain == DOMAIN EmptyMap = {}
  BY DEF EmptyMap

(* A lookup finds entries only where there are some. *)
LEMMA GetMap ==
    ASSUME NEW m, NEW k, NEW x, x \in DOMAIN Get(m, k, EmptyMap)
    PROVE  k \in DOMAIN m /\ Get(m, k, EmptyMap) = m[k]
  BY EmptyDomain DEF Get

-----------------------------------------------------------------------------
(* The index *)

(* Nothing is indexed at first. *)
LEMMA InitIndex == Init => IndexInv
  <1>. SUFFICES ASSUME Init
                PROVE  IndexInv
    OBVIOUS
  <1>1. subscriptions = EmptyMap /\ request = [s \in Setters |-> Nil]
    BY DEF Init
  <1>2. request \in [Setters -> Requests \cup {Nil}]
    BY <1>1
  <1>3. NothingLeftBehind
    BY <1>1, EmptyDomain DEF NothingLeftBehind
  <1>4. Registered = {}
    BY <1>1 DEF Registered
  <1>. QED
    BY <1>2, <1>3, <1>4 DEF IndexInv

(* Registering a setter adds it where its request asks for, and moves no       *)
(* other.                                                                      *)
LEMMA RegisterIndex ==
    ASSUME IndexInv, NEW s \in Setters, NEW req \in Requests, Register(s, req)
    PROVE  IndexInv'
  <1>. DEFINE f == convertFilter(req)
              id == req.shard
              m == Get(subscriptions, f, EmptyMap)
              l == Get(m, id, {})
              n == Put(m, id, l \cup {s})
  <1>1. /\ request[s] = Nil
        /\ request' = [request EXCEPT ![s] = req]
        /\ subscriptions' = Put(subscriptions, f, n)
    BY DEF Register
  <1>2. request \in [Setters -> Requests \cup {Nil}]
    BY DEF IndexInv
  <1>3. /\ request' \in [Setters -> Requests \cup {Nil}]
        /\ request'[s] = req
        /\ \A t \in Setters : t # s => request'[t] = request[t]
    BY <1>1, <1>2
  <1>4. req # Nil
    BY RouterAssumption
  <1>5. Registered' = Registered \cup {s} /\ s \notin Registered
    BY <1>1, <1>3, <1>4 DEF Registered
  <1>6. /\ DOMAIN subscriptions' = DOMAIN subscriptions \cup {f}
        /\ subscriptions'[f] = n
        /\ \A h \in DOMAIN subscriptions : h # f => subscriptions'[h] = subscriptions[h]
    <2>. HIDE DEF f, n
    <2>. QED
      BY <1>1 DEF Put
  <1>7. /\ DOMAIN n = DOMAIN m \cup {id}
        /\ n[id] = l \cup {s}
        /\ \A i \in DOMAIN m : i # id => n[i] = m[i]
    <2>. HIDE DEF m, id, l
    <2>. QED
      BY DEF Put
  <1>8. \A i \in DOMAIN m : f \in DOMAIN subscriptions /\ m = subscriptions[f]
    BY GetMap
  <1>9. f \in DOMAIN subscriptions => m = subscriptions[f]
    BY DEF Get
  <1>10. l # {} => id \in DOMAIN m /\ l = m[id]
    BY DEF Get
  <1>11. id \in DOMAIN m => l = m[id]
    BY DEF Get
  <1>12. \A h \in DOMAIN subscriptions : \A i \in DOMAIN subscriptions[h] :
           /\ subscriptions[h][i] # {}
           /\ \A t \in subscriptions[h][i] :
                t \in Registered /\ convertFilter(request[t]) = h /\ request[t].shard = i
    BY DEF IndexInv, NothingLeftBehind
  <1>13. \A h \in DOMAIN subscriptions : DOMAIN subscriptions[h] # {}
    BY DEF IndexInv, NothingLeftBehind
  <1>14. \A t \in Registered : t # s /\ t \in Setters /\ request'[t] = request[t]
    BY <1>3, <1>5 DEF Registered
  <1>. HIDE DEF f, id, m, l, n
  <1>15. ASSUME NEW h \in DOMAIN subscriptions', NEW i \in DOMAIN subscriptions'[h]
         PROVE  /\ subscriptions'[h][i] # {}
                /\ \A t \in subscriptions'[h][i] :
                     t \in Registered' /\ convertFilter(request'[t]) = h /\ request'[t].shard = i
    <2>1. CASE h # f
      <3>1. h \in DOMAIN subscriptions /\ subscriptions'[h] = subscriptions[h]
        BY <2>1, <1>6
      <3>. QED
        BY <3>1, <1>12, <1>14, <1>5
    <2>2. CASE h = f /\ i # id
      <3>1. i \in DOMAIN m /\ subscriptions'[h][i] = m[i]
        BY <2>2, <1>6, <1>7
      <3>2. f \in DOMAIN subscriptions /\ m = subscriptions[f]
        BY <3>1, <1>8
      <3>. QED
        BY <3>1, <3>2, <1>12, <1>14, <1>5, <2>2
    <2>3. CASE h = f /\ i = id
      <3>1. subscriptions'[h][i] = l \cup {s}
        BY <2>3, <1>6, <1>7
      <3>2. \A t \in l : t \in Registered /\ convertFilter(request[t]) = f /\ request[t].shard = id
        BY <1>8, <1>10, <1>12
      <3>3. convertFilter(request'[s]) = f /\ request'[s].shard = id
        BY <1>3 DEF f, id
      <3>. QED
        BY <3>1, <3>2, <3>3, <1>14, <1>5, <2>3
    <2>. QED
      BY <2>1, <2>2, <2>3
  <1>16. ASSUME NEW h \in DOMAIN subscriptions'
         PROVE  DOMAIN subscriptions'[h] # {}
    BY <1>6, <1>7, <1>13
  <1>17. NothingLeftBehind'
    BY <1>15, <1>16 DEF NothingLeftBehind
  <1>18. ASSUME NEW t \in Registered'
         PROVE  Indexed(t)'
    <2>1. CASE t = s
      <3>1. convertFilter(request'[t]) = f /\ request'[t].shard = id
        BY <2>1, <1>3 DEF f, id
      <3>. QED
        BY <3>1, <2>1, <1>6, <1>7 DEF Indexed
    <2>2. CASE t # s
      <3>1. t \in Registered /\ request'[t] = request[t]
        BY <2>2, <1>5, <1>14
      <3>2. Indexed(t)
        BY <3>1 DEF IndexInv
      <3>. DEFINE h == convertFilter(request[t])
                  i == request[t].shard
      <3>3. /\ h \in DOMAIN subscriptions
            /\ i \in DOMAIN subscriptions[h]
            /\ t \in subscriptions[h][i]
        BY <3>2 DEF Indexed
      <3>. HIDE DEF h, i
      <3>4. /\ h \in DOMAIN subscriptions'
            /\ i \in DOMAIN subscriptions'[h]
            /\ t \in subscriptions'[h][i]
        <4>1. CASE h # f
          BY <4>1, <3>3, <1>6
        <4>2. CASE h = f
          BY <4>2, <3>3, <1>6, <1>7, <1>9, <1>11
        <4>. QED
          BY <4>1, <4>2
      <3>5. h = convertFilter(request'[t]) /\ i = request'[t].shard
        BY <3>1 DEF h, i
      <3>. QED
        BY <3>4, <3>5 DEF Indexed
    <2>. QED
      BY <2>1, <2>2
  <1>. QED
    BY <1>3, <1>17, <1>18 DEF IndexInv

(* Cleanup takes a setter out of the index, with the list and the map that it  *)
(* leaves empty, and no other.                                                 *)
LEMMA CleanupIndex ==
    ASSUME IndexInv, NEW s \in Setters, Cleanup(s)
    PROVE  IndexInv'
  <1>. DEFINE f == convertFilter(request[s])
              id == request[s].shard
              m == Get(subscriptions, f, EmptyMap)
              l == Get(m, id, {}) \ {s}
              rest == Delete(m, id)
  <1>1. /\ request[s] # Nil
        /\ request' = [request EXCEPT ![s] = Nil]
        /\ \/ l # {} /\ subscriptions' = Put(subscriptions, f, Put(m, id, l))
           \/ l = {} /\ rest # EmptyMap /\ subscriptions' = Put(subscriptions, f, rest)
           \/ l = {} /\ rest = EmptyMap /\ subscriptions' = Delete(subscriptions, f)
    BY DEF Cleanup
  <1>2. request \in [Setters -> Requests \cup {Nil}]
    BY DEF IndexInv
  <1>3. /\ request' \in [Setters -> Requests \cup {Nil}]
        /\ request'[s] = Nil
        /\ \A t \in Setters : t # s => request'[t] = request[t]
    BY <1>1, <1>2
  <1>4. Registered' = Registered \ {s} /\ s \in Registered
    BY <1>1, <1>3 DEF Registered
  <1>5. \A t \in Registered' : request'[t] = request[t]
    BY <1>3, <1>4 DEF Registered
  <1>6. /\ f \in DOMAIN subscriptions
        /\ id \in DOMAIN subscriptions[f]
        /\ s \in subscriptions[f][id]
    BY <1>4 DEF IndexInv, Indexed
  <1>7. m = subscriptions[f]
    BY <1>6 DEF Get
  <1>8. l = m[id] \ {s}
    BY <1>6, <1>7 DEF Get
  <1>9. /\ DOMAIN rest = DOMAIN m \ {id}
        /\ \A i \in DOMAIN m : i # id => rest[i] = m[i]
        /\ rest = EmptyMap <=> DOMAIN m \ {id} = {}
    BY DeleteMap
  <1>10. \A h \in DOMAIN subscriptions : \A i \in DOMAIN subscriptions[h] :
           /\ subscriptions[h][i] # {}
           /\ \A t \in subscriptions[h][i] :
                t \in Registered /\ convertFilter(request[t]) = h /\ request[t].shard = i
    BY DEF IndexInv, NothingLeftBehind
  <1>11. \A h \in DOMAIN subscriptions : DOMAIN subscriptions[h] # {}
    BY DEF IndexInv, NothingLeftBehind
  <1>12. \A h \in DOMAIN subscriptions : \A i \in DOMAIN subscriptions[h] :
           s \in subscriptions[h][i] => h = f /\ i = id
    BY <1>10
  (* The index afterwards: all other lists as before, and what is left of this one. *)
  <1>13. /\ \A h \in DOMAIN subscriptions' :
              /\ h \in DOMAIN subscriptions
              /\ DOMAIN subscriptions'[h] # {}
              /\ \A i \in DOMAIN subscriptions'[h] :
                   /\ i \in DOMAIN subscriptions[h]
                   /\ subscriptions'[h][i] = subscriptions[h][i] \ {s}
                   /\ subscriptions'[h][i] # {}
         /\ \A h \in DOMAIN subscriptions : \A i \in DOMAIN subscriptions[h] :
              subscriptions[h][i] \ {s} # {} =>
                  h \in DOMAIN subscriptions' /\ i \in DOMAIN subscriptions'[h]
    <2>. HIDE DEF f, id, m, l, rest
    <2>0. /\ \A h \in DOMAIN subscriptions : \A i \in DOMAIN subscriptions[h] :
               h # f \/ i # id => subscriptions[h][i] \ {s} = subscriptions[h][i]
          /\ subscriptions[f][id] \ {s} = l
      BY <1>12, <1>7, <1>8
    <2>1. CASE l # {} /\ subscriptions' = Put(subscriptions, f, Put(m, id, l))
      <3>. DEFINE n == Put(m, id, l)
      <3>1. /\ DOMAIN n = DOMAIN m
            /\ n[id] = l
            /\ \A i \in DOMAIN m : i # id => n[i] = m[i]
        BY <1>6, <1>7 DEF Put
      <3>. HIDE DEF n
      <3>2. subscriptions' = Put(subscriptions, f, n)
        BY <2>1 DEF n
      <3>3. /\ DOMAIN subscriptions' = DOMAIN subscriptions
            /\ subscriptions'[f] = n
            /\ \A h \in DOMAIN subscriptions : h # f => subscriptions'[h] = subscriptions[h]
        BY <3>2, <1>6 DEF Put
      <3>. QED
        BY <3>1, <3>3, <2>0, <2>1, <1>6, <1>7, <1>10, <1>11
    <2>2. CASE l = {} /\ rest # EmptyMap /\ subscriptions' = Put(subscriptions, f, rest)
      <3>1. /\ DOMAIN subscriptions' = DOMAIN subscriptions
            /\ subscriptions'[f] = rest
            /\ \A h \in DOMAIN subscriptions : h # f => subscriptions'[h] = subscriptions[h]
        BY <2>2, <1>6 DEF Put
      <3>. QED
        BY <3>1, <2>0, <2>2, <1>6, <1>7, <1>9, <1>10, <1>11
    <2>3. CASE l = {} /\ rest = EmptyMap /\ subscriptions' = Delete(subscriptions, f)
      <3>1. /\ DOMAIN subscriptions' = DOMAIN subscriptions \ {f}
            /\ \A h \in DOMAIN subscriptions : h # f => subscriptions'[h] = subscriptions[h]
        BY <2>3, DeleteMap
      <3>. QED
        BY <3>1, <2>0, <2>3, <1>6, <1>7, <1>9, <1>10, <1>11
    <2>. QED
      BY <1>1, <2>1, <2>2, <2>3
  <1>. HIDE DEF f, id, m, l, rest
  <1>14. ASSUME NEW h \in DOMAIN subscriptions', NEW i \in DOMAIN subscriptions'[h],
                NEW t \in subscriptions'[h][i]
         PROVE  t \in Registered' /\ convertFilter(request'[t]) = h /\ request'[t].shard = i
    <2>1. /\ h \in DOMAIN subscriptions
          /\ i \in DOMAIN subscriptions[h]
          /\ t \in subscriptions[h][i]
          /\ t # s
      BY <1>13
    <2>2. t \in Registered /\ convertFilter(request[t]) = h /\ request[t].shard = i
      BY <2>1, <1>10
    <2>. QED
      BY <2>1, <2>2, <1>4, <1>5
  <1>15. NothingLeftBehind'
    BY <1>13, <1>14 DEF NothingLeftBehind
  <1>16. ASSUME NEW t \in Registered'
         PROVE  Indexed(t)'
    <2>. DEFINE h == convertFilter(request[t])
                i == request[t].shard
    <2>1. t # s /\ t \in Registered /\ request'[t] = request[t]
      BY <1>4, <1>5
    <2>2. /\ h \in DOMAIN subscriptions
          /\ i \in DOMAIN subscriptions[h]
          /\ t \in subscriptions[h][i]
      BY <2>1 DEF IndexInv, Indexed
    <2>3. h = convertFilter(request'[t]) /\ i = request'[t].shard
      BY <2>1
    <2>. HIDE DEF h, i
    <2>4. /\ h \in DOMAIN subscriptions'
          /\ i \in DOMAIN subscriptions'[h]
          /\ t \in subscriptions'[h][i]
      BY <1>13, <2>1, <2>2
    <2>. QED
      BY <2>3, <2>4 DEF Indexed
  <1>. QED
    BY <1>3, <1>15, <1>16 DEF IndexInv

(* The index holds exactly what is registered, whatever registered and left   *)
(* before.                                                                    *)
THEOREM IndexHolds == Spec => []IndexInv
  <1>1. ASSUME IndexInv, [Next]_vars
        PROVE  IndexInv'
    <2>1. ASSUME NEW s \in Setters, NEW req \in Requests, Register(s, req)
          PROVE  IndexInv'
      BY <1>1, <2>1, RegisterIndex
    <2>2. ASSUME NEW s \in Setters, Cleanup(s)
          PROVE  IndexInv'
      BY <1>1, <2>2, CleanupIndex
    <2>3. CASE UNCHANGED <<subscriptions, request>>
      BY <1>1, <2>3 DEF IndexInv, NothingLeftBehind, Registered, Indexed
    <2>4. ASSUME NEW e \in Envelopes, Route(e)
          PROVE  IndexInv'
      BY <2>3, <2>4 DEF Route, SendTo
    <2>5. CASE UNCHANGED vars
      BY <2>3, <2>5 DEF vars
    <2>. QED
      BY <1>1, <2>1, <2>2, <2>4, <2>5 DEF Next
  <1>. QED
    BY <1>1, InitIndex, PTL DEF Spec

(* For any setters and requests, the maps hold the setters of the streams      *)
(* that are registered, where their requests belong, and nothing empty.        *)
THEOREM NothingLeftBehindHolds == Spec => []NothingLeftBehind
  <1>1. IndexInv => NothingLeftBehind
    BY DEF IndexInv
  <1>. QED
    BY <1>1, IndexHolds, PTL

-----------------------------------------------------------------------------
(* Routing *)

(* An envelope is looked up under the filter of a request if and only if the   *)
(* request asks for the envelope.                                              *)
LEMMA LookedUp ==
    ASSUME NEW req \in Requests, NEW e \in Envelopes
    PROVE  convertFilter(req) \in createTypedFilters(getAppId(e), e) <=> Wants(req, e)
  <1>. DEFINE f == convertFilter(req)
              app == getAppId(e)
              type == filterTypeFromEnvelope(e)
  <1>1. /\ Empty \notin AppIDs /\ Empty # system
        /\ Nil \notin AppIDs /\ Nil # system /\ Nil # Empty
        /\ Nil \notin Filters
    BY RouterAssumption
  <1>2. f \in Filters
    <2>1. CASE req.filter = Nil
      BY <2>1 DEF convertFilter, Filters, Types
    <2>2. CASE req.filter # Nil
      BY <2>2 DEF convertFilter, Requests, RequestFilters
    <2>. QED
      BY <2>1, <2>2
  <1>3. f \in createTypedFilters(app, e) <=>
           /\ f.envelopeType \in {type, "no"}
           /\ f.appID = Empty \/ f.appID = app
    BY <1>2 DEF createTypedFilters, Filters
  <1>4. type = "log" <=> e.event = "LogMessage"
    BY DEF filterTypeFromEnvelope
  <1>5. type \in {"log", "metric"}
    BY DEF filterTypeFromEnvelope
  <1>6. \/ app = e.app /\ e.app # Nil
        \/ app = system /\ e.app = Nil
    BY <1>1 DEF getAppId, Envelopes
  <1>7. CASE req.filter = Nil
    BY <1>3, <1>7 DEF convertFilter, Wants
  <1>8. CASE req.filter # Nil
    <2>1. f = req.filter
      BY <1>8 DEF convertFilter
    <2>2. /\ f.appID \in AppIDs \cup {system, Empty}
          /\ f.envelopeType \in {"log", "metric", "no"}
      BY <1>2 DEF Filters, Types
    <2>. HIDE DEF f, app, type
    <2>3. f.appID = Empty \/ f.appID = app <=>
             f.appID \in {Empty, e.app} \/ (f.appID = system /\ e.app = Nil)
      BY <1>1, <1>6, <2>2
    <2>4. f.envelopeType \in {type, "no"} <=>
             f.envelopeType = "no" \/ (f.envelopeType = "log" <=> e.event = "LogMessage")
      BY <1>4, <1>5, <2>2
    <2>5. Wants(req, e) <=>
             /\ f.appID \in {Empty, e.app} \/ (f.appID = system /\ e.app = Nil)
             /\ f.envelopeType = "no" \/ (f.envelopeType = "log" <=> e.event = "LogMessage")
      BY <1>8, <2>1 DEF Wants
    <2>6. f \in createTypedFilters(app, e) <=> Wants(req, e)
      BY <1>3, <2>3, <2>4, <2>5
    <2>. QED
      BY <2>6 DEF f, app
  <1>. QED
    BY <1>7, <1>8

(* Sending an envelope writes to whom it should: a setter is in one list of    *)
(* the index, so it is hit at most once, and it is in it, so it is not missed. *)
LEMMA RouteRouted ==
    ASSUME IndexInv, NEW e \in Envelopes, Route(e)
    PROVE  RoutedToSubscribers'
  <1>. DEFINE gs == Groups(getAppId(e), e)
              shards == {g \in gs : g[2] # Empty}
  <1>1. PICK pick \in [shards -> Setters] :
          /\ \A g \in shards : pick[g] \in Members(g)
          /\ last' = [envelope |-> e,
                      hits |-> [s \in Setters |-> Cardinality({g \in gs : Written(g, pick, s)})]]
    BY DEF Route, SendTo
  <1>2. UNCHANGED <<subscriptions, request>>
    BY DEF Route, SendTo
  <1>. DEFINE hits == last'.hits
              W(s) == {g \in gs : Written(g, pick, s)}
  <1>3. /\ last'.envelope = e
        /\ \A s \in Setters : hits[s] = Cardinality(W(s))
    BY <1>1
  <1>. DEFINE filters == createTypedFilters(getAppId(e), e)
  <1>4. \A g \in gs : /\ g \in filters \X (ShardIDs \cup {Empty})
                      /\ g[1] \in DOMAIN subscriptions
                      /\ g[2] \in DOMAIN subscriptions[g[1]]
    BY EmptyDomain DEF Groups, Get
  <1>5. \A f \in filters, id \in ShardIDs \cup {Empty} :
           f \in DOMAIN subscriptions /\ id \in DOMAIN subscriptions[f] => <<f, id>> \in gs
    BY DEF Groups, Get
  <1>. HIDE DEF gs, filters
  <1>6. ASSUME NEW g \in gs, NEW s \in Members(g)
        PROVE  s \in Registered /\ g = Home(s)
    <2>1. s \in Registered /\ convertFilter(request[s]) = g[1] /\ request[s].shard = g[2]
      BY <1>4 DEF IndexInv, NothingLeftBehind, Members
    <2>. QED
      BY <2>1, <1>4 DEF Home
  <1>7. ASSUME NEW g \in gs, NEW s \in Setters, Written(g, pick, s)
        PROVE  s \in Registered /\ g = Home(s)
    <2>1. s \in Members(g)
      BY <1>1, <1>7 DEF Written
    <2>. QED
      BY <2>1, <1>6
  <1>8. ASSUME NEW s \in Setters
        PROVE  /\ s \in Registered /\ Home(s) \in gs /\ Written(Home(s), pick, s) => hits[s] = 1
               /\ ~(s \in Registered /\ Home(s) \in gs /\ Written(Home(s), pick, s)) => hits[s] = 0
    <2>1. CASE s \in Registered /\ Home(s) \in gs /\ Written(Home(s), pick, s)
      <3>1. W(s) = {Home(s)}
        BY <2>1, <1>7
      <3>. HIDE DEF W, hits
      <3>. QED
        BY <2>1, <3>1, <1>3, FS_Singleton
    <2>2. CASE ~(s \in Registered /\ Home(s) \in gs /\ Written(Home(s), pick, s))
      <3>1. W(s) = {}
        BY <2>2, <1>7
      <3>. HIDE DEF W, hits
      <3>. QED
        BY <2>2, <3>1, <1>3, FS_EmptySet
    <2>. QED
      BY <2>1, <2>2
  <1>9. ASSUME NEW s \in Registered
        PROVE  /\ Home(s) \in gs <=> Wants(request[s], e)
               /\ s \in Members(Home(s))
    <2>. DEFINE f == convertFilter(request[s])
                id == request[s].shard
    <2>1. request[s] \in Requests
      BY DEF IndexInv, Registered
    <2>2. /\ f \in DOMAIN subscriptions
          /\ id \in DOMAIN subscriptions[f]
          /\ s \in subscriptions[f][id]
      BY DEF IndexInv, Indexed
    <2>3. id \in ShardIDs \cup {Empty}
      BY <2>1 DEF Requests
    <2>4. f \in filters <=> Wants(request[s], e)
      BY <2>1, LookedUp DEF filters
    <2>5. Home(s) = <<f, id>>
      BY DEF Home
    <2>. HIDE DEF f, id
    <2>6. Home(s) \in gs <=> f \in filters
      BY <2>2, <2>3, <2>5, <1>4, <1>5
    <2>. QED
      BY <2>2, <2>4, <2>5, <2>6 DEF Members
  <1>10. Registered \subseteq Setters
    BY DEF Registered
  <1>. HIDE DEF hits, W
  <1>11. ASSUME NEW s \in Setters, hits[s] > 0
         PROVE  s \in Registered /\ Wants(request[s], e)
    <2>1. s \in Registered /\ Home(s) \in gs
      BY <1>8, <1>11
    <2>. QED
      BY <2>1, <1>9
  <1>12. ASSUME NEW s \in Registered, Wants(request[s], e)
         PROVE  IF request[s].shard = Empty
                THEN hits[s] = 1
                ELSE \E t \in ShardOf(s) : \A u \in ShardOf(s) : hits[u] = IF u = t THEN 1 ELSE 0
    <2>1. Home(s) \in gs /\ s \in Members(Home(s)) /\ Home(s)[2] = request[s].shard
      BY <1>9, <1>12 DEF Home
    <2>2. CASE request[s].shard = Empty
      <3>1. Written(Home(s), pick, s)
        BY <2>1, <2>2 DEF Written
      <3>. QED
        BY <2>1, <2>2, <3>1, <1>8, <1>10
    <2>3. CASE request[s].shard # Empty
      <3>. DEFINE t == pick[Home(s)]
      <3>1. Home(s) \in shards
        BY <2>1, <2>3
      <3>2. t \in Members(Home(s))
        BY <3>1, <1>1
      <3>. HIDE DEF t
      <3>3. t \in Registered /\ Home(t) = Home(s)
        BY <2>1, <3>2, <1>6
      <3>4. t \in ShardOf(s)
        BY <3>3 DEF ShardOf, Home
      <3>5. ASSUME NEW u \in ShardOf(s)
            PROVE  hits[u] = IF u = t THEN 1 ELSE 0
        <4>1. u \in Registered /\ Home(u) = Home(s)
          BY DEF ShardOf, Home
        <4>2. Written(Home(u), pick, u) <=> u = t
          BY <2>1, <2>3, <4>1 DEF Written, t
        <4>. QED
          BY <2>1, <4>1, <4>2, <1>8, <1>10
      <3>. QED
        BY <2>3, <3>4, <3>5
    <2>. QED
      BY <2>2, <2>3
  <1>13. /\ Registered' = Registered
         /\ request' = request
         /\ \A s \in Registered : ShardOf(s)' = ShardOf(s)
    BY <1>2 DEF Registered, ShardOf
  <1>. QED
    BY <1>3, <1>11, <1>12, <1>13 DEF RoutedToSubscribers, hits

(* For any setters, requests and envelopes: an envelope reaches every stream   *)
(* that asked for it and no other, exactly one stream of each shard.           *)
THEOREM RoutedToSubscribersHolds == Spec => []RoutedToSubscribers
  <1>1. ASSUME last = NoSend
        PROVE  RoutedToSubscribers
    BY <1>1 DEF NoSend, RoutedToSubscribers
  <1>2. Init => RoutedToSubscribers
    BY <1>1 DEF Init
  <1>3. ASSUME last' = NoSend
        PROVE  RoutedToSubscribers'
    BY <1>3 DEF NoSend, RoutedToSubscribers
  <1>4. ASSUME IndexInv, RoutedToSubscribers, [Next]_vars
        PROVE  RoutedToSubscribers'
    <2>1. ASSUME NEW s \in Setters, NEW req \in Requests, Register(s, req)
          PROVE  RoutedToSubscribers'
      BY <1>3, <2>1 DEF Register
    <2>2. ASSUME NEW s \in Setters, Cleanup(s)
          PROVE  RoutedToSubscribers'
      BY <1>3, <2>2 DEF Cleanup
    <2>3. ASSUME NEW e \in Envelopes, Route(e)
          PROVE  RoutedToSubscribers'
      BY <1>4, <2>3, RouteRouted
    <2>4. CASE UNCHANGED vars
      BY <1>4, <2>4 DEF vars, RoutedToSubscribers, Registered, ShardOf
    <2>. QED
      BY <1>4, <2>1, <2>2, <2>3, <2>4 DEF Next
  <1>. QED
    BY <1>2, <1>4, IndexHolds, PTL DEF Spec

-----------------------------------------------------------------------------
(* The stream *)

Flags ==
    /\ ctxDone \in BOOLEAN /\ doneFlag \in BOOLEAN
    /\ registered \in BOOLEAN /\ errStream \in BOOLEAN

Values ==
    /\ written \in Nat /\ next \in Nat /\ lost \in Nat /\ failed \in Nat
    /\ delivered \in Seq(Nat) /\ batch \in Seq(Nat) /\ sent \in Seq(Nat)
    /\ method \in {"Subscribe", "BatchSubscribe"}
    /\ pc \in {"start", "loop", "next", "send", "report", "returned"}

Limit == IF Batched THEN BatchSize ELSE 1

(* A batch that is full is being sent: the next envelope finds room. *)
BatchInv ==
    /\ Len(batch) <= Limit
    /\ pc \notin {"send", "report"} => Len(batch) < Limit
    /\ pc = "report" => Batched

StreamInv == Values /\ BatchInv /\ Conservation

(* The flags stay flags. *)
LEMMA FlagsStep == Flags /\ [StreamNext]_streamVars => Flags'
  BY Zenon DEF Flags, StreamNext, streamVars, diodeVars, sendVars,
     Publish, Cancel, MonitorContext, Handler,
     Start, Poll, ReturnOnDone, ReturnOnError, Return,
     TryNextOk, TryNextMiss, FlushPartial, Send,
     SendOk, SendErr, BatchSendErr, Report

(* Passing the batch on moves it to the end of what was sent. *)
LEMMA Passed ==
    ASSUME Values, Conservation, sent' = sent \o batch, batch' = <<>>,
           delivered' = delivered
    PROVE  /\ sent' \in Seq(Nat) /\ batch' \in Seq(Nat) /\ Len(batch') = 0
           /\ Conservation'
  <1>1. sent \in Seq(Nat) /\ batch \in Seq(Nat) /\ delivered = sent \o batch
    BY DEF Values, Conservation
  <1>2. sent' \in Seq(Nat)
    BY <1>1
  <1>3. sent' \o <<>> = sent'
    BY <1>2, ConcatEmptySeq
  <1>4. Conservation'
    BY <1>1, <1>3 DEF Conservation
  <1>. QED
    BY <1>2, <1>4

(* An element behind the second of two lists is behind both. *)
LEMMA AppendToSecond ==
    ASSUME NEW a \in Seq(Nat), NEW b \in Seq(Nat), NEW n \in Nat
    PROVE  a \o Append(b, n) = Append(a \o b, n)
  <1>. DEFINE l == a \o Append(b, n)
              m == Append(a \o b, n)
  <1>1. l \in Seq(Nat) /\ m \in Seq(Nat) /\ Len(l) = Len(m)
    OBVIOUS
  <1>2. ASSUME NEW i \in 1 .. Len(l)
        PROVE  l[i] = m[i]
    OBVIOUS
  <1>. QED
    BY <1>1, <1>2, SeqEqual

(* An envelope taken from the diode goes to the end of the batch. *)
LEMMA Taken ==
    ASSUME Values, Conservation, NEW s \in Nat, delivered' = Append(delivered, s),
           batch' = Append(batch, s), sent' = sent
    PROVE  /\ delivered' \in Seq(Nat) /\ batch' \in Seq(Nat) /\ Len(batch') = Len(batch) + 1
           /\ Conservation'
  <1>1. sent \in Seq(Nat) /\ batch \in Seq(Nat) /\ delivered = sent \o batch
    BY DEF Values, Conservation
  <1>2. sent \o Append(batch, s) = Append(sent \o batch, s)
    BY <1>1, AppendToSecond
  <1>3. Conservation'
    BY <1>1, <1>2 DEF Conservation
  <1>. QED
    BY <1>1, <1>3 DEF Values

(* Every step of a stream preserves its invariant. *)
LEMMA StreamStep ==
    ASSUME BatchSize \in Nat \ {0}, StreamInv, [StreamNext]_streamVars
    PROVE  StreamInv'
  <1>. USE DEF StreamInv, Values, BatchInv, Limit, Batched
  <1>1. CASE Publish
    BY <1>1 DEF Publish, Diode!Put, sendVars, Conservation
  <1>2. CASE Cancel \/ MonitorContext
    BY <1>2 DEF Cancel, MonitorContext, diodeVars, sendVars,
                Conservation
  <1>3. CASE Start \/ Poll \/ ReturnOnDone
    BY <1>3 DEF Start, Poll, ReturnOnDone, Return,
                diodeVars, sendVars, Conservation
  <1>4. CASE ReturnOnError
    BY <1>4 DEF ReturnOnError, Return, diodeVars, Conservation
  <1>5. CASE TryNextOk
    <2>1. PICK s \in next .. written - 1 :
            Diode!Get(s) /\ batch' = Append(batch, s)
      BY <1>5 DEF TryNextOk
    <2>2. s \in Nat /\ s >= next
      OBVIOUS
    <2>3. /\ delivered' = Append(delivered, s)
          /\ lost' = lost + (s - next)
          /\ next' = s + 1
          /\ written' = written
      BY <2>1 DEF Diode!Get
    <2>4. /\ pc = "next"
          /\ \/ Batched /\ Len(batch') < BatchSize /\ pc' = "loop"
             \/ pc' = "send"
          /\ UNCHANGED <<method, sent, failed>>
      BY <1>5 DEF TryNextOk
    <2>5. /\ delivered' \in Seq(Nat) /\ batch' \in Seq(Nat) /\ Len(batch') = Len(batch) + 1
          /\ Conservation'
      BY <2>1, <2>2, <2>3, <2>4, Taken
    <2>6. lost' \in Nat /\ next' \in Nat
      BY <2>2, <2>3
    <2>7. Len(batch) \in Nat
      OBVIOUS
    <2>8. BatchInv'
      BY <2>4, <2>5, <2>7
    <2>. QED
      BY <2>3, <2>4, <2>5, <2>6, <2>8
  <1>6. CASE TryNextMiss \/ FlushPartial \/ BatchSendErr
    BY <1>6 DEF TryNextMiss, FlushPartial, BatchSendErr,
                diodeVars, sendVars, Conservation
  <1>7. CASE SendOk \/ SendErr \/ Report
    <2>1. /\ sent' = sent \o batch
          /\ batch' = <<>>
          /\ UNCHANGED <<written, next, delivered, lost, method>>
          /\ failed' = failed \/ failed' = failed + Len(batch)
          /\ pc' \in {"loop", "returned"}
      BY <1>7 DEF SendOk, SendErr, Report, Return, diodeVars
    <2>2. /\ sent' \in Seq(Nat) /\ batch' \in Seq(Nat) /\ Len(batch') = 0
          /\ Conservation'
      BY <2>1, Passed
    <2>3. failed' \in Nat
      BY <2>1
    <2>4. BatchInv'
      BY <2>1, <2>2
    <2>. QED
      BY <2>1, <2>2, <2>3, <2>4
  <1>8. CASE UNCHANGED streamVars
    BY <1>8 DEF streamVars, diodeVars, sendVars, Conservation
  <1>. QED
    BY <1>1, <1>2, <1>3, <1>4, <1>5, <1>6, <1>7, <1>8 DEF StreamNext, Handler, Send

(* What the two theorems below rest on. *)
LEMMA StreamInvHolds == StreamSpec => [](StreamInv /\ Flags)
  <1>1. BatchSize \in Nat \ {0}
    BY EgressStreamAssumption
  <1>2. StreamInit => StreamInv
    BY <1>1 DEF StreamInit, Diode!Init, StreamInv, Values, BatchInv, Limit,
                Batched, Conservation
  <1>3. StreamInit => Flags
    BY Zenon DEF StreamInit, Flags
  <1>4. StreamInv /\ [StreamNext]_streamVars => StreamInv'
    BY <1>1, StreamStep
  <1>. QED
    BY <1>2, <1>3, <1>4, FlagsStep, PTL DEF StreamSpec

(* For every buffer and batch size, a stream keeps its types, and a batch      *)
(* never outgrows the batch size.                                              *)
THEOREM TypeOKHolds == StreamSpec => []TypeOK
  <1>1. StreamInv /\ Flags => TypeOK
    BY DEF StreamInv, Values, BatchInv, Limit, Flags, TypeOK
  <1>. QED
    BY <1>1, StreamInvHolds, PTL

(* For every buffer and batch size and any failures, nothing is lost, doubled  *)
(* or reordered between a stream's diode and Send.                             *)
THEOREM ConservationHolds == StreamSpec => []Conservation
  <1>1. StreamInv => Conservation
    BY DEF StreamInv
  <1>. QED
    BY <1>1, StreamInvHolds, PTL

(* A stream uses its diode as a lossy queue may be used: what is promised of   *)
(* the queue, which the diode implements, holds in the stream.                 *)
THEOREM ImplementsDiode == StreamSpec => Diode!Spec
  <1>1. StreamInit => Diode!Init
    BY DEF StreamInit
  <1>2. [StreamNext]_streamVars => [Diode!Next]_Diode!vars
    BY Zenon DEF StreamNext, streamVars, diodeVars, sendVars,
     Publish, Cancel, MonitorContext, Handler, Start, Poll, ReturnOnDone, ReturnOnError, Return,
     TryNextOk, TryNextMiss, FlushPartial, Send, SendOk, SendErr, BatchSendErr, Report, Diode!Next, Diode!vars
  <1>. QED
    BY <1>1, <1>2, PTL DEF StreamSpec, Diode!Spec

(* What a lossy queue has delivered: a subsequence of what was written before  *)
(* next, in order, and the rest of that is lost.                               *)
QueueInv ==
    /\ next <= written
    /\ Len(delivered) + lost = next
    /\ \A i \in 1 .. Len(delivered) : delivered[i] < next
    /\ \A i, j \in 1 .. Len(delivered) : i < j => delivered[i] < delivered[j]

(* Every step of the queue preserves it. *)
LEMMA QueueStep ==
    ASSUME Values, QueueInv, [Diode!Next]_Diode!vars
    PROVE  QueueInv'
  <1>1. CASE Diode!Put
    BY <1>1 DEF Diode!Put, Values, QueueInv
  <1>2. ASSUME NEW s \in next .. written - 1, Diode!Get(s)
        PROVE  QueueInv'
    <2>1. /\ delivered \in Seq(Nat) /\ next \in Nat /\ written \in Nat /\ lost \in Nat
          /\ s \in Nat /\ next <= s /\ s < written
      BY DEF Values
    <2>2. /\ delivered' = Append(delivered, s) /\ lost' = lost + (s - next)
          /\ next' = s + 1 /\ written' = written
      BY <1>2 DEF Diode!Get
    <2>3. /\ Len(delivered) \in Nat /\ Len(delivered') = Len(delivered) + 1
          /\ \A i \in 1 .. Len(delivered) : delivered'[i] = delivered[i] /\ delivered[i] \in Nat
          /\ delivered'[Len(delivered) + 1] = s
      BY <2>1, <2>2
    <2>4. /\ Len(delivered) + lost = next
          /\ \A i \in 1 .. Len(delivered) : delivered[i] < next
          /\ \A i, j \in 1 .. Len(delivered) : i < j => delivered[i] < delivered[j]
      BY DEF QueueInv
    <2>5. next' <= written' /\ Len(delivered') + lost' = next'
      BY <2>1, <2>2, <2>3, <2>4
    <2>6. \A i \in 1 .. Len(delivered) : delivered'[i] < s
      BY <2>1, <2>3, <2>4
    <2>7. \A i \in 1 .. Len(delivered') : delivered'[i] < next'
      BY <2>1, <2>2, <2>3, <2>6
    <2>8. ASSUME NEW i \in 1 .. Len(delivered'), NEW j \in 1 .. Len(delivered'), i < j
          PROVE  delivered'[i] < delivered'[j]
      <3>1. i \in 1 .. Len(delivered)
        BY <2>3, <2>8
      <3>2. CASE j \in 1 .. Len(delivered)
        BY <2>3, <2>4, <2>8, <3>1, <3>2
      <3>3. CASE j = Len(delivered) + 1
        BY <2>3, <2>6, <3>1, <3>3
      <3>. QED
        BY <2>3, <3>2, <3>3
    <2>. QED
      BY <2>5, <2>7, <2>8 DEF QueueInv
  <1>3. CASE UNCHANGED Diode!vars
    BY <1>3 DEF Diode!vars, QueueInv
  <1>. QED
    BY <1>1, <1>2, <1>3 DEF Diode!Next

(* From the Router to Send: what was passed to Send is in the order in which it *)
(* was published and without repetition; and of the envelopes published up to   *)
(* the last one that the handler took, each was passed to Send, is in the batch *)
(* or was reported as dropped.                                                  *)
EndToEnd ==
    /\ \A i, j \in 1 .. Len(sent) : i < j => sent[i] < sent[j]
    /\ next = Len(sent) + Len(batch) + lost
    /\ next <= written

(* For every buffer and batch size and any failures, a stream gets its         *)
(* envelopes in order and once, and each one it does not get is counted.       *)
THEOREM EndToEndHolds == StreamSpec => []EndToEnd
  <1>1. StreamInit => QueueInv
    BY DEF StreamInit, Diode!Init, QueueInv
  <1>2. StreamInv /\ QueueInv /\ [Diode!Next]_Diode!vars => QueueInv'
    BY QueueStep DEF StreamInv
  <1>3. ASSUME StreamInv, QueueInv
        PROVE  EndToEnd
    <2>1. sent \in Seq(Nat) /\ batch \in Seq(Nat) /\ lost \in Nat /\ delivered = sent \o batch
      BY <1>3 DEF StreamInv, Values, Conservation
    <2>2. /\ Len(sent) \in Nat /\ Len(batch) \in Nat
          /\ Len(delivered) = Len(sent) + Len(batch)
          /\ \A i \in 1 .. Len(sent) : delivered[i] = sent[i]
      BY <2>1
    <2>3. \A i \in 1 .. Len(sent) : i \in 1 .. Len(delivered)
      BY <2>2
    <2>4. \A i, j \in 1 .. Len(sent) : i < j => sent[i] < sent[j]
      BY <1>3, <2>2, <2>3 DEF QueueInv
    <2>. QED
      BY <1>3, <2>2, <2>4 DEF EndToEnd, QueueInv
  <1>. QED
    BY <1>1, <1>2, <1>3, StreamInvHolds, ImplementsDiode, PTL DEF StreamSpec, Diode!Spec

(* A batch writer that reports an error finds room in errStream: the loop      *)
(* looks at errStream before it takes the next envelope.                       *)
ReportNeverBlocks == pc = "report" => ~errStream

(* An error that nobody has received yet keeps the handler from TryNext. *)
ErrorInv == errStream => Batched /\ pc \in {"loop", "returned"}

(* Whatever fails, the handler of BatchSubscribe never waits in the report of  *)
(* an error (that of v2's BatchedReceiver may, see ReturnsIfCancelled).        *)
THEOREM ReportNeverBlocksHolds == StreamSpec => []ReportNeverBlocks
  <1>1. StreamInit => ErrorInv
    BY DEF StreamInit, ErrorInv
  <1>2. StreamInv /\ ErrorInv /\ [StreamNext]_streamVars => ErrorInv'
    BY Zenon DEF StreamInv, BatchInv, ErrorInv, StreamNext, streamVars, diodeVars, sendVars, Batched,
       Publish, Cancel, MonitorContext, Handler, Start, Poll, ReturnOnDone, ReturnOnError, Return,
       TryNextOk, TryNextMiss, FlushPartial, Send, SendOk, SendErr, BatchSendErr, Report
  <1>3. ErrorInv => ReportNeverBlocks
    BY DEF ErrorInv, ReportNeverBlocks
  <1>. QED
    BY <1>1, <1>2, <1>3, StreamInvHolds, PTL DEF StreamSpec
=============================================================================
