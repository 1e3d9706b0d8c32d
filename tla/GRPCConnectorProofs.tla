------------------------ MODULE GRPCConnectorProofs ------------------------
(***************************************************************************)
(* What holds of GRPCConnector for any number of routers, consumers, slots *)
(* and connections, and whatever the finder yields.                        *)
(***************************************************************************)
EXTENDS GRPCConnector, FiniteSetTheorems, TLAPS

-----------------------------------------------------------------------------
(* Names *)

(* What the names of clients and goroutines are made of. *)
LEMMA Names ==
    /\ \A cl \in Clients : cl.uri \in Dopplers /\ cl.gen \in Gens /\ cl.uri \in FinderEvents[cl.gen]
    /\ \A cl, cm \in Clients : cl.uri = cm.uri /\ cl.gen = cm.gen => cl = cm
    /\ \A g \in Goroutines : g.by \in {"subscribe", "finder"} /\ g.cs \in Consumers /\ g.client \in Clients
    /\ \A g, h \in Goroutines : g.by = h.by /\ g.cs = h.cs /\ g.client = h.client => g = h
  BY DEF Clients, Goroutines

(* The clients that an event creates are named by it. *)
LEMMA NewClients ==
    ASSUME NEW e \in Gens, NEW U \in SUBSET FinderEvents[e]
    PROVE  /\ [uri : U, gen : {e}] \subseteq Clients
           /\ \A cl \in [uri : U, gen : {e}] : cl.uri \in U /\ cl.gen = e
  <1>1. FinderEvents[e] \subseteq Dopplers
    BY ConnectorAssumption DEF Gens
  <1>. QED
    BY <1>1 DEF Clients

-----------------------------------------------------------------------------
(* Types *)

(* TypeOK without the sign of the reference counts, which RefCountExact gives. *)
TypeInv ==
    /\ evt \in 0 .. Len(FinderEvents)
    /\ clients \subseteq Clients
    /\ disconnect \in [Clients -> BOOLEAN]
    /\ refCount \in [Clients -> Int]
    /\ pool \in [Dopplers -> 0 .. Len(FinderEvents)]
    /\ conn \in [Clients -> [ConnIndices -> {"none", "dialing", "open", "closed", "late"}]]
    /\ consumerStates \in [SlotIndices -> Consumers \cup {Nil}]
    /\ spc \in [Consumers -> {"idle", "scan", "cas", "spawn", "recv", "rejected"}]
    /\ slot \in [Consumers -> 1 .. MaxConnections + 1]
    /\ loaded \in [Consumers -> Consumers \cup {Nil}]
    /\ ctxDone \in [Consumers -> BOOLEAN]
    /\ dead \in [Consumers -> BOOLEAN]
    /\ dopplers \in [Consumers -> SUBSET Dopplers]
    /\ gpc \in [Goroutines -> Started \cup {"none", "spawned", "finished"}]
    /\ tried \in [Goroutines -> BOOLEAN]

(* A scan that has found a slot is at a slot. *)
ScanInv == \A c \in Consumers : spc[c] = "cas" => slot[c] \in SlotIndices

(* The types hold at first. *)
LEMMA InitTypeInv == Init => TypeInv /\ ScanInv
  <1>. SUFFICES ASSUME Init PROVE TypeInv /\ ScanInv
    OBVIOUS
  <1>1. Len(FinderEvents) \in Nat /\ MaxConnections \in Nat \ {0}
    BY ConnectorAssumption
  <1>2. /\ evt \in 0 .. Len(FinderEvents)
        /\ refCount \in [Clients -> Int]
        /\ pool \in [Dopplers -> 0 .. Len(FinderEvents)]
        /\ slot \in [Consumers -> 1 .. MaxConnections + 1]
    BY <1>1 DEF Init
  <1>3. /\ disconnect \in [Clients -> BOOLEAN]
        /\ ctxDone \in [Consumers -> BOOLEAN]
        /\ dead \in [Consumers -> BOOLEAN]
        /\ tried \in [Goroutines -> BOOLEAN]
    BY DEF Init
  <1>. QED
    BY <1>2, <1>3 DEF Init, TypeInv, ScanInv

(* A membership is a Boolean. *)
LEMMA IsBoolean == ASSUME NEW x, NEW S PROVE (x \in S) \in BOOLEAN
  OBVIOUS

(* The finder's event. *)
LEMMA FinderTypes == TypeInv /\ ScanInv /\ HandleFinderEvent => TypeInv' /\ ScanInv'
  <1>. SUFFICES ASSUME TypeInv, ScanInv, HandleFinderEvent PROVE TypeInv' /\ ScanInv'
    OBVIOUS
  <1>. DEFINE uris == FinderEvents[evt']
              new == [uri : NewUris(uris), gen : {evt'}]
              closing == {cl \in DeadClients(uris) : refCount[cl] = 0}
  <1>1. evt' \in Gens /\ evt' \in 0 .. Len(FinderEvents)
    BY ConnectorAssumption DEF TypeInv, HandleFinderEvent, Gens
  <1>2. new \subseteq Clients
    BY <1>1, NewClients DEF NewUris
  <1>3. clients' \subseteq Clients
    BY <1>2 DEF TypeInv, HandleFinderEvent
  <1>4. disconnect' \in [Clients -> BOOLEAN]
    <2>1. disconnect' = [cl \in Clients |->
                            IF cl \in clients THEN cl \in DeadClients(uris) ELSE disconnect[cl]]
      BY DEF HandleFinderEvent
    <2>2. ASSUME NEW cl \in Clients
          PROVE  (IF cl \in clients THEN cl \in DeadClients(uris) ELSE disconnect[cl]) \in BOOLEAN
      <3>1. disconnect[cl] \in BOOLEAN
        BY Zenon DEF TypeInv
      <3>2. (cl \in DeadClients(uris)) \in BOOLEAN
        BY IsBoolean
      <3>. QED
        BY <3>1, <3>2, Zenon
    <2>. HIDE DEF uris
    <2>. QED
      BY <2>1, <2>2, Zenon
  <1>5. pool' \in [Dopplers -> 0 .. Len(FinderEvents)]
    BY <1>1, ConnectorAssumption DEF TypeInv, HandleFinderEvent
  <1>6. conn' \in [Clients -> [ConnIndices -> {"none", "dialing", "open", "closed", "late"}]]
    BY DEF TypeInv, HandleFinderEvent, RegisterDoppler, Close
  <1>7. gpc' \in [Goroutines -> Started \cup {"none", "spawned", "finished"}]
    BY DEF TypeInv, HandleFinderEvent
  <1>8. UNCHANGED <<refCount, dopplers, tried, subVars, ctxVars>>
    BY DEF HandleFinderEvent
  <1>. QED
    BY <1>1, <1>3, <1>4, <1>5, <1>6, <1>7, <1>8 DEF TypeInv, ScanInv, subVars, ctxVars

(* A step of a consumer. *)
LEMMA ConsumerTypes ==
    ASSUME TypeInv, ScanInv, NEW c \in Consumers,
           CallSubscribe(c) \/ Subscribing(c) \/ Cancel(c) \/ MarkDead(c)
    PROVE  TypeInv' /\ ScanInv'
  <1>. USE ConnectorAssumption DEF SlotIndices
  <1>1. CASE CallSubscribe(c)
    BY <1>1 DEF TypeInv, ScanInv, CallSubscribe, clientVars, ctxVars, goVars
  <1>2. CASE ScanSlot(c)
    <2>1. UNCHANGED <<clientVars, consumerStates, ctxVars, goVars>>
      BY <1>2 DEF ScanSlot
    <2>2. spc' \in [Consumers -> {"idle", "scan", "cas", "spawn", "recv", "rejected"}]
      BY <1>2 DEF TypeInv, ScanSlot
    <2>3. slot' \in [Consumers -> 1 .. MaxConnections + 1]
      <3>1. slot[c] <= MaxConnections => slot[c] + 1 \in 1 .. MaxConnections + 1
        BY DEF TypeInv
      <3>. QED
        BY <1>2, <3>1 DEF TypeInv, ScanSlot
    <2>4. loaded' \in [Consumers -> Consumers \cup {Nil}]
      <3>1. slot[c] <= MaxConnections => consumerStates[slot[c]] \in Consumers \cup {Nil}
        BY DEF TypeInv
      <3>. QED
        BY <1>2, <3>1 DEF TypeInv, ScanSlot
    <2>5. ScanInv'
      <3>. SUFFICES ASSUME NEW d \in Consumers, spc'[d] = "cas" PROVE slot'[d] \in SlotIndices
        BY DEF ScanInv
      <3>1. CASE d # c
        BY <1>2, <3>1 DEF TypeInv, ScanInv, ScanSlot
      <3>2. CASE d = c
        <4>1. slot[c] <= MaxConnections /\ UNCHANGED slot
          BY <1>2, <3>2 DEF TypeInv, ScanSlot
        <4>. QED
          BY <3>2, <4>1 DEF TypeInv
      <3>. QED
        BY <3>1, <3>2
    <2>. QED
      BY <2>1, <2>2, <2>3, <2>4, <2>5 DEF TypeInv, clientVars, ctxVars, goVars
  <1>3. CASE CasSlot(c)
    <2>1. UNCHANGED <<clientVars, loaded, ctxVars, goVars>>
      BY <1>3 DEF CasSlot
    <2>2. spc' \in [Consumers -> {"idle", "scan", "cas", "spawn", "recv", "rejected"}]
      BY <1>3 DEF TypeInv, CasSlot
    <2>3. slot' \in [Consumers -> 1 .. MaxConnections + 1]
      <3>1. slot[c] + 1 \in 1 .. MaxConnections + 1
        BY <1>3 DEF ScanInv, CasSlot
      <3>. QED
        BY <1>3, <3>1 DEF TypeInv, CasSlot
    <2>4. consumerStates' \in [SlotIndices -> Consumers \cup {Nil}]
      BY <1>3 DEF TypeInv, CasSlot
    <2>5. ScanInv'
      BY <1>3 DEF TypeInv, ScanInv, CasSlot
    <2>. QED
      BY <2>1, <2>2, <2>3, <2>4, <2>5 DEF TypeInv, clientVars, ctxVars, goVars
  <1>4. CASE SpawnAll(c)
    BY <1>4 DEF TypeInv, ScanInv, SpawnAll, clientVars, ctxVars, goVars
  <1>5. CASE Cancel(c)
    <2>1. ctxDone' \in [Consumers -> BOOLEAN]
      BY <1>5, Zenon DEF TypeInv, Cancel
    <2>. QED
      BY <1>5, <2>1 DEF TypeInv, ScanInv, Cancel, clientVars, subVars, goVars
  <1>6. CASE MarkDead(c)
    <2>1. dead' \in [Consumers -> BOOLEAN]
      BY <1>6, Zenon DEF TypeInv, MarkDead
    <2>. QED
      BY <1>6, <2>1 DEF TypeInv, ScanInv, MarkDead, clientVars, subVars, goVars
  <1>. QED
    BY <1>1, <1>2, <1>3, <1>4, <1>5, <1>6 DEF Subscribing

(* A step of a goroutine, or of one that dials. *)
LEMMA GoroutineTypes ==
    ASSUME TypeInv, ScanInv, NEW g \in Goroutines, Running(g) \/ StreamEnds(g)
    PROVE  TypeInv' /\ ScanInv'
  <1>. USE Names DEF Started, Counted, clientVars, subVars, ctxVars
  <1>1. CASE TryAddDoppler(g)
    <2>1. dopplers' \in [Consumers -> SUBSET Dopplers]
      BY <1>1 DEF TypeInv, TryAddDoppler
    <2>2. gpc' \in [Goroutines -> Started \cup {"none", "spawned", "finished"}]
      BY <1>1 DEF TypeInv, TryAddDoppler
    <2>. QED
      BY <1>1, <2>1, <2>2 DEF TypeInv, ScanInv, TryAddDoppler
  <1>2. CASE CountReference(g)
    BY <1>2 DEF TypeInv, ScanInv, CountReference
  <1>3. CASE CheckLoop(g)
    BY <1>3 DEF TypeInv, ScanInv, CheckLoop
  <1>4. CASE SubscribeOk(g) \/ SubscribeErr(g) \/ StreamEnds(g)
    BY <1>4 DEF TypeInv, ScanInv, SubscribeOk, SubscribeErr, StreamEnds
  <1>5. CASE Exit(g)
    <2>1. UNCHANGED <<evt, disconnect, subVars, ctxVars, tried>>
      BY <1>5 DEF Exit
    <2>2. clients' \subseteq Clients
      BY <1>5 DEF TypeInv, Exit
    <2>3. refCount' \in [Clients -> Int]
      BY <1>5 DEF TypeInv, Exit
    <2>4. pool' \in [Dopplers -> 0 .. Len(FinderEvents)]
      BY <1>5, ConnectorAssumption DEF TypeInv, Exit
    <2>5. conn' \in [Clients -> [ConnIndices -> {"none", "dialing", "open", "closed", "late"}]]
      BY <1>5 DEF TypeInv, Exit, Close
    <2>6. dopplers' \in [Consumers -> SUBSET Dopplers]
      BY <1>5 DEF TypeInv, Exit
    <2>7. gpc' \in [Goroutines -> Started \cup {"none", "spawned", "finished"}]
      BY <1>5 DEF TypeInv, Exit
    <2>. QED
      BY <2>1, <2>2, <2>3, <2>4, <2>5, <2>6, <2>7 DEF TypeInv, ScanInv
  <1>. QED
    BY <1>1, <1>2, <1>3, <1>4, <1>5 DEF Running

(* A pool that dials in the background. *)
LEMMA DialTypes ==
    ASSUME TypeInv, ScanInv, NEW cl \in Clients, NEW i \in ConnIndices, ConnectToDoppler(cl, i)
    PROVE  TypeInv' /\ ScanInv'
  BY DEF TypeInv, ScanInv, ConnectToDoppler, subVars, ctxVars, goVars

(* A step that changes nothing. *)
LEMMA StutterTypes == TypeInv /\ ScanInv /\ UNCHANGED vars => TypeInv' /\ ScanInv'
  BY DEF TypeInv, ScanInv, vars, clientVars, subVars, ctxVars, goVars

(* Every variable keeps its type. *)
THEOREM TypesHold == Spec => [](TypeInv /\ ScanInv)
  <1>1. TypeInv /\ ScanInv /\ [Next]_vars => TypeInv' /\ ScanInv'
    BY FinderTypes, ConsumerTypes, GoroutineTypes, DialTypes, StutterTypes DEF Next
  <1>. QED
    BY <1>1, InitTypeInv, PTL DEF Spec
-----------------------------------------------------------------------------
(* One stream per doppler *)

(* A goroutine that got past tryAddDoppler has its address in the consumer's *)
(* map until its deferred function takes it out.                             *)
StreamInv == \A g \in Goroutines : gpc[g] \in Started => g.client.uri \in dopplers[g.cs]

(* Only tryAddDoppler and the deferred function change a consumer's map, and *)
(* only the former lets a goroutine past.                                    *)
LEMMA StartedSteps ==
    ASSUME TypeInv, [Next]_vars
    PROVE  \/ \E g \in Goroutines : TryAddDoppler(g) \/ Exit(g)
           \/ /\ UNCHANGED dopplers
              /\ \A g \in Goroutines : gpc'[g] \in Started => gpc[g] \in Started
  <1>. USE DEF Started, Counted
  <1>1. CASE HandleFinderEvent
    BY <1>1 DEF TypeInv, HandleFinderEvent
  <1>2. ASSUME NEW cl \in Clients, NEW i \in ConnIndices, ConnectToDoppler(cl, i)
        PROVE  UNCHANGED goVars
    BY <1>2 DEF ConnectToDoppler
  <1>3. ASSUME NEW c \in Consumers,
               CallSubscribe(c) \/ ScanSlot(c) \/ CasSlot(c) \/ Cancel(c) \/ MarkDead(c)
        PROVE  UNCHANGED goVars
    BY <1>3 DEF CallSubscribe, ScanSlot, CasSlot, Cancel, MarkDead
  <1>4. ASSUME NEW c \in Consumers, SpawnAll(c)
        PROVE  /\ UNCHANGED dopplers
               /\ \A g \in Goroutines : gpc'[g] \in Started => gpc[g] \in Started
    BY <1>4 DEF TypeInv, SpawnAll
  <1>5. ASSUME NEW g \in Goroutines,
               CountReference(g) \/ SubscribeOk(g) \/ SubscribeErr(g) \/ StreamEnds(g)
        PROVE  /\ UNCHANGED dopplers
               /\ \A h \in Goroutines : gpc'[h] \in Started => gpc[h] \in Started
    BY <1>5 DEF TypeInv, CountReference, SubscribeOk, SubscribeErr, StreamEnds
  <1>6. ASSUME NEW g \in Goroutines, CheckLoop(g)
        PROVE  /\ UNCHANGED dopplers
               /\ \A h \in Goroutines : gpc'[h] \in Started => gpc[h] \in Started
    <2>1. UNCHANGED dopplers /\ gpc[g] = "check"
      BY <1>6 DEF CheckLoop
    <2>2. \A h \in Goroutines \ {g} : gpc'[h] = gpc[h]
      BY <1>6 DEF TypeInv, CheckLoop
    <2>. QED
      BY <2>1, <2>2
  <1>7. UNCHANGED goVars => UNCHANGED dopplers /\ UNCHANGED gpc
    BY DEF goVars
  <1>8. CASE UNCHANGED vars
    BY <1>8 DEF vars, goVars
  <1>. QED
    BY <1>1, <1>2, <1>3, <1>4, <1>5, <1>6, <1>7, <1>8 DEF Next, Subscribing, Running

(* tryAddDoppler keeps both invariants. *)
LEMMA TryAddDopplerStreams ==
    ASSUME TypeInv, StreamInv, OneStreamPerDoppler, NEW g \in Goroutines, TryAddDoppler(g)
    PROVE  StreamInv' /\ OneStreamPerDoppler'
  <1>. USE Names DEF Started, Counted
  <1>1. CASE g.client.uri \in dopplers[g.cs]
    <2>1. UNCHANGED dopplers /\ \A h \in Goroutines : gpc'[h] \in Started => gpc[h] \in Started
      BY <1>1 DEF TypeInv, TryAddDoppler
    <2>. QED
      BY <2>1 DEF StreamInv, OneStreamPerDoppler
  <1>2. CASE g.client.uri \notin dopplers[g.cs]
    <2>1. \A h \in Goroutines \ {g} : gpc'[h] = gpc[h]
      BY <1>2 DEF TypeInv, TryAddDoppler
    <2>2. /\ \A c \in Consumers : dopplers[c] \subseteq dopplers'[c]
          /\ g.client.uri \in dopplers'[g.cs]
      <3>1. dopplers' = [dopplers EXCEPT ![g.cs] = dopplers[g.cs] \cup {g.client.uri}]
        BY <1>2 DEF TryAddDoppler
      <3>. QED
        BY <3>1 DEF TypeInv
    <2>3. StreamInv'
      BY <2>1, <2>2 DEF StreamInv
    <2>4. \A h \in Goroutines \ {g} :
              gpc'[h] \in Started => ~(g.cs = h.cs /\ g.client.uri = h.client.uri)
      BY <1>2, <2>1 DEF StreamInv
    <2>5. OneStreamPerDoppler'
      <3>. SUFFICES ASSUME NEW h \in Goroutines, NEW k \in Goroutines,
                           gpc'[h] \in Started, gpc'[k] \in Started,
                           h.cs = k.cs, h.client.uri = k.client.uri
                    PROVE  h = k
        BY DEF OneStreamPerDoppler
      <3>1. CASE h = g \/ k = g
        BY <2>4, <3>1
      <3>2. CASE h # g /\ k # g
        BY <2>1, <3>2 DEF OneStreamPerDoppler
      <3>. QED
        BY <3>1, <3>2
    <2>. QED
      BY <2>3, <2>5
  <1>. QED
    BY <1>1, <1>2

(* So does the deferred function. *)
LEMMA ExitStreams ==
    ASSUME TypeInv, StreamInv, OneStreamPerDoppler, NEW g \in Goroutines, Exit(g)
    PROVE  StreamInv' /\ OneStreamPerDoppler'
  <1>. USE Names DEF Started, Counted
  <1>1. gpc[g] = "exit" /\ gpc' = [gpc EXCEPT ![g] = "finished"]
    BY DEF Exit
  <1>2. dopplers' = [dopplers EXCEPT ![g.cs] = @ \ {g.client.uri}]
    BY DEF Exit
  <1>3. \A h \in Goroutines : gpc'[h] \in Started => gpc[h] \in Started /\ h # g
    BY <1>1 DEF TypeInv
  <1>4. ASSUME NEW h \in Goroutines, gpc'[h] \in Started
        PROVE  h.client.uri \in dopplers'[h.cs]
    <2>1. h.client.uri \in dopplers[h.cs] /\ ~(g.cs = h.cs /\ g.client.uri = h.client.uri)
      BY <1>1, <1>3, <1>4 DEF StreamInv, OneStreamPerDoppler
    <2>. QED
      BY <1>2, <2>1 DEF TypeInv
  <1>. QED
    BY <1>3, <1>4 DEF StreamInv, OneStreamPerDoppler

(* Every step keeps one stream per doppler. *)
LEMMA StreamsStep ==
    ASSUME TypeInv, StreamInv, OneStreamPerDoppler, [Next]_vars
    PROVE  StreamInv' /\ OneStreamPerDoppler'
  <1>1. CASE /\ UNCHANGED dopplers
             /\ \A g \in Goroutines : gpc'[g] \in Started => gpc[g] \in Started
    BY <1>1 DEF StreamInv, OneStreamPerDoppler
  <1>. QED
    BY <1>1, StartedSteps, TryAddDopplerStreams, ExitStreams

(* OneStreamPerDoppler: Subscribe and the finder may both start a goroutine   *)
(* for a client, and an old and a new client of an address may have           *)
(* goroutines at the same time; tryAddDoppler lets one of them past.          *)
THEOREM OneStreamPerDopplerHolds == Spec => []OneStreamPerDoppler
  <1>1. Init => StreamInv /\ OneStreamPerDoppler
    BY DEF Init, StreamInv, OneStreamPerDoppler, Started, Counted
  <1>. QED
    BY <1>1, TypesHold, StreamsStep, PTL DEF Spec
-----------------------------------------------------------------------------
(* Reference counts *)

(* A goroutine is started once: Subscribe's before the consumer receives, and *)
(* nobody's before the event that creates its client.                         *)
SpawnInv ==
    /\ \A g \in Goroutines : g.by = "subscribe" /\ spc[g.cs] # "recv" => gpc[g] = "none"
    /\ \A g \in Goroutines : g.client.gen > evt => gpc[g] = "none"
    /\ \A cl \in clients : cl.gen <= evt

(* Starting goroutines leaves those that run alone. *)
LEMMA FinderSpawns ==
    ASSUME TypeInv, SpawnInv, HandleFinderEvent, NEW g \in Goroutines
    PROVE  \/ gpc'[g] = gpc[g]
           \/ gpc[g] = "none" /\ gpc'[g] = "spawned" /\ g.by = "finder" /\ g.client.gen = evt'
  <1>. DEFINE new == [uri : NewUris(FinderEvents[evt']), gen : {evt'}]
  <1>1. gpc'[g] = IF g.by = "finder" /\ g.cs \in LiveStates /\ g.client \in new
                  THEN "spawned" ELSE gpc[g]
    BY DEF HandleFinderEvent
  <1>2. CASE g.by = "finder" /\ g.client \in new
    <2>1. g.client.gen = evt' /\ evt' > evt
      BY <1>2 DEF TypeInv, HandleFinderEvent
    <2>. QED
      BY <1>1, <1>2, <2>1 DEF SpawnInv
  <1>. QED
    BY <1>1, <1>2

(* Subscribe starts goroutines of its consumer's, which had not been *)
(* started.                                                          *)
LEMMA SubscribeSpawns ==
    ASSUME TypeInv, SpawnInv, NEW c \in Consumers, SpawnAll(c), NEW g \in Goroutines
    PROVE  \/ gpc'[g] = gpc[g]
           \/ /\ gpc[g] = "none" /\ gpc'[g] = "spawned"
              /\ g.by = "subscribe" /\ g.cs = c /\ g.client \in clients
  BY DEF SpawnAll, SpawnInv

(* The goroutines other than the one that runs stay where they are. *)
LEMMA OthersStay ==
    ASSUME TypeInv, NEW g \in Goroutines, Running(g) \/ StreamEnds(g)
    PROVE  /\ gpc[g] # "none"
           /\ \A h \in Goroutines \ {g} : gpc'[h] = gpc[h]
           /\ UNCHANGED <<evt, disconnect, subVars, ctxVars>>
           /\ clients' \subseteq clients
  <1>1. CASE TryAddDoppler(g)
    BY <1>1 DEF TypeInv, TryAddDoppler, clientVars
  <1>2. CASE CheckLoop(g)
    BY <1>2 DEF TypeInv, CheckLoop, clientVars
  <1>3. CASE CountReference(g) \/ SubscribeOk(g) \/ SubscribeErr(g) \/ StreamEnds(g)
    BY <1>3 DEF TypeInv, CountReference, SubscribeOk, SubscribeErr, StreamEnds, clientVars
  <1>4. CASE Exit(g)
    BY <1>4 DEF TypeInv, Exit
  <1>. QED
    BY <1>1, <1>2, <1>3, <1>4 DEF Running

(* No step starts a goroutine twice. *)
LEMMA SpawnStep == ASSUME TypeInv, SpawnInv, [Next]_vars PROVE SpawnInv'
  <1>. USE Names
  <1>1. CASE HandleFinderEvent
    <2>1. evt \in Int /\ evt' = evt + 1 /\ UNCHANGED spc
      BY <1>1, ConnectorAssumption DEF TypeInv, HandleFinderEvent, subVars
    <2>2. \A cl \in clients' : cl.gen <= evt'
      <3>1. \A cl \in clients' : cl \in clients \/ cl.gen = evt'
        BY <1>1 DEF HandleFinderEvent
      <3>2. \A cl \in clients : cl.gen \in Int
        BY DEF TypeInv, Gens
      <3>. QED
        BY <2>1, <3>1, <3>2 DEF SpawnInv
    <2>3. \A g \in Goroutines : g.client.gen \in Int
      BY DEF Gens
    <2>4. \A g \in Goroutines : g.client.gen > evt' => gpc'[g] = "none"
      BY <1>1, <2>1, <2>3, FinderSpawns DEF SpawnInv
    <2>5. \A g \in Goroutines : g.by = "subscribe" /\ spc'[g.cs] # "recv" => gpc'[g] = "none"
      BY <1>1, <2>1, FinderSpawns DEF SpawnInv
    <2>. QED
      BY <2>2, <2>4, <2>5 DEF SpawnInv
  <1>2. ASSUME NEW cl \in Clients, NEW i \in ConnIndices, ConnectToDoppler(cl, i)
        PROVE  SpawnInv'
    BY <1>2 DEF SpawnInv, ConnectToDoppler, subVars, goVars
  <1>3. ASSUME NEW c \in Consumers,
               CallSubscribe(c) \/ ScanSlot(c) \/ CasSlot(c) \/ Cancel(c) \/ MarkDead(c)
        PROVE  SpawnInv'
    <2>1. UNCHANGED <<evt, clients, gpc>>
      BY <1>3 DEF CallSubscribe, ScanSlot, CasSlot, Cancel, MarkDead, clientVars, goVars
    <2>2. \A d \in Consumers : spc'[d] # "recv" => spc[d] # "recv"
      <3>1. CASE CallSubscribe(c)
        BY <3>1 DEF TypeInv, CallSubscribe
      <3>2. CASE ScanSlot(c)
        BY <3>2 DEF TypeInv, ScanSlot
      <3>3. CASE CasSlot(c)
        BY <3>3 DEF TypeInv, CasSlot
      <3>4. CASE Cancel(c) \/ MarkDead(c)
        BY <3>4 DEF Cancel, MarkDead, subVars
      <3>. QED
        BY <1>3, <3>1, <3>2, <3>3, <3>4
    <2>. QED
      BY <2>1, <2>2 DEF SpawnInv
  <1>4. ASSUME NEW c \in Consumers, SpawnAll(c)
        PROVE  SpawnInv'
    <2>1. UNCHANGED <<evt, clients>> /\ spc'[c] = "recv"
      BY <1>4 DEF TypeInv, SpawnAll, clientVars
    <2>2. \A d \in Consumers \ {c} : spc'[d] = spc[d]
      BY <1>4 DEF TypeInv, SpawnAll
    <2>3. \A g \in Goroutines : g.by = "subscribe" /\ spc'[g.cs] # "recv" => gpc'[g] = "none"
      BY <1>4, <2>1, <2>2, SubscribeSpawns DEF SpawnInv
    <2>4. \A g \in Goroutines : g.client.gen > evt' => gpc'[g] = "none"
      <3>1. \A g \in Goroutines : g.client.gen > evt => g.client \notin clients
        BY ConnectorAssumption DEF SpawnInv, TypeInv, Gens
      <3>. QED
        BY <1>4, <2>1, <3>1, SubscribeSpawns DEF SpawnInv
    <2>. QED
      BY <2>1, <2>3, <2>4 DEF SpawnInv
  <1>5. ASSUME NEW g \in Goroutines, Running(g) \/ StreamEnds(g)
        PROVE  SpawnInv'
    <2>1. UNCHANGED <<evt, spc>> /\ clients' \subseteq clients
      BY <1>5, OthersStay DEF subVars
    <2>2. \A h \in Goroutines : gpc[h] = "none" => gpc'[h] = "none"
      BY <1>5, OthersStay
    <2>. QED
      BY <2>1, <2>2 DEF SpawnInv
  <1>6. CASE UNCHANGED vars
    BY <1>6 DEF SpawnInv, vars, clientVars, subVars, goVars
  <1>. QED
    BY <1>1, <1>2, <1>3, <1>4, <1>5, <1>6 DEF Next, Subscribing
(* The goroutines that hold a reference to a client. *)
Users(cl) == {g \in Goroutines : g.client = cl /\ gpc[g] \in Counted}

(* They are finitely many: two for a consumer. *)
LEMMA UsersFinite == ASSUME NEW cl \in Clients PROVE IsFiniteSet(Users(cl))
  <1>. DEFINE All == {g \in Goroutines : g.client = cl}
              Name == [g \in All |-> <<g.by, g.cs>>]
  <1>1. IsFiniteSet({"subscribe", "finder"} \X Consumers)
    <2>1. IsFiniteSet({"finder"})
      BY FS_Singleton
    <2>2. IsFiniteSet({"finder"} \cup {"subscribe"})
      BY <2>1, FS_AddElement
    <2>3. {"finder"} \cup {"subscribe"} = {"subscribe", "finder"}
      OBVIOUS
    <2>. QED
      BY <2>2, <2>3, FS_Product, ConnectorAssumption
  <1>2. Name \in Injection(All, {"subscribe", "finder"} \X Consumers)
    <2>1. Name \in [All -> {"subscribe", "finder"} \X Consumers]
      BY Names
    <2>2. \A g, h \in All : Name[g] = Name[h] => g = h
      BY Names
    <2>. QED
      BY <2>1, <2>2 DEF Injection, IsInjective
  <1>3. IsFiniteSet(All)
    BY <1>1, <1>2, FS_Injection
  <1>. QED
    BY <1>3, FS_Subset DEF Users

(* A reference is taken and given back one at a time. *)
LEMMA AddOne ==
    ASSUME NEW S, IsFiniteSet(S), NEW x, x \notin S
    PROVE  Cardinality(S \cup {x}) = Cardinality(S) + 1
  BY FS_AddElement

(* The count without one of the users. *)
LEMMA RemoveOne ==
    ASSUME NEW S, IsFiniteSet(S), NEW x \in S
    PROVE  Cardinality(S \ {x}) = Cardinality(S) - 1
  BY FS_RemoveElement

(* Only these two actions change a count, or who is counted. *)
LEMMA CountedSteps ==
    ASSUME TypeInv, SpawnInv, [Next]_vars
    PROVE  \/ \E g \in Goroutines : CountReference(g) \/ Exit(g)
           \/ /\ UNCHANGED refCount
              /\ \A g \in Goroutines : gpc'[g] \in Counted <=> gpc[g] \in Counted
  <1>. USE DEF Counted
  <1>1. CASE HandleFinderEvent
    <2>1. UNCHANGED refCount
      BY <1>1 DEF HandleFinderEvent
    <2>. QED
      BY <1>1, <2>1, FinderSpawns
  <1>2. ASSUME NEW cl \in Clients, NEW i \in ConnIndices, ConnectToDoppler(cl, i)
        PROVE  UNCHANGED goVars
    BY <1>2 DEF ConnectToDoppler
  <1>3. ASSUME NEW c \in Consumers,
               CallSubscribe(c) \/ ScanSlot(c) \/ CasSlot(c) \/ Cancel(c) \/ MarkDead(c)
        PROVE  UNCHANGED goVars
    BY <1>3 DEF CallSubscribe, ScanSlot, CasSlot, Cancel, MarkDead
  <1>4. ASSUME NEW c \in Consumers, SpawnAll(c)
        PROVE  /\ UNCHANGED refCount
               /\ \A g \in Goroutines : gpc'[g] \in Counted <=> gpc[g] \in Counted
    <2>1. UNCHANGED refCount
      BY <1>4 DEF SpawnAll
    <2>. QED
      BY <1>4, <2>1, SubscribeSpawns
  <1>5. ASSUME NEW g \in Goroutines,
               \/ TryAddDoppler(g) \/ CheckLoop(g)
               \/ SubscribeOk(g) \/ SubscribeErr(g) \/ StreamEnds(g)
        PROVE  /\ UNCHANGED refCount
               /\ \A h \in Goroutines : gpc'[h] \in Counted <=> gpc[h] \in Counted
    <2>1. UNCHANGED refCount
      BY <1>5 DEF TryAddDoppler, CheckLoop, SubscribeOk, SubscribeErr, StreamEnds
    <2>2. \A h \in Goroutines \ {g} : gpc'[h] = gpc[h]
      BY <1>5, OthersStay DEF Running
    <2>3. CASE TryAddDoppler(g)
      <3>1. gpc[g] = "spawned" /\ gpc'[g] \in {"count", "finished"}
        BY <2>3 DEF TypeInv, TryAddDoppler
      <3>. QED
        BY <2>1, <2>2, <3>1
    <2>4. CASE CheckLoop(g)
      <3>1. gpc[g] = "check" /\ gpc'[g] \in {"exit", "subscribe"}
        BY <2>4 DEF TypeInv, CheckLoop
      <3>. QED
        BY <2>1, <2>2, <3>1
    <2>5. CASE SubscribeOk(g) \/ SubscribeErr(g) \/ StreamEnds(g)
      <3>1. gpc[g] \in Counted /\ gpc'[g] \in Counted
        BY <2>5 DEF TypeInv, SubscribeOk, SubscribeErr, StreamEnds
      <3>. QED
        BY <2>1, <2>2, <3>1
    <2>. QED
      BY <1>5, <2>3, <2>4, <2>5
  <1>6. UNCHANGED goVars => UNCHANGED refCount /\ UNCHANGED gpc
    BY DEF goVars
  <1>7. CASE UNCHANGED vars
    BY <1>7 DEF vars, goVars
  <1>. QED
    BY <1>1, <1>2, <1>3, <1>4, <1>5, <1>6, <1>7 DEF Next, Subscribing, Running

(* A goroutine that counts itself. *)
LEMMA CountReferenceCounts ==
    ASSUME TypeInv, RefCountExact, NEW g \in Goroutines, CountReference(g)
    PROVE  RefCountExact'
  <1>. USE Names DEF Counted
  <1>. SUFFICES ASSUME NEW cl \in Clients PROVE refCount'[cl] = Cardinality(Users(cl)')
    BY DEF RefCountExact, Users
  <1>1. refCount[cl] = Cardinality(Users(cl)) /\ IsFiniteSet(Users(cl))
    BY UsersFinite DEF RefCountExact, Users
  <1>2. gpc[g] = "count" /\ gpc' = [gpc EXCEPT ![g] = "check"]
    BY DEF CountReference
  <1>3. CASE cl = g.client
    <2>1. Users(cl)' = Users(cl) \cup {g} /\ g \notin Users(cl)
      BY <1>2, <1>3 DEF TypeInv, Users
    <2>2. refCount'[cl] = refCount[cl] + 1
      BY <1>3 DEF TypeInv, CountReference
    <2>. QED
      BY <1>1, <2>1, <2>2, AddOne
  <1>4. CASE cl # g.client
    <2>1. Users(cl)' = Users(cl)
      BY <1>2, <1>4 DEF TypeInv, Users
    <2>2. refCount'[cl] = refCount[cl]
      BY <1>4 DEF TypeInv, CountReference
    <2>. QED
      BY <1>1, <2>1, <2>2
  <1>. QED
    BY <1>3, <1>4

(* The deferred function gives back the reference, if it was taken. *)
LEMMA ExitCounts ==
    ASSUME TypeInv, RefCountExact, NEW g \in Goroutines, Exit(g)
    PROVE  RefCountExact'
  <1>. USE Names DEF Counted
  <1>. SUFFICES ASSUME NEW cl \in Clients PROVE refCount'[cl] = Cardinality(Users(cl)')
    BY DEF RefCountExact, Users
  <1>1. refCount[cl] = Cardinality(Users(cl)) /\ IsFiniteSet(Users(cl))
    BY UsersFinite DEF RefCountExact, Users
  <1>2. gpc[g] = "exit" /\ gpc' = [gpc EXCEPT ![g] = "finished"]
    BY DEF Exit
  <1>3. refCount' = [refCount EXCEPT ![g.client] = refCount[g.client] - 1]
    BY DEF Exit
  <1>4. CASE cl = g.client
    <2>1. Users(cl)' = Users(cl) \ {g} /\ g \in Users(cl)
      BY <1>2, <1>4 DEF TypeInv, Users
    <2>. QED
      BY <1>1, <1>3, <1>4, <2>1, RemoveOne DEF TypeInv
  <1>5. CASE cl # g.client
    <2>1. Users(cl)' = Users(cl)
      BY <1>2, <1>5 DEF TypeInv, Users
    <2>. QED
      BY <1>1, <1>3, <1>5, <2>1 DEF TypeInv
  <1>. QED
    BY <1>4, <1>5

(* Every step keeps the reference counts exact. *)
LEMMA RefCountStep == ASSUME TypeInv, SpawnInv, RefCountExact, [Next]_vars PROVE RefCountExact'
  <1>1. CASE /\ UNCHANGED refCount
             /\ \A g \in Goroutines : gpc'[g] \in Counted <=> gpc[g] \in Counted
    <2>1. \A cl \in Clients : Users(cl)' = Users(cl)
      BY <1>1 DEF Users
    <2>. QED
      BY <1>1, <2>1 DEF RefCountExact, Users
  <1>. QED
    BY <1>1, CountedSteps, CountReferenceCounts, ExitCounts

(* SpawnInv: no goroutine is started twice. *)
THEOREM SpawnedOnce == Spec => []SpawnInv
  <1>1. Init => SpawnInv
    BY Names DEF Init, SpawnInv
  <1>. QED
    BY <1>1, TypesHold, SpawnStep, PTL DEF Spec

(* RefCountExact: a client's reference count is the number of goroutines that *)
(* use it, so that "== 0" in handleFinderEvent and "<= 0" in the deferred     *)
(* function mean that nobody does.                                            *)
THEOREM RefCountExactHolds == Spec => []RefCountExact
  <1>1. Init => RefCountExact
    <2>. SUFFICES ASSUME Init, NEW cl \in Clients PROVE refCount[cl] = Cardinality(Users(cl))
      BY DEF RefCountExact, Users
    <2>1. Users(cl) = {} /\ refCount[cl] = 0
      BY DEF Init, Users, Counted
    <2>. QED
      BY <2>1, FS_EmptySet
  <1>. QED
    BY <1>1, TypesHold, SpawnedOnce, RefCountStep, PTL DEF Spec

(* TypeOK: the variables keep their types and a count never goes negative.    *)
THEOREM TypeOKHolds == Spec => []TypeOK
  <1>1. TypeInv /\ RefCountExact => TypeOK
    <2>. SUFFICES ASSUME TypeInv, RefCountExact PROVE refCount \in [Clients -> Nat]
      BY DEF TypeInv, TypeOK
    <2>1. ASSUME NEW cl \in Clients PROVE refCount[cl] \in Nat
      BY UsersFinite, FS_CardinalityType DEF RefCountExact, Users
    <2>. QED
      BY <2>1 DEF TypeInv
  <1>. QED
    BY <1>1, TypesHold, RefCountExactHolds, PTL
(* A client is taken out of c.clients, and its connections are closed, only   *)
(* once no goroutine holds a reference to it.                                 *)
ClosedUnused == [][\A cl \in clients \ clients' : Users(cl)' = {}]_vars

(* No step removes a client that is in use. *)
LEMMA ClosedUnusedStep ==
    ASSUME TypeInv, SpawnInv, RefCountExact, [Next]_vars, NEW cl \in clients \ clients'
    PROVE  Users(cl)' = {}
  <1>. USE Names
  <1>1. cl \in Clients /\ IsFiniteSet(Users(cl)) /\ refCount[cl] = Cardinality(Users(cl))
    BY UsersFinite DEF TypeInv, RefCountExact, Users
  <1>2. CASE HandleFinderEvent
    <2>1. refCount[cl] = 0
      BY <1>2 DEF HandleFinderEvent
    <2>2. Users(cl) = {}
      BY <1>1, <2>1, FS_EmptySet
    <2>3. \A g \in Goroutines : gpc'[g] \in Counted => gpc[g] \in Counted
      BY <1>2, FinderSpawns DEF Counted
    <2>. QED
      BY <2>2, <2>3 DEF Users
  <1>3. ASSUME NEW g \in Goroutines, Exit(g)
        PROVE  Users(cl)' = {}
    <2>1. gpc[g] = "exit" /\ gpc' = [gpc EXCEPT ![g] = "finished"]
      BY <1>3 DEF Exit
    <2>2. cl = g.client /\ refCount[cl] - 1 <= 0
      BY <1>3 DEF Exit
    <2>3. Users(cl)' = Users(cl) \ {g} /\ g \in Users(cl)
      BY <2>1, <2>2 DEF TypeInv, Users, Counted
    <2>4. Cardinality(Users(cl) \ {g}) = Cardinality(Users(cl)) - 1
      BY <1>1, <2>3, RemoveOne
    <2>5. IsFiniteSet(Users(cl) \ {g}) /\ Cardinality(Users(cl) \ {g}) \in Nat
      BY <1>1, FS_RemoveElement, FS_CardinalityType
    <2>6. Cardinality(Users(cl) \ {g}) = 0
      BY <1>1, <2>2, <2>4, <2>5 DEF TypeInv
    <2>. QED
      BY <2>3, <2>5, <2>6, FS_EmptySet
  <1>4. CASE UNCHANGED clients
    BY <1>4
  <1>5. HandleFinderEvent \/ (\E g \in Goroutines : Exit(g)) \/ UNCHANGED clients
    BY DEF Next, Subscribing, Running, ConnectToDoppler, CallSubscribe, ScanSlot, CasSlot, SpawnAll,
           Cancel, MarkDead, TryAddDoppler, CountReference, CheckLoop, SubscribeOk, SubscribeErr,
           StreamEnds, vars, clientVars
  <1>. QED
    BY <1>2, <1>3, <1>4, <1>5

(* ClosedUnused: neither handleFinderEvent nor the deferred function closes a *)
(* client under a goroutine that has counted itself.                          *)
THEOREM ClosedUnusedHolds == Spec => ClosedUnused
  <1>1. TypeInv /\ SpawnInv /\ RefCountExact /\ [Next]_vars
            => [\A cl \in clients \ clients' : Users(cl)' = {}]_vars
    BY ClosedUnusedStep
  <1>. QED
    BY <1>1, TypesHold, SpawnedOnce, RefCountExactHolds, PTL DEF Spec, ClosedUnused

-----------------------------------------------------------------------------
(* Slots *)

(* A slot about to be taken was loaded as empty or as a dead consumer's. *)
CasInv == \A c \in Consumers : spc[c] = "cas" => Free(loaded[c])

(* No step takes the slot of a consumer that is not dead. *)
LEMMA SlotsStep ==
    ASSUME TypeInv, ScanInv, CasInv, LiveKeepsSlot, [Next]_vars
    PROVE  CasInv' /\ LiveKeepsSlot'
  <1>. USE DEF Free
  <1>1. ASSUME UNCHANGED <<consumerStates, loaded>>,
               \A c \in Consumers : dead[c] => dead'[c],
               \A c \in Consumers : spc'[c] = "cas" => spc[c] = "cas",
               \A c \in Consumers : spc'[c] \in {"spawn", "recv"} => spc[c] \in {"spawn", "recv"}
        PROVE  CasInv' /\ LiveKeepsSlot'
    <2>1. ASSUME NEW c \in Consumers, spc'[c] = "cas" PROVE loaded'[c] # Nil => dead'[loaded'[c]]
      <3>1. loaded[c] \in Consumers \cup {Nil} /\ (loaded[c] # Nil => dead[loaded[c]])
        BY <1>1, <2>1 DEF TypeInv, CasInv
      <3>. QED
        BY <1>1, <3>1
    <2>2. LiveKeepsSlot'
      BY <1>1 DEF LiveKeepsSlot
    <2>. QED
      BY <2>1, <2>2 DEF CasInv
  <1>2. ASSUME NEW c \in Consumers, CallSubscribe(c) \/ SpawnAll(c) \/ Cancel(c) \/ MarkDead(c)
        PROVE  CasInv' /\ LiveKeepsSlot'
    <2>1. UNCHANGED <<consumerStates, loaded>>
      BY <1>2 DEF CallSubscribe, SpawnAll, Cancel, MarkDead, subVars
    <2>2. \A d \in Consumers : dead[d] => dead'[d]
      BY <1>2 DEF TypeInv, CallSubscribe, SpawnAll, Cancel, MarkDead, ctxVars
    <2>3. \A d \in Consumers : /\ spc'[d] = "cas" => spc[d] = "cas"
                               /\ spc'[d] \in {"spawn", "recv"} => spc[d] \in {"spawn", "recv"}
      BY <1>2 DEF TypeInv, CallSubscribe, SpawnAll, Cancel, MarkDead, subVars
    <2>. QED
      BY <1>1, <2>1, <2>2, <2>3
  <1>3. ASSUME NEW c \in Consumers, ScanSlot(c)
        PROVE  CasInv' /\ LiveKeepsSlot'
    <2>1. UNCHANGED <<consumerStates, dead>>
      BY <1>3 DEF ScanSlot, ctxVars
    <2>2. /\ \A d \in Consumers \ {c} : spc'[d] = spc[d] /\ loaded'[d] = loaded[d]
          /\ spc'[c] \in {"scan", "cas", "rejected"}
      BY <1>3 DEF TypeInv, ScanSlot
    <2>3. spc'[c] = "cas" => Free(loaded'[c])
      BY <1>3 DEF TypeInv, ScanSlot
    <2>4. CasInv'
      BY <2>1, <2>2, <2>3 DEF CasInv
    <2>5. LiveKeepsSlot'
      BY <2>1, <2>2 DEF LiveKeepsSlot
    <2>. QED
      BY <2>4, <2>5
  <1>4. ASSUME NEW c \in Consumers, CasSlot(c)
        PROVE  CasInv' /\ LiveKeepsSlot'
    <2>1. UNCHANGED <<dead, loaded>>
      BY <1>4 DEF CasSlot, ctxVars
    <2>2. /\ \A d \in Consumers \ {c} : spc'[d] = spc[d]
          /\ spc'[c] \in {"spawn", "scan"}
      BY <1>4 DEF TypeInv, CasSlot
    <2>3. CasInv'
      BY <2>1, <2>2 DEF CasInv
    <2>4. CASE consumerStates[slot[c]] = loaded[c]
      <3>1. slot[c] \in SlotIndices /\ Free(loaded[c])
        BY <1>4 DEF CasSlot, ScanInv, CasInv
      <3>2. consumerStates' = [consumerStates EXCEPT ![slot[c]] = c]
        BY <1>4, <2>4 DEF CasSlot
      <3>3. \E i \in SlotIndices : consumerStates'[i] = c
        BY <3>1, <3>2 DEF TypeInv
      <3>4. ASSUME NEW d \in Consumers \ {c}, spc'[d] \in {"spawn", "recv"}, ~dead'[d]
            PROVE  \E i \in SlotIndices : consumerStates'[i] = d
        <4>1. PICK i \in SlotIndices : consumerStates[i] = d
          BY <2>1, <2>2, <3>4 DEF LiveKeepsSlot
        <4>2. i # slot[c]
          BY <2>1, <2>4, <3>1, <3>4, <4>1, ConnectorAssumption
        <4>. QED
          BY <3>1, <3>2, <4>1, <4>2 DEF TypeInv
      <3>. QED
        BY <2>3, <3>3, <3>4 DEF LiveKeepsSlot
    <2>5. CASE consumerStates[slot[c]] # loaded[c]
      <3>1. UNCHANGED consumerStates /\ spc'[c] = "scan"
        BY <1>4, <2>5 DEF TypeInv, CasSlot
      <3>. QED
        BY <2>1, <2>2, <2>3, <3>1 DEF LiveKeepsSlot
    <2>. QED
      BY <2>4, <2>5
  <1>5. CASE UNCHANGED <<subVars, ctxVars>>
    BY <1>1, <1>5 DEF subVars, ctxVars
  <1>6. \/ UNCHANGED <<subVars, ctxVars>>
        \/ \E c \in Consumers : CallSubscribe(c) \/ Subscribing(c) \/ Cancel(c) \/ MarkDead(c)
    BY DEF Next, Running, HandleFinderEvent, ConnectToDoppler, TryAddDoppler, CountReference, CheckLoop,
           SubscribeOk, SubscribeErr, StreamEnds, Exit, vars
  <1>. QED
    BY <1>2, <1>3, <1>4, <1>5, <1>6 DEF Subscribing

(* LiveKeepsSlot: a consumer that was admitted stays in consumerStates until  *)
(* it is dead, whoever else takes slots at the same time, because only the    *)
(* slot of a dead consumer is ever compared and swapped.                      *)
THEOREM LiveKeepsSlotHolds == Spec => []LiveKeepsSlot
  <1>1. Init => CasInv /\ LiveKeepsSlot
    BY DEF Init, CasInv, LiveKeepsSlot
  <1>. QED
    BY <1>1, TypesHold, SlotsStep, PTL DEF Spec
-----------------------------------------------------------------------------
(* No doppler forgotten.  Where NeverAdvertisedAgain is assumed, the finder    *)
(* never brings a withdrawn address back.                                      *)

(* A consumer is dead only when its context is done. *)
DeadInv == \A c \in Consumers : dead[c] => ctxDone[c]

(* Contexts, and what the finder knows, change in few actions. *)
LEMMA ContextSteps ==
    ASSUME TypeInv, [Next]_vars
    PROVE  \A c \in Consumers : (dead[c] => dead'[c]) /\ (ctxDone[c] => ctxDone'[c])
  <1>1. ASSUME NEW c \in Consumers, Cancel(c) \/ MarkDead(c), NEW d \in Consumers
        PROVE  (dead[d] => dead'[d]) /\ (ctxDone[d] => ctxDone'[d])
    BY <1>1 DEF TypeInv, Cancel, MarkDead
  <1>2. \/ \E c \in Consumers : Cancel(c) \/ MarkDead(c)
        \/ UNCHANGED ctxVars
    BY DEF Next, Subscribing, Running, HandleFinderEvent, ConnectToDoppler, CallSubscribe, ScanSlot,
           CasSlot, SpawnAll, TryAddDoppler, CountReference, CheckLoop, SubscribeOk, SubscribeErr,
           StreamEnds, Exit, vars
  <1>. QED
    BY <1>1, <1>2 DEF ctxVars

(* MarkDead waits for the context, and no context comes back. *)
LEMMA DeadStep == ASSUME TypeInv, DeadInv, [Next]_vars PROVE DeadInv'
  <1>1. ASSUME NEW c \in Consumers, Cancel(c)
        PROVE  DeadInv'
    BY <1>1 DEF TypeInv, DeadInv, Cancel
  <1>2. ASSUME NEW c \in Consumers, MarkDead(c)
        PROVE  DeadInv'
    BY <1>2 DEF TypeInv, DeadInv, MarkDead
  <1>3. \/ \E c \in Consumers : Cancel(c) \/ MarkDead(c)
        \/ UNCHANGED ctxVars
    BY DEF Next, Subscribing, Running, HandleFinderEvent, ConnectToDoppler, CallSubscribe, ScanSlot,
           CasSlot, SpawnAll, TryAddDoppler, CountReference, CheckLoop, SubscribeOk, SubscribeErr,
           StreamEnds, Exit, vars
  <1>. QED
    BY <1>1, <1>2, <1>3 DEF DeadInv, ctxVars

(* An address in a consumer's map is there for a goroutine that runs. *)
MapInv ==
    \A c \in Consumers : \A u \in dopplers[c] :
        \E g \in Goroutines : g.cs = c /\ g.client.uri = u /\ gpc[g] \in Started

(* A goroutine past tryAddDoppler goes on until its deferred function. *)
LEMMA StartedKept ==
    ASSUME TypeInv, SpawnInv, [Next]_vars
    PROVE  \/ \E g \in Goroutines : Exit(g)
           \/ \A g \in Goroutines : gpc[g] \in Started => gpc'[g] \in Started
  <1>. USE DEF Started, Counted
  <1>1. CASE HandleFinderEvent
    BY <1>1, FinderSpawns
  <1>2. ASSUME NEW c \in Consumers, SpawnAll(c)
        PROVE  \A g \in Goroutines : gpc[g] \in Started => gpc'[g] \in Started
    BY <1>2, SubscribeSpawns
  <1>3. ASSUME NEW g \in Goroutines,
               \/ TryAddDoppler(g) \/ CountReference(g) \/ CheckLoop(g)
               \/ SubscribeOk(g) \/ SubscribeErr(g) \/ StreamEnds(g)
        PROVE  \A h \in Goroutines : gpc[h] \in Started => gpc'[h] \in Started
    <2>1. \A h \in Goroutines \ {g} : gpc'[h] = gpc[h]
      BY <1>3, OthersStay DEF Running
    <2>2. CASE TryAddDoppler(g)
      BY <2>1, <2>2 DEF TryAddDoppler
    <2>3. CASE CheckLoop(g)
      <3>1. gpc'[g] \in {"exit", "subscribe"}
        BY <2>3 DEF TypeInv, CheckLoop
      <3>. QED
        BY <2>1, <3>1
    <2>4. CASE CountReference(g) \/ SubscribeOk(g) \/ SubscribeErr(g) \/ StreamEnds(g)
      <3>1. gpc'[g] \in {"check", "stream"}
        BY <2>4 DEF TypeInv, CountReference, SubscribeOk, SubscribeErr, StreamEnds
      <3>. QED
        BY <2>1, <3>1
    <2>. QED
      BY <1>3, <2>2, <2>3, <2>4
  <1>4. \/ HandleFinderEvent
        \/ \E c \in Consumers : SpawnAll(c)
        \/ \E g \in Goroutines : Running(g) \/ StreamEnds(g)
        \/ UNCHANGED gpc
    BY DEF Next, Subscribing, ConnectToDoppler, CallSubscribe, ScanSlot, CasSlot, Cancel, MarkDead,
           vars, goVars
  <1>. QED
    BY <1>1, <1>2, <1>3, <1>4 DEF Running

(* No step leaves an address in a map without its goroutine. *)
LEMMA MapStep == ASSUME TypeInv, SpawnInv, MapInv, [Next]_vars PROVE MapInv'
  <1>. USE Names DEF Started, Counted
  <1>1. ASSUME NEW g \in Goroutines, TryAddDoppler(g)
        PROVE  MapInv'
    <2>. SUFFICES ASSUME NEW c \in Consumers, NEW u \in dopplers'[c]
                  PROVE  \E h \in Goroutines : h.cs = c /\ h.client.uri = u /\ gpc'[h] \in Started
      BY DEF MapInv
    <2>1. gpc[g] = "spawned" /\ \A h \in Goroutines \ {g} : gpc'[h] = gpc[h]
      BY <1>1, OthersStay DEF TryAddDoppler, Running
    <2>2. CASE u \in dopplers[c]
      BY <2>1, <2>2 DEF MapInv
    <2>3. CASE u \notin dopplers[c]
      <3>1. c = g.cs /\ u = g.client.uri /\ gpc'[g] = "count"
        BY <1>1, <2>3 DEF TypeInv, TryAddDoppler
      <3>. QED
        BY <3>1
    <2>. QED
      BY <2>2, <2>3
  <1>2. ASSUME NEW g \in Goroutines, Exit(g)
        PROVE  MapInv'
    <2>1. \A h \in Goroutines \ {g} : gpc'[h] = gpc[h]
      BY <1>2, OthersStay DEF Running
    <2>2. \A c \in Consumers : dopplers'[c] = IF c = g.cs THEN dopplers[c] \ {g.client.uri} ELSE dopplers[c]
      <3>1. dopplers' = [dopplers EXCEPT ![g.cs] = dopplers[g.cs] \ {g.client.uri}]
        BY <1>2 DEF Exit
      <3>. QED
        BY <3>1 DEF TypeInv
    <2>3. ASSUME NEW c \in Consumers, NEW u \in dopplers'[c]
          PROVE  \E h \in Goroutines : h.cs = c /\ h.client.uri = u /\ gpc'[h] \in Started
      <3>1. u \in dopplers[c] /\ ~(c = g.cs /\ u = g.client.uri)
        BY <2>2
      <3>2. PICK h \in Goroutines : h.cs = c /\ h.client.uri = u /\ gpc[h] \in Started
        BY <3>1 DEF MapInv
      <3>3. gpc'[h] = gpc[h]
        BY <2>1, <3>1, <3>2
      <3>. QED
        BY <3>2, <3>3
    <2>. QED
      BY <2>3 DEF MapInv
  <1>3. CASE UNCHANGED dopplers /\ \A g \in Goroutines : gpc[g] \in Started => gpc'[g] \in Started
    BY <1>3 DEF MapInv
  <1>. QED
    BY <1>1, <1>2, <1>3, StartedSteps, StartedKept
(* A client to be disconnected is one whose address is not advertised now. *)
WithdrawnInv ==
    \A cl \in Clients : disconnect[cl] => cl.gen <= evt /\ cl.uri \notin FinderEvents[evt]

(* The next event does not bring back an address that is withdrawn. *)
LEMMA StaysWithdrawn ==
    ASSUME NeverAdvertisedAgain, TypeInv, HandleFinderEvent,
           NEW cl \in Clients, cl.gen <= evt, cl.uri \notin FinderEvents[evt]
    PROVE  cl.uri \notin FinderEvents[evt']
  <1>1. cl.gen \in Gens /\ cl.uri \in FinderEvents[cl.gen]
    BY Names
  <1>2. evt \in Gens /\ evt' \in Gens /\ evt < evt' /\ cl.gen < evt
    BY <1>1, ConnectorAssumption DEF TypeInv, HandleFinderEvent, Gens
  <1>. QED
    BY <1>1, <1>2 DEF NeverAdvertisedAgain

(* What the finder's event does to the flags. *)
LEMMA FinderFlags ==
    ASSUME HandleFinderEvent, NEW cl \in Clients
    PROVE  disconnect'[cl] <=> IF cl \in clients THEN cl.uri \notin FinderEvents[evt'] ELSE disconnect[cl]
  BY DEF HandleFinderEvent, DeadClients

(* Only the finder changes them. *)
LEMMA FinderSteps ==
    ASSUME [Next]_vars
    PROVE  HandleFinderEvent \/ UNCHANGED <<evt, disconnect>>
  BY DEF Next, Subscribing, Running, ConnectToDoppler, CallSubscribe, ScanSlot, CasSlot, SpawnAll, Cancel,
         MarkDead, TryAddDoppler, CountReference, CheckLoop, SubscribeOk, SubscribeErr, StreamEnds, Exit,
         vars, clientVars

(* A disconnect is not taken back. *)
LEMMA DisconnectKept ==
    ASSUME NeverAdvertisedAgain, TypeInv, WithdrawnInv, [Next]_vars, NEW cl \in Clients, disconnect[cl]
    PROVE  disconnect'[cl]
  <1>1. CASE HandleFinderEvent
    <2>1. cl.uri \notin FinderEvents[evt']
      BY <1>1, StaysWithdrawn DEF WithdrawnInv
    <2>. QED
      BY <1>1, <2>1, FinderFlags
  <1>. QED
    BY <1>1, FinderSteps

(* Every step keeps the disconnect flags to withdrawn addresses. *)
LEMMA WithdrawnStep ==
    ASSUME NeverAdvertisedAgain, TypeInv, SpawnInv, WithdrawnInv, [Next]_vars
    PROVE  WithdrawnInv'
  <1>1. CASE HandleFinderEvent
    <2>. SUFFICES ASSUME NEW cl \in Clients, disconnect'[cl]
                  PROVE  cl.gen <= evt' /\ cl.uri \notin FinderEvents[evt']
      BY DEF WithdrawnInv
    <2>1. evt \in Int /\ evt' = evt + 1 /\ cl.gen \in Int
      BY <1>1, Names, ConnectorAssumption DEF TypeInv, HandleFinderEvent, Gens
    <2>2. CASE cl \in clients
      BY <1>1, <2>1, <2>2, FinderFlags DEF SpawnInv
    <2>3. CASE cl \notin clients
      <3>1. cl.gen <= evt /\ cl.uri \notin FinderEvents[evt]
        BY <1>1, <2>3, FinderFlags DEF WithdrawnInv
      <3>. QED
        BY <1>1, <2>1, <3>1, StaysWithdrawn
    <2>. QED
      BY <2>2, <2>3
  <1>. QED
    BY <1>1, FinderSteps DEF WithdrawnInv

(* A goroutine that is about to leave still has its reason to. *)
ExitInv == \A g \in Goroutines : gpc[g] = "exit" => dead[g.cs] \/ disconnect[g.client]

(* No step takes back the reason a goroutine leaves for. *)
LEMMA ExitStep ==
    ASSUME NeverAdvertisedAgain, TypeInv, SpawnInv, WithdrawnInv, ExitInv, [Next]_vars
    PROVE  ExitInv'
  <1>. USE Names
  <1>. SUFFICES ASSUME NEW g \in Goroutines, gpc'[g] = "exit"
                PROVE  dead'[g.cs] \/ disconnect'[g.client]
    BY DEF ExitInv
  <1>. SUFFICES dead[g.cs] \/ disconnect[g.client]
    BY ContextSteps, DisconnectKept
  <1>1. CASE gpc[g] = "exit"
    BY <1>1 DEF ExitInv
  <1>2. CASE gpc[g] # "exit"
    <2>1. ~HandleFinderEvent
      BY <1>2, FinderSpawns
    <2>2. ASSUME NEW c \in Consumers PROVE ~SpawnAll(c)
      BY <1>2, SubscribeSpawns
    <2>3. ASSUME NEW h \in Goroutines, Running(h) \/ StreamEnds(h)
          PROVE  h = g
      BY <1>2, <2>3, OthersStay
    <2>4. CheckLoop(g)
      <3>1. Running(g) \/ StreamEnds(g)
        BY <1>2, <2>1, <2>2, <2>3 DEF Next, Subscribing, ConnectToDoppler, CallSubscribe, ScanSlot,
           CasSlot, Cancel, MarkDead, vars, goVars
      <3>2. ~TryAddDoppler(g)
        BY DEF TypeInv, TryAddDoppler
      <3>3. ~(CountReference(g) \/ SubscribeOk(g) \/ SubscribeErr(g) \/ StreamEnds(g) \/ Exit(g))
        BY DEF TypeInv, CountReference, SubscribeOk, SubscribeErr, StreamEnds, Exit
      <3>. QED
        BY <3>1, <3>2, <3>3 DEF Running
    <2>. QED
      BY <2>4 DEF TypeInv, CheckLoop
  <1>. QED
    BY <1>1, <1>2
(* A client that exists, or has existed. *)
Created(cl) == cl \in clients \/ \E g \in Goroutines : g.client = cl /\ gpc[g] # "none"

(* An address has had one client at most, and the client is gone only if the  *)
(* address is withdrawn.                                                      *)
CreatedInv ==
    /\ \A cl, cm \in Clients : Created(cl) /\ Created(cm) /\ cl.uri = cm.uri => cl = cm
    /\ \A cl \in Clients : Created(cl) /\ cl \notin clients =>
                              cl.gen <= evt /\ cl.uri \notin FinderEvents[evt]

(* An event creates clients only for addresses that have had none. *)
LEMMA FinderCreates ==
    ASSUME NeverAdvertisedAgain, TypeInv, SpawnInv, CreatedInv, HandleFinderEvent
    PROVE  CreatedInv'
  <1>. USE Names
  <1>. DEFINE new == [uri : NewUris(FinderEvents[evt']), gen : {evt'}]
  <1>1. evt \in Int /\ evt' = evt + 1 /\ \A cl \in Clients : cl.gen \in Int
    BY ConnectorAssumption DEF TypeInv, HandleFinderEvent, Gens
  <1>2. ASSUME NEW cl \in new
        PROVE  /\ cl.gen = evt'
               /\ cl.uri \in FinderEvents[evt']
               /\ \A cm \in clients : cm.uri # cl.uri
    BY DEF NewUris, Uris
  <1>3. /\ clients' \subseteq clients \cup new
        /\ new \subseteq clients'
        /\ \A cl \in clients \ clients' : cl.uri \notin FinderEvents[evt']
    <2>1. clients' = (clients \cup new) \ {cl \in DeadClients(FinderEvents[evt']) : refCount[cl] = 0}
      BY DEF HandleFinderEvent
    <2>. HIDE DEF new
    <2>. QED
      BY <1>2, <2>1 DEF DeadClients
  <1>4. ASSUME NEW cl \in Clients, Created(cl)'
        PROVE  Created(cl) \/ cl \in new
    <2>. HIDE DEF new
    <2>1. \A g \in Goroutines : gpc'[g] # gpc[g] => g.client \in new
      BY DEF TypeInv, HandleFinderEvent, new
    <2>. QED
      BY <1>3, <1>4, <2>1 DEF Created
  <1>. HIDE DEF new
  <1>5. ASSUME NEW cl \in Clients, Created(cl), cl \notin clients
        PROVE  cl.uri \notin FinderEvents[evt'] /\ cl.gen <= evt
    BY <1>5, StaysWithdrawn DEF CreatedInv
  <1>6. ASSUME NEW cl \in Clients, NEW cm \in new, Created(cl)
        PROVE  cl.uri # cm.uri
    BY <1>2, <1>5, <1>6
  <1>7. ASSUME NEW cl \in Clients, NEW cm \in Clients, Created(cl)', Created(cm)', cl.uri = cm.uri
        PROVE  cl = cm
    <2>1. CASE Created(cl) /\ Created(cm)
      BY <1>7, <2>1 DEF CreatedInv
    <2>2. CASE cl \in new /\ cm \in new
      BY <1>2, <1>7, <2>2
    <2>. QED
      BY <1>4, <1>6, <1>7, <2>1, <2>2
  <1>8. ASSUME NEW cl \in Clients, Created(cl)', cl \notin clients'
        PROVE  cl.gen <= evt' /\ cl.uri \notin FinderEvents[evt']
    <2>1. Created(cl)
      BY <1>3, <1>4, <1>8
    <2>2. CASE cl \in clients
      BY <1>1, <1>3, <1>8, <2>2 DEF SpawnInv
    <2>3. CASE cl \notin clients
      BY <1>1, <1>5, <2>1, <2>3
    <2>. QED
      BY <2>2, <2>3
  <1>. QED
    BY <1>7, <1>8 DEF CreatedInv

(* No step gives an address a second client. *)
LEMMA CreatedStep ==
    ASSUME NeverAdvertisedAgain, TypeInv, SpawnInv, WithdrawnInv, CreatedInv, [Next]_vars
    PROVE  CreatedInv'
  <1>. USE Names
  <1>1. ASSUME UNCHANGED evt,
               \A cl \in Clients : Created(cl)' => Created(cl),
               \A cl \in clients \ clients' : cl.gen <= evt /\ cl.uri \notin FinderEvents[evt]
        PROVE  CreatedInv'
    BY <1>1 DEF CreatedInv
  <1>2. ASSUME NEW c \in Consumers, SpawnAll(c)
        PROVE  CreatedInv'
    <2>1. UNCHANGED <<evt, clients>>
      BY <1>2 DEF SpawnAll, clientVars
    <2>2. \A g \in Goroutines : gpc'[g] = gpc[g] \/ g.client \in clients
      BY <1>2, SubscribeSpawns
    <2>3. \A cl \in Clients : Created(cl)' => Created(cl)
      BY <2>1, <2>2 DEF Created
    <2>. QED
      BY <1>1, <2>1, <2>3
  <1>3. ASSUME NEW g \in Goroutines, Running(g) \/ StreamEnds(g)
        PROVE  CreatedInv'
    <2>1. UNCHANGED evt /\ clients' \subseteq clients
      BY <1>3, OthersStay
    <2>2. \A h \in Goroutines : gpc'[h] # "none" => gpc[h] # "none"
      BY <1>3, OthersStay
    <2>3. \A cl \in Clients : Created(cl)' => Created(cl)
      BY <2>1, <2>2 DEF Created
    <2>4. \A cl \in clients \ clients' : disconnect[cl]
      BY <1>3 DEF Running, TryAddDoppler, CountReference, CheckLoop, SubscribeOk, SubscribeErr, StreamEnds,
                  Exit, clientVars
    <2>. QED
      BY <1>1, <2>1, <2>3, <2>4 DEF TypeInv, WithdrawnInv
  <1>4. CASE UNCHANGED <<evt, clients, gpc>>
    BY <1>1, <1>4 DEF Created
  <1>5. \/ HandleFinderEvent
        \/ \E c \in Consumers : SpawnAll(c)
        \/ \E g \in Goroutines : Running(g) \/ StreamEnds(g)
        \/ UNCHANGED <<evt, clients, gpc>>
    BY DEF Next, Subscribing, ConnectToDoppler, CallSubscribe, ScanSlot, CasSlot, Cancel, MarkDead,
           vars, clientVars, goVars
  <1>. QED
    BY <1>2, <1>3, <1>4, <1>5, FinderCreates
(* A consumer has a goroutine for an address. *)
Served(c, u) ==
    \E g \in Goroutines : g.cs = c /\ g.client.uri = u /\ gpc[g] \in Started \cup {"spawned"}

(* Starting more goroutines takes none away. *)
LEMMA FinderServes ==
    ASSUME NeverAdvertisedAgain, TypeInv, SpawnInv, WithdrawnInv, DeadInv, LiveKeepsSlot,
           NoDopplerForgotten, HandleFinderEvent, NEW c \in Consumers, NEW cl \in clients',
           spc'[c] = "recv", ~ctxDone'[c], ~disconnect'[cl]
    PROVE  Served(c, cl.uri)'
  <1>. DEFINE new == [uri : NewUris(FinderEvents[evt']), gen : {evt'}]
  <1>1. UNCHANGED <<spc, ctxDone, dead, consumerStates>>
    BY DEF HandleFinderEvent, subVars, ctxVars
  <1>2. evt' \in Gens
    BY ConnectorAssumption DEF TypeInv, HandleFinderEvent, Gens
  <1>3. new \subseteq Clients
    BY <1>2, NewClients DEF NewUris
  <1>4. CASE cl \in clients
    <2>1. ~disconnect[cl]
      BY <1>4, DisconnectKept DEF TypeInv, Next
    <2>2. PICK g \in Goroutines :
              g.cs = c /\ g.client.uri = cl.uri /\ gpc[g] \in Started \cup {"spawned"}
      BY <1>1, <1>4, <2>1 DEF NoDopplerForgotten
    <2>3. gpc'[g] \in Started \cup {"spawned"}
      BY <2>2, FinderSpawns
    <2>. QED
      BY <2>2, <2>3 DEF Served
  <1>5. CASE cl \in new
    <2>1. c \in LiveStates
      BY <1>1 DEF DeadInv, LiveKeepsSlot, LiveStates
    <2>. DEFINE g == [by |-> "finder", cs |-> c, client |-> cl]
    <2>2. g \in Goroutines
      BY <1>3, <1>5 DEF Goroutines
    <2>3. gpc'[g] = "spawned"
      <3>1. gpc' = [h \in Goroutines |->
                       IF h.by = "finder" /\ h.cs \in LiveStates /\ h.client \in new
                       THEN "spawned" ELSE gpc[h]]
        BY DEF HandleFinderEvent
      <3>. HIDE DEF new
      <3>. QED
        BY <1>5, <2>1, <2>2, <3>1
    <2>. QED
      BY <2>2, <2>3 DEF Served
  <1>6. cl \in clients \/ cl \in new
    BY DEF HandleFinderEvent
  <1>. QED
    BY <1>4, <1>5, <1>6

(* Subscribe starts a goroutine for every client there is. *)
LEMMA SubscribeServes ==
    ASSUME TypeInv, SpawnInv, NoDopplerForgotten, NEW d \in Consumers, SpawnAll(d),
           NEW c \in Consumers, NEW cl \in clients', spc'[c] = "recv", ~ctxDone'[c], ~disconnect'[cl]
    PROVE  Served(c, cl.uri)'
  <1>1. UNCHANGED <<ctxDone, disconnect, clients>>
    BY DEF SpawnAll, clientVars, ctxVars
  <1>2. CASE c = d
    <2>. DEFINE g == [by |-> "subscribe", cs |-> c, client |-> cl]
    <2>1. g \in Goroutines
      BY <1>1 DEF TypeInv, Goroutines
    <2>2. gpc'[g] = "spawned"
      BY <1>1, <1>2, <2>1 DEF SpawnAll
    <2>. QED
      BY <2>1, <2>2 DEF Served
  <1>3. CASE c # d
    <2>1. spc[c] = "recv"
      BY <1>3 DEF TypeInv, SpawnAll
    <2>2. PICK g \in Goroutines :
              g.cs = c /\ g.client.uri = cl.uri /\ gpc[g] \in Started \cup {"spawned"}
      BY <1>1, <2>1 DEF NoDopplerForgotten
    <2>3. gpc'[g] \in Started \cup {"spawned"}
      BY <2>2, SubscribeSpawns
    <2>. QED
      BY <2>2, <2>3 DEF Served
  <1>. QED
    BY <1>2, <1>3

(* A goroutine that leaves leaves nothing behind: another one serves the      *)
(* address, or the consumer is dead, or the client is to be disconnected.     *)
LEMMA GoroutineServes ==
    ASSUME TypeInv, SpawnInv, MapInv, DeadInv, ExitInv, CreatedInv, NoDopplerForgotten,
           NEW k \in Goroutines, Running(k) \/ StreamEnds(k),
           NEW c \in Consumers, NEW cl \in clients', spc'[c] = "recv", ~ctxDone'[c], ~disconnect'[cl]
    PROVE  Served(c, cl.uri)'
  <1>. USE Names DEF Started, Counted
  <1>1. UNCHANGED <<disconnect, spc, ctxDone, dead>> /\ cl \in clients /\ cl \in Clients
    BY OthersStay DEF subVars, ctxVars, TypeInv
  <1>2. \A h \in Goroutines \ {k} : gpc'[h] = gpc[h]
    BY OthersStay
  <1>3. PICK g \in Goroutines : g.cs = c /\ g.client.uri = cl.uri /\ gpc[g] \in Started \cup {"spawned"}
    BY <1>1 DEF NoDopplerForgotten
  <1>4. CASE g # k
    BY <1>2, <1>3, <1>4 DEF Served
  <1>5. CASE g = k
    <2>1. CASE TryAddDoppler(k)
      <3>1. CASE cl.uri \in dopplers[c]
        <4>1. PICK h \in Goroutines : h.cs = c /\ h.client.uri = cl.uri /\ gpc[h] \in Started
          BY <3>1 DEF MapInv
        <4>2. h # k
          BY <2>1, <4>1 DEF TryAddDoppler
        <4>. QED
          BY <1>2, <4>1, <4>2 DEF Served
      <3>2. CASE cl.uri \notin dopplers[c]
        <4>1. gpc'[k] = "count"
          BY <1>3, <1>5, <2>1, <3>2 DEF TypeInv, TryAddDoppler
        <4>. QED
          BY <1>3, <1>5, <4>1 DEF Served
      <3>. QED
        BY <3>1, <3>2
    <2>2. CASE Exit(k)
      <3>1. gpc[k] = "exit"
        BY <2>2 DEF Exit
      <3>2. disconnect[k.client]
        BY <1>1, <1>3, <1>5, <3>1 DEF DeadInv, ExitInv
      <3>3. k.client = cl
        BY <1>1, <1>3, <1>5, <3>1 DEF CreatedInv, Created
      <3>. QED
        BY <1>1, <3>2, <3>3
    <2>3. CASE ~TryAddDoppler(k) /\ ~Exit(k)
      <3>1. gpc'[k] \in Started
        <4>1. CASE CheckLoop(k)
          BY <4>1 DEF TypeInv, CheckLoop
        <4>2. CASE CountReference(k) \/ SubscribeOk(k) \/ SubscribeErr(k) \/ StreamEnds(k)
          BY <4>2 DEF TypeInv, CountReference, SubscribeOk, SubscribeErr, StreamEnds
        <4>. QED
          BY <2>3, <4>1, <4>2 DEF Running
      <3>. QED
        BY <1>3, <1>5, <3>1 DEF Served
    <2>. QED
      BY <2>1, <2>2, <2>3
  <1>. QED
    BY <1>4, <1>5

(* No step leaves a live consumer without a goroutine for a router. *)
LEMMA ForgottenStep ==
    ASSUME NeverAdvertisedAgain, TypeInv, SpawnInv, LiveKeepsSlot, MapInv, DeadInv, WithdrawnInv,
           ExitInv, CreatedInv, NoDopplerForgotten, [Next]_vars
    PROVE  NoDopplerForgotten'
  <1>. SUFFICES ASSUME NEW c \in Consumers, NEW cl \in clients',
                       spc'[c] = "recv", ~ctxDone'[c], ~disconnect'[cl]
                PROVE  Served(c, cl.uri)'
    BY DEF NoDopplerForgotten, Served
  <1>1. ASSUME NEW d \in Consumers,
               CallSubscribe(d) \/ ScanSlot(d) \/ CasSlot(d) \/ Cancel(d) \/ MarkDead(d)
        PROVE  Served(c, cl.uri)'
    <2>1. UNCHANGED <<clients, disconnect, gpc>>
      BY <1>1 DEF CallSubscribe, ScanSlot, CasSlot, Cancel, MarkDead, clientVars, goVars
    <2>2. spc[c] = "recv"
      <3>1. CASE CallSubscribe(d)
        BY <3>1 DEF TypeInv, CallSubscribe
      <3>2. CASE ScanSlot(d)
        BY <3>2 DEF TypeInv, ScanSlot
      <3>3. CASE CasSlot(d)
        BY <3>3 DEF TypeInv, CasSlot
      <3>4. CASE Cancel(d) \/ MarkDead(d)
        BY <3>4 DEF Cancel, MarkDead, subVars
      <3>. QED
        BY <1>1, <3>1, <3>2, <3>3, <3>4
    <2>3. ~ctxDone[c]
      BY ContextSteps
    <2>. QED
      BY <2>1, <2>2, <2>3 DEF NoDopplerForgotten, Served
  <1>2. CASE UNCHANGED <<clients, disconnect, gpc, spc, ctxDone>>
    BY <1>2 DEF NoDopplerForgotten, Served
  <1>3. \/ HandleFinderEvent
        \/ \E d \in Consumers : CallSubscribe(d) \/ Subscribing(d) \/ Cancel(d) \/ MarkDead(d)
        \/ \E g \in Goroutines : Running(g) \/ StreamEnds(g)
        \/ UNCHANGED <<clients, disconnect, gpc, spc, ctxDone>>
    BY DEF Next, ConnectToDoppler, vars, clientVars, subVars, ctxVars, goVars
  <1>. QED
    BY <1>1, <1>2, <1>3, FinderServes, SubscribeServes, GoroutineServes DEF Subscribing

(* NoDopplerForgotten: a live consumer has a goroutine for every client that   *)
(* is not to be disconnected, whichever of Subscribe and the finder came       *)
(* first, provided that the finder does not bring an address back.             *)
THEOREM NoDopplerForgottenHolds ==
    ASSUME NeverAdvertisedAgain
    PROVE  Spec => []NoDopplerForgotten
  <1>. DEFINE IInv == /\ DeadInv /\ MapInv /\ WithdrawnInv
                      /\ ExitInv /\ CreatedInv /\ NoDopplerForgotten
  <1>1. Init => IInv
    BY DEF Init, DeadInv, MapInv, WithdrawnInv, ExitInv, CreatedInv, Created, NoDopplerForgotten
  <1>2. IInv /\ TypeInv /\ SpawnInv /\ LiveKeepsSlot /\ [Next]_vars => IInv'
    BY DeadStep, MapStep, WithdrawnStep, ExitStep, CreatedStep, ForgottenStep
  <1>3. IInv => NoDopplerForgotten
    OBVIOUS
  <1>. QED
    BY <1>1, <1>2, <1>3, TypesHold, SpawnedOnce, LiveKeepsSlotHolds, PTL DEF Spec

-----------------------------------------------------------------------------
(* Connections *)

(* A registration is that of a client. *)
PoolInv == \A u \in Dopplers : pool[u] # 0 => \E cl \in clients : cl.uri = u /\ cl.gen = pool[u]

(* What is open is closed again: a connection that is open belongs to the      *)
(* registration of its address, a registration to a client, and a client that  *)
(* is to be disconnected is used by a goroutine, the last of which closes it.  *)
ConnectionsOwned ==
    /\ \A cl \in Clients, i \in ConnIndices :
         conn[cl][i] = "open" => cl \in clients /\ pool[cl.uri] = cl.gen
    /\ PoolInv
    /\ \A cl \in clients :
         disconnect[cl] => \E g \in Goroutines : g.client = cl /\ gpc[g] \in Counted

(* The same by the counts that the code tests; and a client is not marked      *)
(* before it exists.                                                           *)
OpenInv == \A cl \in Clients, i \in ConnIndices : conn[cl][i] = "open" => pool[cl.uri] = cl.gen
UsedInv == \A cl \in clients : disconnect[cl] => refCount[cl] > 0
MarkInv == \A cl \in Clients : cl.gen > evt => ~disconnect[cl]

OwnedInv == PoolInv /\ OpenInv /\ UsedInv /\ MarkInv

(* An event registers only addresses without a client, and closes the clients  *)
(* that nobody uses.                                                           *)
LEMMA FinderOwned ==
    ASSUME TypeOK, SpawnInv, OwnedInv, HandleFinderEvent
    PROVE  OwnedInv'
  <1>. USE Names
  <1>. DEFINE uris == FinderEvents[evt']
              new == [uri : NewUris(uris), gen : {evt'}]
              dying == DeadClients(uris)
              closing == {cl \in dying : refCount[cl] = 0}
  <1>1. evt \in Int /\ evt' = evt + 1 /\ evt' # 0 /\ evt' \in Gens /\ \A cl \in Clients : cl.gen \in Int
    BY ConnectorAssumption DEF TypeOK, HandleFinderEvent, Gens
  <1>2. /\ clients' = (clients \cup new) \ closing
        /\ \A cl \in Clients : disconnect'[cl] = IF cl \in clients THEN cl \in dying ELSE disconnect[cl]
        /\ \A u \in Dopplers : pool'[u] = IF u \in NewUris(uris) THEN evt'
                                          ELSE IF u \in Uris(closing) THEN 0 ELSE pool[u]
        /\ conn' = RegisterDoppler(new, Close(Uris(closing)))
        /\ refCount' = refCount
    BY DEF HandleFinderEvent
  <1>3. /\ \A cl \in new : cl.uri \in NewUris(uris) /\ cl.gen = evt'
        /\ \A u \in NewUris(uris) : [uri |-> u, gen |-> evt'] \in new
        /\ new \subseteq Clients
    <2>1. NewUris(uris) \in SUBSET FinderEvents[evt']
      BY DEF NewUris
    <2>. QED
      BY <1>1, <2>1, NewClients
  <1>4. /\ \A u \in NewUris(uris) : u \in uris /\ \A cl \in clients : cl.uri # u
        /\ \A cl \in closing : cl \in clients /\ cl.uri \notin uris /\ cl.uri \in Uris(closing)
        /\ clients \subseteq Clients
        /\ \A cl \in clients : cl \in dying <=> cl.uri \notin uris
    BY DEF NewUris, Uris, DeadClients, TypeOK
  <1>5. PoolInv'
    <2>. SUFFICES ASSUME NEW u \in Dopplers, pool'[u] # 0
                  PROVE  \E cl \in clients' : cl.uri = u /\ cl.gen = pool'[u]
      BY DEF PoolInv
    <2>1. CASE u \in NewUris(uris)
      <3>1. [uri |-> u, gen |-> evt'] \in new /\ [uri |-> u, gen |-> evt'] \notin closing
        <4>1. [uri |-> u, gen |-> evt'].uri = u
          OBVIOUS
        <4>. QED
          BY <1>3, <1>4, <2>1, <4>1
      <3>. QED
        BY <1>2, <2>1, <3>1
    <2>2. CASE u \notin NewUris(uris)
      <3>1. u \notin Uris(closing) /\ pool'[u] = pool[u]
        BY <1>2, <2>2
      <3>2. PICK cl \in clients : cl.uri = u /\ cl.gen = pool[u]
        BY <3>1 DEF OwnedInv, PoolInv
      <3>. HIDE DEF new, closing
      <3>3. cl \notin closing
        BY <1>4, <3>1, <3>2
      <3>. QED
        BY <1>2, <3>1, <3>2, <3>3
    <2>. QED
      BY <2>1, <2>2
  <1>. HIDE DEF new, dying, closing
  <1>6. OpenInv'
    <2>. SUFFICES ASSUME NEW cl \in Clients, NEW i \in ConnIndices, conn'[cl][i] = "open"
                  PROVE  pool'[cl.uri] = cl.gen
      BY DEF OpenInv
    <2>1. conn'[cl] = IF cl \in new THEN [j \in ConnIndices |-> "dialing"] ELSE Close(Uris(closing))[cl]
      BY <1>2 DEF RegisterDoppler
    <2>2. cl \notin new /\ Close(Uris(closing))[cl][i] = "open"
      BY <2>1
    <2>3. conn[cl][i] = "open" /\ ~(cl.uri \in Uris(closing) /\ pool[cl.uri] = cl.gen)
      BY <2>2 DEF Close
    <2>4. pool[cl.uri] = cl.gen /\ cl.gen # 0 /\ cl.uri \in Dopplers
      BY <2>3 DEF OwnedInv, OpenInv, Gens
    <2>5. cl.uri \notin NewUris(uris)
      BY <1>4, <2>4 DEF OwnedInv, PoolInv
    <2>. QED
      BY <1>2, <2>3, <2>4, <2>5
  <1>7. UsedInv'
    <2>. SUFFICES ASSUME NEW cl \in clients', disconnect'[cl]
                  PROVE  refCount'[cl] > 0
      BY DEF UsedInv
    <2>1. cl \in Clients /\ cl \notin closing
      BY <1>2, <1>3, <1>4
    <2>2. cl \in clients
      <3>1. ASSUME cl \notin clients PROVE FALSE
        <4>1. cl.gen > evt /\ disconnect[cl]
          BY <1>1, <1>2, <1>3, <2>1, <3>1
        <4>. QED
          BY <2>1, <4>1 DEF OwnedInv, MarkInv
      <3>. QED
        BY <3>1
    <2>3. refCount[cl] # 0 /\ refCount[cl] \in Nat
      BY <1>2, <2>1, <2>2 DEF closing, TypeOK
    <2>. QED
      BY <1>2, <2>3
  <1>8. MarkInv'
    <2>. SUFFICES ASSUME NEW cl \in Clients, cl.gen > evt'
                  PROVE  ~disconnect'[cl]
      BY DEF MarkInv
    <2>1. cl.gen > evt /\ ~(cl.gen <= evt)
      BY <1>1
    <2>. QED
      BY <1>2, <2>1 DEF OwnedInv, MarkInv, SpawnInv
  <1>. QED
    BY <1>5, <1>6, <1>7, <1>8 DEF OwnedInv

(* The last goroutine of a client to be disconnected closes it. *)
LEMMA ExitOwned ==
    ASSUME TypeOK, OwnedInv, NEW g \in Goroutines, Exit(g)
    PROVE  OwnedInv'
  <1>. USE Names
  <1>. DEFINE cl == g.client
  <1>1. /\ cl \in Clients /\ cl.uri \in Dopplers
        /\ refCount \in [Clients -> Nat] /\ pool \in [Dopplers -> 0 .. Len(FinderEvents)]
        /\ clients \subseteq Clients
    BY DEF TypeOK
  <1>2. refCount' = [refCount EXCEPT ![cl] = @ - 1] /\ UNCHANGED <<evt, disconnect>>
    BY DEF Exit
  <1>3. MarkInv'
    BY <1>2 DEF OwnedInv, MarkInv
  <1>4. CASE refCount[cl] - 1 <= 0 /\ disconnect[cl]
    <2>1. /\ pool' = [pool EXCEPT ![cl.uri] = 0]
          /\ conn' = Close({cl.uri})
          /\ clients' = clients \ {cl}
      BY <1>4 DEF Exit
    <2>. HIDE DEF cl
    <2>2. PoolInv'
      BY <1>1, <2>1 DEF OwnedInv, PoolInv
    <2>3. ASSUME NEW cm \in Clients, NEW i \in ConnIndices, conn'[cm][i] = "open"
          PROVE  pool'[cm.uri] = cm.gen
      <3>1. conn[cm][i] = "open" /\ ~(cm.uri = cl.uri /\ pool[cm.uri] = cm.gen)
        BY <2>1, <2>3 DEF Close
      <3>2. pool[cm.uri] = cm.gen /\ cm.uri \in Dopplers
        BY <3>1 DEF OwnedInv, OpenInv
      <3>. QED
        BY <1>1, <2>1, <3>1, <3>2
    <2>4. UsedInv'
      BY <1>1, <1>2, <2>1 DEF OwnedInv, UsedInv
    <2>. QED
      BY <1>3, <2>2, <2>3, <2>4 DEF OwnedInv, OpenInv
  <1>5. CASE ~(refCount[cl] - 1 <= 0 /\ disconnect[cl])
    <2>1. UNCHANGED <<pool, conn, clients>>
      BY <1>5 DEF Exit
    <2>. HIDE DEF cl
    <2>2. UsedInv'
      BY <1>1, <1>2, <1>5, <2>1 DEF OwnedInv, UsedInv
    <2>. QED
      BY <1>3, <2>1, <2>2 DEF OwnedInv, PoolInv, OpenInv
  <1>. QED
    BY <1>4, <1>5

(* Every step keeps what is open owned. *)
LEMMA OwnedStep ==
    ASSUME TypeOK, SpawnInv, OwnedInv, [Next]_vars
    PROVE  OwnedInv'
  <1>. USE Names
  <1>1. ASSUME NEW cl \in Clients, NEW i \in ConnIndices, ConnectToDoppler(cl, i)
        PROVE  OwnedInv'
    <2>1. /\ UNCHANGED <<evt, clients, disconnect, pool, refCount>>
          /\ conn' = [conn EXCEPT ![cl][i] = IF pool[cl.uri] = cl.gen THEN "open" ELSE "late"]
      BY <1>1 DEF ConnectToDoppler, goVars
    <2>2. OpenInv'
      BY <2>1 DEF OwnedInv, OpenInv, TypeOK
    <2>. QED
      BY <2>1, <2>2 DEF OwnedInv, PoolInv, UsedInv, MarkInv
  <1>2. ASSUME NEW g \in Goroutines, CountReference(g)
        PROVE  OwnedInv'
    <2>1. /\ UNCHANGED <<evt, clients, disconnect, pool, conn>>
          /\ refCount' = [refCount EXCEPT ![g.client] = @ + 1]
      BY <1>2 DEF CountReference, clientVars
    <2>2. UsedInv'
      BY <2>1 DEF OwnedInv, UsedInv, TypeOK
    <2>. QED
      BY <2>1, <2>2 DEF OwnedInv, PoolInv, OpenInv, MarkInv
  <1>3. CASE UNCHANGED <<clientVars, refCount>>
    BY <1>3 DEF clientVars, OwnedInv, PoolInv, OpenInv, UsedInv, MarkInv
  <1>4. \/ HandleFinderEvent
        \/ \E cl \in Clients, i \in ConnIndices : ConnectToDoppler(cl, i)
        \/ \E g \in Goroutines : CountReference(g) \/ Exit(g)
        \/ UNCHANGED <<clientVars, refCount>>
    BY DEF Next, Subscribing, Running, CallSubscribe, ScanSlot, CasSlot, SpawnAll, Cancel, MarkDead,
           TryAddDoppler, CheckLoop, SubscribeOk, SubscribeErr, StreamEnds, vars, goVars
  <1>. QED
    BY <1>1, <1>2, <1>3, <1>4, FinderOwned, ExitOwned

(* ConnectionsOwned, whatever the finder yields: no connection is left open    *)
(* that neither the finder nor a goroutine will close, but for those stored    *)
(* after the Close of their address.                                           *)
THEOREM ConnectionsOwnedHolds == Spec => []ConnectionsOwned
  <1>1. Init => OwnedInv
    BY Names DEF Init, OwnedInv, PoolInv, OpenInv, UsedInv, MarkInv
  <1>2. TypeOK /\ SpawnInv /\ OwnedInv /\ [Next]_vars => OwnedInv'
    BY OwnedStep
  <1>3. ASSUME TypeOK, RefCountExact, OwnedInv
        PROVE  ConnectionsOwned
    <2>1. ASSUME NEW cl \in Clients, NEW i \in ConnIndices, conn[cl][i] = "open"
          PROVE  cl \in clients /\ pool[cl.uri] = cl.gen
      <3>1. pool[cl.uri] = cl.gen /\ cl.uri \in Dopplers /\ cl.gen # 0
        BY <1>3, <2>1, Names DEF OwnedInv, OpenInv, Gens
      <3>2. PICK cm \in clients : cm.uri = cl.uri /\ cm.gen = cl.gen
        BY <1>3, <3>1 DEF OwnedInv, PoolInv
      <3>3. cm \in Clients
        BY <1>3 DEF TypeOK
      <3>. QED
        BY <3>1, <3>2, <3>3, Names
    <2>2. ASSUME NEW cl \in clients, disconnect[cl]
          PROVE  \E g \in Goroutines : g.client = cl /\ gpc[g] \in Counted
      <3>1. cl \in Clients /\ refCount[cl] > 0 /\ refCount[cl] = Cardinality(Users(cl))
        BY <1>3, <2>2 DEF TypeOK, OwnedInv, UsedInv, RefCountExact, Users
      <3>2. Users(cl) # {}
        BY <3>1, FS_EmptySet
      <3>. QED
        BY <3>2 DEF Users
    <2>. QED
      BY <1>3, <2>1, <2>2 DEF ConnectionsOwned, OwnedInv, PoolInv
  <1>. QED
    BY <1>1, <1>2, <1>3, TypeOKHolds, SpawnedOnce, RefCountExactHolds, PTL DEF Spec

(* A client that goroutines are started for has its address in the pool, where *)
(* they look for a connection.                                                 *)
ClientsRegistered == \A cl \in clients : pool[cl.uri] = cl.gen

(* No step takes the registration of one client for that of another. *)
LEMMA RegisteredStep ==
    ASSUME TypeInv, CreatedInv, ClientsRegistered, [Next]_vars
    PROVE  ClientsRegistered'
  <1>. USE Names
  <1>1. \A cl, cm \in clients : cl.uri = cm.uri => cl = cm
    BY DEF TypeInv, CreatedInv, Created
  <1>2. CASE HandleFinderEvent
    <2>. DEFINE uris == FinderEvents[evt']
                new == [uri : NewUris(uris), gen : {evt'}]
                closing == {cl \in DeadClients(uris) : refCount[cl] = 0}
    <2>1. /\ clients' = (clients \cup new) \ closing
          /\ pool' = [u \in Dopplers |-> IF u \in NewUris(uris) THEN evt'
                                         ELSE IF u \in Uris(closing) THEN 0 ELSE pool[u]]
      BY <1>2 DEF HandleFinderEvent
    <2>2. evt' \in Gens /\ FinderEvents[evt'] \subseteq Dopplers
      BY <1>2, ConnectorAssumption DEF TypeInv, HandleFinderEvent, Gens
    <2>3. /\ \A cl \in new : cl.uri \in NewUris(uris) /\ cl.gen = evt' /\ cl.uri \in Dopplers
          /\ \A cl \in clients : cl.uri \notin NewUris(uris) /\ cl.uri \in Dopplers
          /\ closing \subseteq clients
      BY <2>2 DEF NewUris, Uris, DeadClients, TypeInv
    <2>. HIDE DEF new, closing
    <2>4. ASSUME NEW cl \in clients, cl \notin closing PROVE cl.uri \notin Uris(closing)
      BY <1>1, <2>3, <2>4 DEF Uris
    <2>5. ASSUME NEW cl \in clients' PROVE pool'[cl.uri] = cl.gen
      <3>1. CASE cl \in new
        BY <2>1, <2>3, <3>1
      <3>2. CASE cl \in clients /\ cl \notin closing
        BY <2>1, <2>3, <2>4, <3>2 DEF ClientsRegistered
      <3>. QED
        BY <2>1, <3>1, <3>2
    <2>. QED
      BY <2>5 DEF ClientsRegistered
  <1>3. ASSUME NEW g \in Goroutines, Exit(g)
        PROVE  ClientsRegistered'
    <2>. DEFINE cl == g.client
    <2>1. CASE refCount[cl] - 1 <= 0 /\ disconnect[cl]
      <3>1. pool' = [pool EXCEPT ![cl.uri] = 0] /\ clients' = clients \ {cl}
        BY <1>3, <2>1 DEF Exit
      <3>2. Created(cl)
        BY <1>3 DEF Exit, Created
      <3>3. \A cm \in clients : cm.uri = cl.uri => cm = cl
        BY <3>2 DEF TypeInv, CreatedInv, Created
      <3>4. ASSUME NEW cm \in clients' PROVE pool'[cm.uri] = cm.gen
        <4>1. cm \in clients /\ cm.uri # cl.uri
          BY <3>1, <3>3
        <4>. QED
          BY <3>1, <4>1 DEF TypeInv, ClientsRegistered
      <3>. QED
        BY <3>4 DEF ClientsRegistered
    <2>2. CASE ~(refCount[cl] - 1 <= 0 /\ disconnect[cl])
      <3>1. UNCHANGED <<pool, clients>>
        BY <1>3, <2>2 DEF Exit
      <3>. QED
        BY <3>1 DEF ClientsRegistered
    <2>. QED
      BY <2>1, <2>2
  <1>4. CASE UNCHANGED <<pool, clients>>
    BY <1>4 DEF ClientsRegistered
  <1>5. HandleFinderEvent \/ (\E g \in Goroutines : Exit(g)) \/ UNCHANGED <<pool, clients>>
    BY DEF Next, Subscribing, Running, ConnectToDoppler, CallSubscribe, ScanSlot, CasSlot, SpawnAll,
           Cancel, MarkDead, TryAddDoppler, CountReference, CheckLoop, SubscribeOk, SubscribeErr,
           StreamEnds, vars, clientVars
  <1>. QED
    BY <1>2, <1>3, <1>4, <1>5

(* ClientsRegistered, with a finder that does not advertise an address again:  *)
(* a goroutine that starts late and closes the address of its old client does  *)
(* not close a new client's.                                                   *)
THEOREM ClientsRegisteredHolds ==
    ASSUME NeverAdvertisedAgain
    PROVE  Spec => []ClientsRegistered
  <1>1. Init => WithdrawnInv /\ CreatedInv /\ ClientsRegistered
    BY DEF Init, WithdrawnInv, CreatedInv, Created, ClientsRegistered
  <1>2. TypeInv /\ SpawnInv /\ WithdrawnInv /\ CreatedInv /\ ClientsRegistered /\ [Next]_vars
            => WithdrawnInv' /\ CreatedInv' /\ ClientsRegistered'
    BY WithdrawnStep, CreatedStep, RegisteredStep
  <1>. QED
    BY <1>1, <1>2, TypesHold, SpawnedOnce, PTL DEF Spec
=============================================================================
