---------------------------- MODULE GRPCConnector ----------------------------
(***************************************************************************)
(* How the reverse log proxy connects consumers to routers ("dopplers"):   *)
(* GRPCConnector with its connection pool (src/src/rlp/internal/ingress).    *)
(* The traffic controller's connector (src/src/plumbing/grpc_connector.go)   *)
(* has the same steps.                                                     *)
(*                                                                         *)
(* One goroutine applies the finder's events; every consumer calls         *)
(* Subscribe; and for every consumer and client a goroutine runs           *)
(* consumeSubscription, which keeps a stream to that doppler open.  Both   *)
(* Subscribe and the finder start such goroutines, and neither waits for   *)
(* them to run.  What a mutex protects is one action; atomic operations    *)
(* outside it are actions of their own.                                    *)
(*                                                                         *)
(* The envelopes on the streams are abstracted away.                       *)
(***************************************************************************)
EXTENDS Integers, Sequences, FiniteSets

CONSTANTS
    Dopplers,       \* router addresses
    Consumers,      \* callers of Subscribe, each with its consumerState
    MaxConnections, \* maxConnections: the length of consumerStates
    PoolSize,       \* connections the pool keeps to a doppler
    FinderEvents,   \* the sets of addresses the finder yields, in order
    Nil             \* a nil pointer in consumerStates

ASSUME ConnectorAssumption ==
    /\ MaxConnections \in Nat \ {0}
    /\ PoolSize \in Nat \ {0}
    /\ FinderEvents \in Seq(SUBSET Dopplers)
    /\ IsFiniteSet(Consumers)
    /\ Nil \notin Consumers

(* A dopplerClientInfo is named by its uri and the event that created it. *)
Gens == 1 .. Len(FinderEvents)
Clients == {cl \in [uri : Dopplers, gen : Gens] : cl.uri \in FinderEvents[cl.gen]}

(* A consumeSubscription goroutine is named by who started it: a consumer's  *)
(* Subscribe or the finder, each at most once for a consumer and a client.   *)
Goroutines == [by : {"subscribe", "finder"}, cs : Consumers, client : Clients]

SlotIndices == 1 .. MaxConnections
ConnIndices == 1 .. PoolSize

VARIABLES
    evt,            \* how many finder events were handled
    clients,        \* c.clients
    disconnect,     \* client.disconnect
    refCount,       \* client.refCount
    pool,           \* pool.dopplers: the gen of an address' registration, or 0
    conn,           \* the connections of each registration: "none", "dialing", "open",
                    \* "closed", or "late" if it was stored after Close
    consumerStates, \* the slots: a consumer, or Nil
    spc,            \* a consumer: "idle", "scan", "cas", "spawn", "recv" or "rejected"
    slot,           \* the slot a consumer's addConsumerState looks at
    loaded,         \* what it loaded from that slot
    ctxDone,        \* the consumer's context is cancelled
    dead,           \* cs.dead, set some time after
    dopplers,       \* cs.dopplers
    gpc,            \* a goroutine: "none", "spawned", "count", "check",
                    \* "subscribe", "stream", "exit" or "finished"
    tried           \* its local tried

clientVars == <<evt, clients, disconnect, pool, conn>>
subVars == <<consumerStates, spc, slot, loaded>>
ctxVars == <<ctxDone, dead>>
goVars == <<refCount, dopplers, gpc, tried>>
vars == <<clientVars, subVars, ctxVars, goVars>>

Init ==
    /\ evt = 0
    /\ clients = {}
    /\ disconnect = [cl \in Clients |-> FALSE]
    /\ refCount = [cl \in Clients |-> 0]
    /\ pool = [u \in Dopplers |-> 0]
    /\ conn = [cl \in Clients |-> [i \in ConnIndices |-> "none"]]
    /\ consumerStates = [i \in SlotIndices |-> Nil]
    /\ spc = [c \in Consumers |-> "idle"]
    /\ slot = [c \in Consumers |-> 1]
    /\ loaded = [c \in Consumers |-> Nil]
    /\ ctxDone = [c \in Consumers |-> FALSE]
    /\ dead = [c \in Consumers |-> FALSE]
    /\ dopplers = [c \in Consumers |-> {}]
    /\ gpc = [g \in Goroutines |-> "none"]
    /\ tried = [g \in Goroutines |-> FALSE]

-----------------------------------------------------------------------------
(* The pool.  An address' connections are those of its last registration.      *)

(* RegisterDoppler stores an empty list and starts the goroutines that dial. *)
RegisterDoppler(new, conns) ==
    [cl \in Clients |-> IF cl \in new THEN [i \in ConnIndices |-> "dialing"] ELSE conns[cl]]

(* Close removes the list and closes the connections that are in it by then. *)
Close(uris) ==
    [cl \in Clients |->
        IF cl.uri \in uris /\ pool[cl.uri] = cl.gen
        THEN [i \in ConnIndices |-> IF conn[cl][i] = "open" THEN "closed" ELSE conn[cl][i]]
        ELSE conn[cl]]

(* connectToDoppler stores its connection, whether or not the address has been *)
(* closed since.  (An attempt that fails is repeated.)                         *)
ConnectToDoppler(cl, i) ==
    /\ conn[cl][i] = "dialing"
    /\ conn' = [conn EXCEPT ![cl][i] = IF pool[cl.uri] = cl.gen THEN "open" ELSE "late"]
    /\ UNCHANGED <<evt, clients, disconnect, pool, subVars, ctxVars, goVars>>

(* fetchClient finds a connection. *)
Connected(u) == \E cl \in Clients, i \in ConnIndices :
                    cl = [uri |-> u, gen |-> pool[u]] /\ conn[cl][i] = "open"

-----------------------------------------------------------------------------
(* The finder's goroutine, under c.mu *)

Uris(S) == {cl.uri : cl \in S}

(* delta: the addresses to add, and the clients no longer advertised. *)
NewUris(uris) == uris \ Uris(clients)
DeadClients(uris) == {cl \in clients : cl.uri \notin uris}

(* The consumers that a new client's goroutines are started for. *)
LiveStates == {c \in Consumers : (\E i \in SlotIndices : consumerStates[i] = c) /\ ~dead[c]}

(* Mutant: goroutines are started for the clients that were there before. *)
HandleFinderEvent_OldClients ==
    /\ evt < Len(FinderEvents)
    /\ evt' = evt + 1
    /\ LET uris == FinderEvents[evt']
           new == [uri : NewUris(uris), gen : {evt'}]
           dying == DeadClients(uris)
           closing == {cl \in dying : refCount[cl] = 0}
       IN
       /\ clients' = (clients \cup new) \ closing
       /\ disconnect' = [cl \in Clients |->
              IF cl \in clients THEN cl \in dying ELSE disconnect[cl]]
       /\ pool' = [u \in Dopplers |->
              IF u \in NewUris(uris) THEN evt' ELSE IF u \in Uris(closing) THEN 0 ELSE pool[u]]
       /\ conn' = RegisterDoppler(new, Close(Uris(closing)))
       /\ gpc' = [g \in Goroutines |->
              IF g.by = "finder" /\ g.cs \in LiveStates /\ g.client \in clients
                 /\ gpc[g] = "none"
              THEN "spawned" ELSE gpc[g]]
    /\ UNCHANGED <<refCount, dopplers, tried, subVars, ctxVars>>

(* handleFinderEvent: register and connect the new addresses, take back a    *)
(* pending disconnect of the ones advertised again, mark the others for      *)
(* disconnection and close those nobody uses.                                *)
HandleFinderEvent ==
    /\ evt < Len(FinderEvents)
    /\ evt' = evt + 1
    /\ LET uris == FinderEvents[evt']
           new == [uri : NewUris(uris), gen : {evt'}]
           dying == DeadClients(uris)
           closing == {cl \in dying : refCount[cl] = 0}
       IN
       /\ clients' = (clients \cup new) \ closing
       /\ disconnect' = [cl \in Clients |->
              IF cl \in clients THEN cl \in dying ELSE disconnect[cl]]
       /\ pool' = [u \in Dopplers |->
              IF u \in NewUris(uris) THEN evt' ELSE IF u \in Uris(closing) THEN 0 ELSE pool[u]]
       /\ conn' = RegisterDoppler(new, Close(Uris(closing)))
       /\ gpc' = [g \in Goroutines |->
              IF g.by = "finder" /\ g.cs \in LiveStates /\ g.client \in new
              THEN "spawned" ELSE gpc[g]]
    /\ UNCHANGED <<refCount, dopplers, tried, subVars, ctxVars>>

-----------------------------------------------------------------------------
(* A consumer *)

CallSubscribe(c) ==
    /\ spc[c] = "idle"
    /\ spc' = [spc EXCEPT ![c] = "scan"]
    /\ UNCHANGED <<clientVars, consumerStates, slot, loaded, ctxVars, goVars>>

Free(s) == s # Nil => dead[s]

(* addConsumerState loads the next slot; past the last one Subscribe fails. *)
ScanSlot(c) ==
    /\ spc[c] = "scan"
    /\ \/ /\ slot[c] > MaxConnections
          /\ spc' = [spc EXCEPT ![c] = "rejected"]
          /\ UNCHANGED <<slot, loaded>>
       \/ /\ slot[c] <= MaxConnections
          /\ ~Free(consumerStates[slot[c]])
          /\ slot' = [slot EXCEPT ![c] = @ + 1]
          /\ UNCHANGED <<spc, loaded>>
       \/ /\ slot[c] <= MaxConnections
          /\ Free(consumerStates[slot[c]])
          /\ loaded' = [loaded EXCEPT ![c] = consumerStates[slot[c]]]
          /\ spc' = [spc EXCEPT ![c] = "cas"]
          /\ UNCHANGED slot
    /\ UNCHANGED <<clientVars, consumerStates, ctxVars, goVars>>

(* Mutant: the slot is stored into without comparing it. *)
CasSlot_Store(c) ==
    /\ spc[c] = "cas"
    /\ consumerStates' = [consumerStates EXCEPT ![slot[c]] = c]
    /\ spc' = [spc EXCEPT ![c] = "spawn"]
    /\ UNCHANGED <<clientVars, slot, loaded, ctxVars, goVars>>

(* addConsumerState takes the slot if it is still as it was loaded, and goes *)
(* on to the next one if not.                                                *)
CasSlot(c) ==
    /\ spc[c] = "cas"
    /\ \/ /\ consumerStates[slot[c]] = loaded[c]
          /\ consumerStates' = [consumerStates EXCEPT ![slot[c]] = c]
          /\ spc' = [spc EXCEPT ![c] = "spawn"]
          /\ UNCHANGED slot
       \/ /\ consumerStates[slot[c]] # loaded[c]
          /\ slot' = [slot EXCEPT ![c] = @ + 1]
          /\ spc' = [spc EXCEPT ![c] = "scan"]
          /\ UNCHANGED consumerStates
    /\ UNCHANGED <<clientVars, loaded, ctxVars, goVars>>

(* Subscribe, under c.mu.RLock: a goroutine for every client. *)
SpawnAll(c) ==
    /\ spc[c] = "spawn"
    /\ spc' = [spc EXCEPT ![c] = "recv"]
    /\ gpc' = [g \in Goroutines |->
           IF g.by = "subscribe" /\ g.cs = c /\ g.client \in clients
           THEN "spawned" ELSE gpc[g]]
    /\ UNCHANGED <<clientVars, consumerStates, slot, loaded, ctxVars, refCount, dopplers, tried>>

Cancel(c) ==
    /\ spc[c] # "idle"
    /\ ~ctxDone[c]
    /\ ctxDone' = [ctxDone EXCEPT ![c] = TRUE]
    /\ UNCHANGED <<clientVars, subVars, dead, goVars>>

(* The goroutine Subscribe starts first: <-cs.ctx.Done(), then cs.dead = 1. *)
MarkDead(c) ==
    /\ ctxDone[c]
    /\ ~dead[c]
    /\ dead' = [dead EXCEPT ![c] = TRUE]
    /\ UNCHANGED <<clientVars, subVars, ctxDone, goVars>>

-----------------------------------------------------------------------------
(* A consumeSubscription goroutine *)

(* Mutant: the consumer's map of dopplers is not consulted. *)
TryAddDoppler_Always(g) ==
    /\ gpc[g] = "spawned"
    /\ gpc' = [gpc EXCEPT ![g] = "count"]
    /\ dopplers' = [dopplers EXCEPT ![g.cs] = @ \cup {g.client.uri}]
    /\ UNCHANGED <<clientVars, subVars, ctxVars, refCount, tried>>

(* cs.tryAddDoppler, under cs.mu: only one goroutine per address goes on. *)
TryAddDoppler(g) ==
    /\ gpc[g] = "spawned"
    /\ IF g.client.uri \in dopplers[g.cs]
       THEN /\ gpc' = [gpc EXCEPT ![g] = "finished"]
            /\ UNCHANGED dopplers
       ELSE /\ gpc' = [gpc EXCEPT ![g] = "count"]
            /\ dopplers' = [dopplers EXCEPT ![g.cs] = @ \cup {g.client.uri}]
    /\ UNCHANGED <<clientVars, subVars, ctxVars, refCount, tried>>

CountReference(g) ==
    /\ gpc[g] = "count"
    /\ refCount' = [refCount EXCEPT ![g.client] = @ + 1]
    /\ gpc' = [gpc EXCEPT ![g] = "check"]
    /\ UNCHANGED <<clientVars, subVars, ctxVars, dopplers, tried>>

(* Mutant: any broken stream ends the goroutine once it has tried. *)
CheckLoop_GiveUp(g) ==
    /\ gpc[g] = "check"
    /\ IF tried[g] \/ dead[g.cs]
       THEN /\ gpc' = [gpc EXCEPT ![g] = "exit"]
            /\ UNCHANGED tried
       ELSE /\ gpc' = [gpc EXCEPT ![g] = "subscribe"]
            /\ tried' = [tried EXCEPT ![g] = TRUE]
    /\ UNCHANGED <<clientVars, subVars, ctxVars, refCount, dopplers>>

(* The top of the loop: leave if the consumer is dead, or if the doppler is  *)
(* to be disconnected and was tried at least once.                           *)
CheckLoop(g) ==
    /\ gpc[g] = "check"
    /\ IF (tried[g] /\ disconnect[g.client]) \/ dead[g.cs]
       THEN /\ gpc' = [gpc EXCEPT ![g] = "exit"]
            /\ UNCHANGED tried
       ELSE /\ gpc' = [gpc EXCEPT ![g] = "subscribe"]
            /\ tried' = [tried EXCEPT ![g] = TRUE]
    /\ UNCHANGED <<clientVars, subVars, ctxVars, refCount, dopplers>>

(* pool.Subscribe opens a stream on the address' current registration. *)
SubscribeOk(g) ==
    /\ gpc[g] = "subscribe"
    /\ Connected(g.client.uri)
    /\ ~ctxDone[g.cs]
    /\ gpc' = [gpc EXCEPT ![g] = "stream"]
    /\ UNCHANGED <<clientVars, subVars, ctxVars, refCount, dopplers, tried>>

(* pool.Subscribe fails: no registration, no connection yet, the doppler is  *)
(* unreachable, or the context is done.  Back to the top after a delay.      *)
SubscribeErr(g) ==
    /\ gpc[g] = "subscribe"
    /\ gpc' = [gpc EXCEPT ![g] = "check"]
    /\ UNCHANGED <<clientVars, subVars, ctxVars, refCount, dopplers, tried>>

(* readStream returns: the doppler or the connection went away, or the       *)
(* context is done.                                                          *)
StreamEnds(g) ==
    /\ gpc[g] = "stream"
    /\ gpc' = [gpc EXCEPT ![g] = "check"]
    /\ UNCHANGED <<clientVars, subVars, ctxVars, refCount, dopplers, tried>>

(* Mutant: the reference is not given back when the consumer was cancelled. *)
Exit_KeepReference(g) ==
    LET cl == g.client
        last == refCount[cl] - 1 <= 0 /\ disconnect[cl]
    IN
    /\ gpc[g] = "exit"
    /\ gpc' = [gpc EXCEPT ![g] = "finished"]
    /\ refCount' = IF dead[g.cs] THEN refCount ELSE [refCount EXCEPT ![cl] = @ - 1]
    /\ pool' = IF last THEN [pool EXCEPT ![cl.uri] = 0] ELSE pool
    /\ conn' = IF last THEN Close({cl.uri}) ELSE conn
    /\ clients' = IF last THEN clients \ {cl} ELSE clients
    /\ dopplers' = [dopplers EXCEPT ![g.cs] = @ \ {cl.uri}]
    /\ UNCHANGED <<evt, disconnect, subVars, ctxVars, tried>>

(* Mutant: only the finder closes clients. *)
Exit_NoClose(g) ==
    /\ gpc[g] = "exit"
    /\ gpc' = [gpc EXCEPT ![g] = "finished"]
    /\ refCount' = [refCount EXCEPT ![g.client] = @ - 1]
    /\ dopplers' = [dopplers EXCEPT ![g.cs] = @ \ {g.client.uri}]
    /\ UNCHANGED <<clientVars, subVars, ctxVars, tried>>

(* The deferred function, under c.mu: the last one to leave a client that is *)
(* to be disconnected closes it.                                             *)
Exit(g) ==
    LET cl == g.client
        last == refCount[cl] - 1 <= 0 /\ disconnect[cl]
    IN
    /\ gpc[g] = "exit"
    /\ gpc' = [gpc EXCEPT ![g] = "finished"]
    /\ refCount' = [refCount EXCEPT ![cl] = @ - 1]
    /\ pool' = IF last THEN [pool EXCEPT ![cl.uri] = 0] ELSE pool
    /\ conn' = IF last THEN Close({cl.uri}) ELSE conn
    /\ clients' = IF last THEN clients \ {cl} ELSE clients
    /\ dopplers' = [dopplers EXCEPT ![g.cs] = @ \ {cl.uri}]
    /\ UNCHANGED <<evt, disconnect, subVars, ctxVars, tried>>

-----------------------------------------------------------------------------
Subscribing(c) == ScanSlot(c) \/ CasSlot(c) \/ SpawnAll(c)

Running(g) ==
    \/ TryAddDoppler(g) \/ CountReference(g) \/ CheckLoop(g)
    \/ SubscribeOk(g) \/ SubscribeErr(g) \/ Exit(g)

Next ==
    \/ HandleFinderEvent
    \/ \E cl \in Clients, i \in ConnIndices : ConnectToDoppler(cl, i)
    \/ \E c \in Consumers : CallSubscribe(c) \/ Subscribing(c) \/ Cancel(c) \/ MarkDead(c)
    \/ \E g \in Goroutines : Running(g) \/ StreamEnds(g)

Spec == Init /\ [][Next]_vars

(* Goroutines keep running, those that dial too; a cancelled context ends its  *)
(* streams; and a doppler with a connection is not unreachable for ever.       *)
LiveSpec ==
    /\ Spec
    /\ \A cl \in Clients, i \in ConnIndices : WF_vars(ConnectToDoppler(cl, i))
    /\ \A c \in Consumers : WF_vars(Subscribing(c)) /\ WF_vars(MarkDead(c))
    /\ \A g \in Goroutines :
         /\ WF_vars(Running(g))
         /\ SF_vars(SubscribeOk(g))
         /\ WF_vars(ctxDone[g.cs] /\ StreamEnds(g))

-----------------------------------------------------------------------------
(* Properties *)

Counted == {"check", "subscribe", "stream", "exit"}
Started == Counted \cup {"count"}

(* The variables keep their types; a reference count never goes negative. *)
TypeOK ==
    /\ evt \in 0 .. Len(FinderEvents)
    /\ clients \subseteq Clients
    /\ disconnect \in [Clients -> BOOLEAN]
    /\ refCount \in [Clients -> Nat]
    /\ pool \in [Dopplers -> 0 .. Len(FinderEvents)]
    /\ conn \in [Clients -> [ConnIndices -> {"none", "dialing", "open", "closed", "late"}]]
    /\ consumerStates \in [SlotIndices -> Consumers \cup {Nil}]
    /\ spc \in [Consumers -> {"idle", "scan", "cas", "spawn", "recv", "rejected"}]
    /\ slot \in [Consumers -> 1 .. MaxConnections + 1]
    /\ loaded \in [Consumers -> Consumers \cup {Nil}]
    /\ ctxDone \in [Consumers -> BOOLEAN]
    /\ dead \in [Consumers -> BOOLEAN]
    /\ dopplers \in [Consumers -> SUBSET Dopplers]
    /\ gpc \in [Goroutines -> Started \cup {"none", "spawned", "finished"}]
    /\ tried \in [Goroutines -> BOOLEAN]

(* No consumer reads the same doppler twice: although Subscribe and the       *)
(* finder may both start a goroutine for the same client, and an address may  *)
(* get a new client while goroutines of its old one still run, at most one    *)
(* goroutine per consumer and address gets past tryAddDoppler.                *)
OneStreamPerDoppler ==
    \A g, h \in Goroutines :
        gpc[g] \in Started /\ gpc[h] \in Started /\ g.cs = h.cs /\ g.client.uri = h.client.uri
            => g = h

(* A client's refCount is the number of goroutines that use it, so "== 0" in  *)
(* handleFinderEvent and "<= 0" in the deferred function mean nobody does.    *)
RefCountExact ==
    \A cl \in Clients :
        refCount[cl] = Cardinality({g \in Goroutines : g.client = cl /\ gpc[g] \in Counted})

(* A consumer that Subscribe admitted stays in consumerStates until it is     *)
(* dead, so the finder never overlooks it, although several Subscribe calls   *)
(* reuse the slots of dead consumers at the same time.                        *)
LiveKeepsSlot ==
    \A c \in Consumers :
        spc[c] \in {"spawn", "recv"} /\ ~dead[c] => \E i \in SlotIndices : consumerStates[i] = c

(* "Subscribe returns a Receiver that yields all corresponding messages from  *)
(* Doppler": a live consumer has a goroutine for every client that is not to  *)
(* be disconnected, whichever of Subscribe and the finder came first.         *)
NoDopplerForgotten ==
    \A c \in Consumers, cl \in clients :
        spc[c] = "recv" /\ ~ctxDone[c] /\ ~disconnect[cl] =>
            \E g \in Goroutines :
                g.cs = c /\ g.client.uri = cl.uri /\ gpc[g] \in Started \cup {"spawned"}

(* What NoDopplerForgotten asks of a finder: it never advertises an address    *)
(* again that it has withdrawn.  plumbing.StaticFinder withdraws all of them,  *)
(* once.                                                                       *)
NeverAdvertisedAgain ==
    \A i, j, k \in Gens : \A u \in FinderEvents[i] :
        i < j /\ j < k /\ u \notin FinderEvents[j] => u \notin FinderEvents[k]

(* A consumer gets its stream to every doppler, and gets it back after it     *)
(* broke, unless the consumer leaves or the doppler is to be disconnected.    *)
EventuallyStreams ==
    \A c \in Consumers, cl \in Clients :
        (spc[c] = "recv" /\ cl \in clients)
            ~> (ctxDone[c] \/ disconnect[cl]
                \/ \E g \in Goroutines : g.cs = c /\ g.client.uri = cl.uri /\ gpc[g] = "stream")

(* Once the finder has withdrawn every doppler and every consumer has left,   *)
(* all clients are closed, the pool is empty and no connection is open, but    *)
(* for those whose goroutine was still dialling when its address was closed.   *)
Drained ==
    (evt = Len(FinderEvents) /\ FinderEvents[Len(FinderEvents)] = {}
        /\ \A c \in Consumers : ctxDone[c])
        ~> /\ clients = {}
           /\ \A u \in Dopplers : pool[u] = 0
           /\ \A cl \in Clients, i \in ConnIndices : conn[cl][i] # "open"
=============================================================================
