----------------------------- MODULE MCPubSubV2 -----------------------------
(* PubSubV2 for model checking: what subscribers ask for and what is         *)
(* published.  Source ID 4 and metric names 2 and 3; shard IDs and           *)
(* deterministic names are numbers.                                          *)
EXTENDS PubSubV2

Sel(source, type, names) == [source |-> source, type |-> type, names |-> names]

(* Selectors that overlap: any counter, one counter, one source's counters;  *)
(* gauges by one name and by two, one source's gauges; the other types, and  *)
(* a selector without a message.                                             *)
AnyCounter == <<Sel(Empty, counterType, {})>>
Counters == <<Sel(4, counterType, {2}), Sel(Empty, counterType, {})>>
LogsAndCounters == <<Sel(4, logType, {}), Sel(4, counterType, {})>>
SourceGauges == <<Sel(4, gaugeType, {})>>
Gauges == <<Sel(Empty, gaugeType, {2, 3}), Sel(4, gaugeType, {})>>
GaugesAndEvents == <<Sel(Empty, gaugeType, {3}), Sel(4, noMessage, {}), Sel(Empty, eventType, {})>>
Timers == <<Sel(4, noMessage, {}), Sel(4, timerType, {})>>

(* Subscribers without a name, sharing a shard or not; and members of a       *)
(* shard, with one selector and with names of which two may be the same.     *)
ModelRequests ==
    [selectors : {Counters, LogsAndCounters, GaugesAndEvents, Timers}, shard : {Empty}, dName : {Empty}]
        \cup [selectors : {AnyCounter, Counters, Gauges}, shard : {1}, dName : {Empty}]
        \cup [selectors : {AnyCounter, SourceGauges}, shard : {1}, dName : {1, 2}]

Env(source, type, names) == [source |-> source, type |-> type, names |-> names]

ModelPublished ==
    {Env(4, counterType, {2}), Env(Empty, counterType, {3}),
     Env(4, gaugeType, {2, 3}), Env(Empty, gaugeType, {3}), Env(4, logType, {}),
     Env(4, timerType, {}), Env(4, eventType, {}), Env(4, noMessage, {})}

ModelSymmetry == Permutations(Subscribers) \cup Permutations(Routers)
=============================================================================
