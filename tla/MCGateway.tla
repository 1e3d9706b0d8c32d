----------------------------- MODULE MCGateway -----------------------------
(* Gateway for model checking. *)
EXTENDS Gateway

CONSTANTS
    admin, user,        \* tokens
    app, service,       \* sources with the form of a GUID
    other,              \* a source without it
    x, y                \* names of metrics

ModelLogAccess == {<<user, app>>, <<user, other>>}
ModelServiceAccess == {<<user, service>>}

Query(sources, keys, counterNames, gaugeNames) ==
    [sources |-> sources, keys |-> keys, counterNames |-> counterNames, gaugeNames |-> gaugeNames]

Get(token, query) == [token |-> token, get |-> TRUE, query |-> query]

(* Access control, for one query; and for an admin the combinations of types   *)
(* and names, for some sources.                                                *)
ModelRequests ==
    {Get(t, Query(s, {"log"}, {}, {})) : t \in {admin, user, Empty},
                                         s \in {{}, {app}, {app, service}, {app, other}}}
        \cup {[token |-> admin, get |-> FALSE, query |-> Query({app}, {"log"}, {}, {})]}
        \cup {Get(admin, Query(s, k, c, g)) :
                s \in {{}, {service, other}},
                k \in {{}, {"counter"}, {"log", "counter", "gauge"}, {"timer", "event"}},
                c \in {{}, {x, y}},
                g \in {{}, {{x}, {x, y}}}}
=============================================================================
