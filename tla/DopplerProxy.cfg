SPECIFICATION LiveSpec
CONSTANTS
    Precision = 100
    admin = admin
    user = user
    guid = guid
    name = name
    Tokens = {admin, user}
    Admins = {admin}
    AppIDs = {guid, name}
    GUIDs = {guid}
    Access <- ModelAccess
    Cases <- ModelCases
    Empty = Empty
    Malformed = Malformed
    MaxMessages = 2
INVARIANTS
    OpenedOnlyIfAllowed
    WithoutGaps
    CounterConservation
PROPERTIES
    StreamEnds
    GoroutinesExit
    MetricsSettle
CHECK_DEADLOCK FALSE
