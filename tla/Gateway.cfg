SPECIFICATION LiveSpec
CONSTANTS
    admin = admin
    user = user
    app = app
    service = service
    other = other
    x = x
    y = y
    Tokens = {admin, user}
    Admins = {admin}
    Sources = {app, service, other}
    GUIDs = {app, service}
    LogAccess <- ModelLogAccess
    ServiceAccess <- ModelServiceAccess
    Empty = Empty
    Names = {x, y}
    Requests <- ModelRequests
    MaxBatches = 3
INVARIANTS
    StreamAuthorized
    SelectsAsAsked
PROPERTIES
    StreamEnds
    ReceiverExits
CHECK_DEADLOCK FALSE
