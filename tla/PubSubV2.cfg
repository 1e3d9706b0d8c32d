SPECIFICATION Spec
CONSTANTS
    Routers = {r1, r2}
    Subscribers = {s1, s2}
    Requests <- ModelRequests
    SourceIDs = {4}
    Names = {2, 3}
    Published <- ModelPublished
    Nil = Nil
INVARIANTS
    NothingLeftBehind
    RoutedToSubscribers
    SameSubscriberEverywhere
SYMMETRY ModelSymmetry
CHECK_DEADLOCK FALSE
