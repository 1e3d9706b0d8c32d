SPECIFICATION Spec
CONSTANTS
    Setters = {s1, s2, s3}
    AppIDs = {a1}
    ShardIDs = {h1}
    system = system
    Empty = Empty
    Nil = Nil
INVARIANTS
    NothingLeftBehind
    RoutedToSubscribers
