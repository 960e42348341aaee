SPECIFICATION Spec
SYMMETRY Syms
CONSTANTS
    take0 = take0
    take1 = take1
    take2 = take2
    take3 = take3
    key1 = key1
    key2 = key2
    drawing1 = drawing1
    drawing2 = drawing2
    span1 = span1
    span2 = span2
    slow = slow
    fast = fast
    Attempts = {take0, take1, take2, take3}
    FirstTake = take0
    Keys = {key1, key2}
    Drawings = {drawing1, drawing2}
    Spans = {span1, span2}
    Windows = {1, 2}
    Frames = {1}
    Texts = {slow, fast}
    None = None
    Sessions <- WindowSession
    MaxSteps = 2
    MaxRequests = 2
INVARIANTS
    OutdatedWindowIsShown
CHECK_DEADLOCK FALSE
