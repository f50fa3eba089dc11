SPECIFICATION Spec
CONSTANTS
    c1 = c1
    c2 = c2
    c3 = c3
    review = review
    build = build
    p1 = p1
    p2 = p2
    NoChild = NoChild
    Children <- MCChildren
    Names <- MCNames
    NameOf <- MCNameOf
    Isolated <- MCNone
    Waiters <- MCNone
    MaxRestarts = 1
INVARIANTS
    NameMeansLiveChild
CHECK_DEADLOCK FALSE
