SPECIFICATION Spec
CONSTANTS
    s = s
    r = r
    o = o
    Callers = {s, r, o}
    Method <- MCMethod
    Requests = {q1, q2}
    CommandChannel = 1
    EventChannel = 1
INVARIANTS
    TypeOK
    OneResponder
    OneServer
PROPERTIES
    EveryCallReturns
    EveryRequestAnswered
CHECK_DEADLOCK FALSE
