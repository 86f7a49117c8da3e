SPECIFICATION Spec
CONSTANTS
    a = a
    b = b
    Users = {a, b}
    NoUser = nobody
    c1 = c1
    c2 = c2
    Calls = {c1, c2}
    Keys <- ListKeys
    Hooks <- ListHooks
    Screens <- ListScreens
    Signalled <- ListSignals
    MaxEvents = 3
SYMMETRY EachAlike
INVARIANTS
    ShownUserHasSession
CHECK_DEADLOCK FALSE
