SPECIFICATION Spec
CONSTANTS
    a = a
    b = b
    Users = {a, b}
    NoUser = nobody
    c1 = c1
    c2 = c2
    Calls = {c1, c2}
    Keys = {"tasks"}
    Hooks <- TaskHooks
    Screens <- TaskScreens
    Signalled = {}
    MaxEvents = 3
INVARIANTS
    LateMutationsRepopulateNothing
CHECK_DEADLOCK FALSE
