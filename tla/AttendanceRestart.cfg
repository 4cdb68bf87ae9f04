\* Two controllers, a card that gets bound to an enabled or a disabled user, a registry save that
\* fails, a 37H that is lost or a restart, at any point.
SPECIFICATION Spec
CONSTANTS
    n1 = n1
    n2 = n2
    cardA = cardA
    cardB = cardB
    u1 = u1
    u2 = u2
    Node = {n1, n2}
    Card = {cardA, cardB}
    User = {u1, u2}
    Enabled = {u1}
    None = None
    Unseen = Unseen
    InitOwner <- CardBUnknown
    Codes = {"access", "other"}
    Repeat = 1
    Ops = {"bind"}
    Faults = {"crash", "remove", "registry"}
    MaxTime = 2
    MaxSwipes = 2
    MaxOps = 2
    MaxFaults = 1
INVARIANTS
    OncePerEvent
    OneStatePerUser
SYMMETRY ControllersAlike
