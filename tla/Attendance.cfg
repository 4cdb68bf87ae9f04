\* One controller, two users, one with two cards; inserts, saves, deletions, the query for an
\* existing row and the save of the registry fail, a card is bound or taken away, or the site reset.
SPECIFICATION Spec
CONSTANTS
    n1 = n1
    n2 = n2
    cardA = cardA
    cardB = cardB
    u1 = u1
    u2 = u2
    Node = {n1}
    Card = {cardA, cardB}
    User = {u1, u2}
    Enabled = {u1, u2}
    None = None
    Unseen = Unseen
    InitOwner <- BothCards
    Codes = {"access"}
    Repeat = 1
    Ops = {"bind", "unbind", "reset"}
    Faults = {"append", "check", "save", "remove", "registry"}
    MaxTime = 3
    MaxSwipes = 3
    MaxOps = 1
    MaxFaults = 2
INVARIANTS
    TypeOK
    Alternate
    ViewsAgree
    RepeatWindow
    MetadataCurrent
