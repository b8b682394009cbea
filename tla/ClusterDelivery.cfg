SPECIFICATION Spec
CONSTANTS
    Node = {n1, n2}
    Client = {c1, c2}
    Msg = {m1, m2}
    Room = {r}
    User = {u}
    MaxLeaves = 1
    None = none
    Gone = gone
SYMMETRY Symmetry
INVARIANTS
    AtMostOnce
    OnlyAudience
    NobodyForgotten
    SenderOrder
CHECK_DEADLOCK FALSE
