\* A page joins while a message is on its way.
CONSTANTS
    u1 = u1
    u2 = u2
    u3 = u3
    c12 = c12
    c13 = c13
    s1 = s1
    s2 = s2
    Users = {u1, u2, u3}
    Convs = {c12, c13}
    Sockets = {s1, s2}
    Members <- TheMembers
    Owner <- TheOwner
    Tasks = {t1, t2}
    Idle = Idle
    NoConv = NoConv
    HistoryLimit = 1
    Scenarios <- Upsets
SPECIFICATION Spec
INVARIANTS
    OtherUserIsTold
CHECK_DEADLOCK FALSE
