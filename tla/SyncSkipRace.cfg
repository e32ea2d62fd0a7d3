SPECIFICATION Spec
CONSTANTS
    Events = {e1, e2}
    Users = {u1}
    Tabs = {t1}
    Conns = {k1}
    Owner <- OneOwner
    Everyone = Everyone
    Paths <- PersonPath
    Capacity = 1
    None = None
    u1 = u1
    e1 = e1
    e2 = e2
    t1 = t1
    k1 = k1
SYMMETRY Symmetry
INVARIANTS
    NothingMissed
