SPECIFICATION Spec
CONSTANTS
    a = a
    b = b
    h1 = h1
    h2 = h2
    l1 = l1
    l2 = l2
    l3 = l3
    l4 = l4
    l5 = l5
    Handlers = {h1, h2}
    Clients = {a, b}
    Addr <- Direct
    Limiters = {l1, l2, l3, l4, l5}
    GlobalRate = 2
    GlobalBurst = 3
    IpRate = 1
    IpBurst = 2
    Sweep = 2
    MaxStall = 1
    MaxLate = 1
INVARIANTS
    NoMonopoly
