SPECIFICATION Spec
CONSTANTS
    c1 = c1
    c2 = c2
    c3 = c3
    client1 = client1
    client2 = client2
    p1 = p1
    p2 = p2
    h1 = h1
    h2 = h2
    Cpus = {c1, c2, c3}
    Clients = {client1, client2}
    Pages = {p1, p2}
    Hooks = {h1, h2}
    Null = Null
INVARIANTS
    RunningProcessorsAgree
PROPERTY RequestsTakeEffectAtOnce
