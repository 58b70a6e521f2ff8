CONSTANTS
    g1 = g1  g2 = g2  g3 = g3  c1 = c1  c2 = c2
    Gateways = {g1, g2, g3}
    Clients = {c1, c2}
    ClientOf <- MCClientOf
    None = None
    Spliced = Spliced
    Size = 3
    NumberEnd = 1
    ClientEnd = 2
    MaxRequests = 3
    MaxTorn = 1
    Launches <- MCLaunches
    ME_MAX_PENDING_REQUESTS = 2
    StableUpTo = 1
    AcceptsLast = TRUE
SPECIFICATION Spec
PROPERTY RequestsAnswered
INVARIANTS TypeOK RequestsInOrder ResponsesInOrder SocketKnown
CHECK_DEADLOCK FALSE
