SPECIFICATION FairSpec
CONSTANTS
    Workers = {"tunnel", "proxy"}
    Clients = {c1, c2}
    Socks = {c1}
    ViaTor = {c2}
    Rotations = {r1}
    BusSize = 1
    MaxFaults = 1
CHECK_DEADLOCK FALSE
INVARIANTS
    OwnStream
    FiguresTrue
PROPERTIES
    ClientsServedOrLost
    StopEnds
