SPECIFICATION FairSpec
CONSTANTS
    Targets = {address, name}
    Names = {name}
    Slots = {s1, s2}
    NoConn = NoConn
    Peers = {p1, p2}
    Hosts = {h1}
    MaxAddresses = 2
    MaxArmed = 2
CHECK_DEADLOCK FALSE
INVARIANTS AsWanted OneEach
PROPERTIES SettlesInTheEnd
