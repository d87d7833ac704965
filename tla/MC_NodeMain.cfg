\* The validator over every bootstrap list of up to 3 multiaddrs of up to
\* 2 parts; then the node with 2 remote peers, 4 network events, 2 SIGINTs
\* and a 3-bit peer counter.
CONSTANTS
    NoIP = NoIP  NoSubnet = NoSubnet
    a1 = a1  b1 = b1  c1 = c1  v1 = v1  w1 = w1  X = X  Y = Y  Z = Z
    p1 = p1  p2 = p2
    IPv4 <- MCIPv4
    IPv6 = {v1}
    Word = {w1}
    Prefix16 <- MCPrefix16
    MinBootstrap = 3
    MaxParts = 2
    MaxPeers = 3
    MaxConnValues = {0, 1}
    Peers = {p1, p2}
    MaxEvents = 4
    MaxSignals = 2
    CounterMod = 8
SPECIFICATION NodeSpec
VIEW NodeView
INVARIANTS MatchesSpec PeerCountExact
PROPERTIES PeerCountCatchesUp
CHECK_DEADLOCK FALSE
