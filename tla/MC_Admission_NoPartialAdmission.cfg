CONSTANTS
    a1 = a1
    a2 = a2
    b1 = b1
    v6 = v6
    c1 = c1
    c2 = c2
    c3 = c3
    NoSubnet = NoSubnet
    IP <- MCIP
    Conn <- MCConn
    Subnet24 = {"A", "B"}
    Subnet16 = {"X"}
    Prefix24 <- MCPrefix24
    Prefix16 <- MCPrefix16
    MaxPerSubnet24 = 2
    MaxPerSubnet16 = 2
    MaxConnections = 2
SPECIFICATION Spec
SYMMETRY ConnSymmetry
INVARIANT
    NoPartialAdmission
