\* Two handles, three addresses; a window of 2 ticks admitting 1 attempt;
\* backoff delays 1, 2 and a session ban at 3 failures; 2 ticks.
CONSTANTS
    a1 = a1
    b1 = b1
    v6 = v6
    c1 = c1
    c2 = c2
    NoSubnet = NoSubnet
    IP <- MCIP
    Conn <- MCConn
    Subnet24 = {"A", "B"}
    Subnet16 = {"X"}
    Prefix24 <- MCPrefix24
    Prefix16 <- MCPrefix16
    MaxPerSubnet24 = 2
    MaxPerSubnet16 = 1
    MaxConnections = 1
    MaxPerWindow = 1
    WindowDuration = 2
    BaseDelay = 1
    MaxDelay = 2
    MaxFailures = 3
    MaxAges = {1}
    FailureBound = 3
    MaxTime = 2
SPECIFICATION PipelineSpec
SYMMETRY ConnSymmetry
INVARIANTS PipelineTypeOK SybilLimits IInv TotalCap WindowCap NoSpuriousRejection BoundedTimes CapacityAdvice BackoffRespected WaitAdvice
