CONSTANTS
    Conns = {c1, c2, c3}
    DrainingTimeouts = {"zero", "positive", "negative"}
    Writers = {w1, w2}
    b1 = b1
    b2 = b2
    Branches = {b1, b2}
    Configs <- MCConfigs
    Menu <- MCMenu
    NoEntry = NoEntry
    Addrs = {a1, a2}
    Unparsable = Unparsable
    MaxRetries = 2
    MaxBacklog = 0
    MaxDeletes = 1
    MaxFaults = 1
SPECIFICATION GatewaySpec
INVARIANT NoLostCompletion
PROPERTIES ClosedGroupShrinks DrainEnds TableSpec EveryCallReturns GatewayFollows
