SPECIFICATION FairSpec
CONSTANTS
    Hosts <- MCHosts
    Far <- MCFar
    Gateway = "gw"
    Resolver = "ns"
    Requests <- OneAsks
    CacheSize = 1
    NumSockets = 1
    NumPorts = 3
    IdSpace = 1
    ArpTimeout = 0
    PingTimeout = 0
    DnsTimeout = 0
    Backlog = 1
    Names = {"a", "1.2.3.4", "none", "bad"}
    Literals = {"1.2.3.4"}
    Malformed = {"bad"}
    AddressOf <- MCAddressOf
    MaxLookups = 2
    PingRuns = 1
    PingCount = 2
INVARIANTS   AnswerIsForName 
PROPERTIES CallReturns
CHECK_DEADLOCK FALSE
