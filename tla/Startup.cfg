SPECIFICATION Spec
CONSTANTS
    Order <- MCOrder
    Supported <- MCSupported
    Tokens <- MCTokens
    Prefixes <- MCPrefixes
    MaxServers = 3
    PortRange = 65536
    NsStrings <- MCNsStrings
    SystemServers <- MCSystemServers
    MaxArgs = 6
INVARIANTS
    TypeOK
    OfferIsWhatWasAsked
    ServersAreAsAsked
    DestIsChecked
CHECK_DEADLOCK FALSE
