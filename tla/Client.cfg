SPECIFICATION FairSpec
CONSTANTS
    Topic <- Spellings
    Strip <- StripOne
    Name = {1, 2}
    Host = {h1, h2}
    NoHost = NoHost
    Port = {1, 5}
    PortRange = 4
    MaxSessions = 3
    MaxFaults = 2
INVARIANTS
    TypeOK
    RecordsHaveSession
    NullOnlyInErase
    NothingLeaks
    EndpointKept
PROPERTY
    CallsReturn
