SPECIFICATION FairSpec
CONSTANTS
    listen = listen
    write = write
    Call = {listen, write}
    Subscribes = {listen}
    Endpoint = {1, 2}
    EndpointsOf <- TwoHosts
    WsUrl <- OverSocket
    WsSupport = {1, 2}
    MaxSocket = 3
    MaxEvent = 1
    MayDisconnect = TRUE
INVARIANTS NoEventLost Accounted
PROPERTIES SilentAfterClose CallEnds
CHECK_DEADLOCK FALSE
