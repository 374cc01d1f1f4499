SPECIFICATION FairSpec
CONSTANTS
    None = None
    Connecting = Connecting
    Party = {dialer, host}
    Intros = {1, 2}
    Conns = {1, 2}
    Transports = {"memory", "tls", "webrtc"}
    Publics = {{host}, {dialer, host}}
    MaxFaults = 1
    MaxStops = 1
INVARIANTS OneLiveConnection AtMostOnce CallbackOnce DialerInformed
PROPERTIES DialerAnswered
CHECK_DEADLOCK FALSE
