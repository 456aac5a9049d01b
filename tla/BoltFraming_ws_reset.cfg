\* Bolt over WebSocket with a RESET acknowledged by bolt_client_send.
CONSTANTS
    WSModes = {TRUE}
    Payloads <- ShortReplies
    MaxMessages = 3
    ResetModes = {TRUE}
SPECIFICATION Spec
CHECK_DEADLOCK FALSE
INVARIANTS
    WireFramesDelivered
