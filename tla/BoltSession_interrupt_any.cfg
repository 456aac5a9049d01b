\* A driver that may send RESET while any request it waits on is in
\* flight (spec.md 4.4: INTERRUPTED is entered when RESET arrives while a
\* request is in flight), including LOGON, LOGOFF, ROUTE and HELLO.
CONSTANTS
    MaxRequests = 6
    Pipeline = 1
    Interrupts = TRUE
    MaxRecords = 1
    Interruptible = {"HELLO", "LOGON", "LOGOFF", "RUN", "PULL", "DISCARD", "BEGIN", "COMMIT", "ROLLBACK", "ROUTE"}
    \* the openings of MCBoltSession, on either byte order
    Handshakes <- MCHandshakes
    HostOrders = {"little", "big"}
SPECIFICATION Spec
CHECK_DEADLOCK FALSE
INVARIANTS
    NoAssert
