\* A tcp connection, a stripe or udp between the sides, which may be lost.
CONSTANTS
    Total <- MoreUp
    Cap = 1
    Gates = {"tcp", "stripe", "udp"}
    Lossy = TRUE
SPECIFICATION FairSpec
INVARIANTS TypeOK
PROPERTIES RelayIsStream RelayTearsNothing SessionEndsForOne
\* A session over udp may hang: see RelayUdp.
CHECK_DEADLOCK FALSE
