\* A session over udp without a stripe, in which the target ends its answer.
CONSTANTS
    Total <- MoreUp
    Cap = 1
    Gates = {"udp"}
    Lossy = FALSE
SPECIFICATION FairSpec
PROPERTIES EndReaches
CHECK_DEADLOCK FALSE
