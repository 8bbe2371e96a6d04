\* One busy session, a server that stops answering.
CONSTANTS
    Sessions = {s1}
    Main = main
    N = 2
    FailThreshold = 3
    FailWindow = 2
    Cooldown = 3
    DialTimeout = 1
    Outages = {"silent"}
    Loss = {}
    Datagram = FALSE
    Busy = TRUE
    Unstable = TRUE
    None = None
SPECIFICATION FairSpec
PROPERTIES FailsOver
