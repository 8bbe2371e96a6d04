\* Two busy sessions, threshold 2; servers fall silent and come back.
CONSTANTS
    Sessions = {s1, s2}
    Main = main
    N = 2
    FailThreshold = 2
    FailWindow = 2
    Cooldown = 3
    DialTimeout = 1
    Outages = {"silent"}
    Loss = {}
    Datagram = FALSE
    Busy = TRUE
    Unstable = TRUE
    None = None
SPECIFICATION FairSpec
PROPERTIES FailsOver Answered
