\* Two sessions, two servers that come and go, lost dials and probes.
CONSTANTS
    Sessions = {s1, s2}
    Main = main
    N = 2
    FailThreshold = 3
    FailWindow = 2
    Cooldown = 3
    DialTimeout = 1
    Outages = {"refusing", "silent"}
    Loss = {"dial", "probe"}
    Datagram = FALSE
    Busy = FALSE
    Unstable = TRUE
    None = None
SYMMETRY SessionSymmetry
SPECIFICATION Spec
INVARIANTS TypeOK
PROPERTIES SwitchJustified
