\* Every connection is decided on, and every session that has ended or was
\* given up returns its seats.
CONSTANTS
    Conns = {c1, c2, c3}
    Users = {u1}
    IPs = {a1}
    NoHost = NoHost
    SIDs = {s1}
    MaxStripe = 2
    None = None
    Configs <- OneConfig
    Home <- OneHome
SPECIFICATION FairSpec
PROPERTIES Decided SeatsReturned
