\* Three machines and an unknown address; limit and pin change by reload, also
\* between the connections of one session.
CONSTANTS
    Conns = {c1, c2, c3}
    Users = {u1}
    IPs = {a1, a2, a3}
    NoHost = NoHost
    SIDs = {s1}
    MaxStripe = 2
    None = None
    Configs <- Reloads
    Home <- OneHome
SYMMETRY ConnSymmetry
SPECIFICATION Spec
INVARIANTS PinHolds
PROPERTIES ImplementsSeatSpec
