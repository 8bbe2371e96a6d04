\* Two users and one session id; sessions of up to three connections.
CONSTANTS
    Conns = {c1, c2, c3}
    Users = {u1, u2}
    IPs = {a1}
    NoHost = NoHost
    SIDs = {s1}
    MaxStripe = 3
    None = None
    Configs <- OneConfig
    Home <- OneHome
SYMMETRY ConnSymmetry
SPECIFICATION Spec
INVARIANTS TypeOK SeatsExact ServedWhole NoOrphan ServedOrDropped OneUserPerStripe
