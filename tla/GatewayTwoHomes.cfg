\* The connections of one session come from two addresses.
CONSTANTS
    Conns = {c1, c2}
    Users = {u1}
    IPs = {a1, a2}
    NoHost = NoHost
    SIDs = {s1}
    MaxStripe = 2
    None = None
    Configs <- TwoPlaces
    Home <- AnyHome
SPECIFICATION Spec
INVARIANTS PlaceFreed
