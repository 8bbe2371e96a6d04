\* Two local connections to two hosts; one connection of three units up and
\* one down, two tokens; rings of one, three, four and seven lines.
CONSTANTS
    None = None
    Conns = {c1, c2}
    Names = {h1, h2}
    MaxBytes = 1
    Nothing = Nothing
    t1 = t1
    t2 = t2
    Tokens <- MCTokens
    MaxPayload = 2
    Base = 2
    Width = 3
    Total <- ThreeUpOneDown
    Sizes = {0, 1, 3, 4, 7}
    MaxLines = 14
SPECIFICATION MCFairSpec
INVARIANTS SocksTypeOK Counted Tidy NonceOnce InStep RingIsTail
PROPERTIES MeterForward HandshakeEnds
\* Connections end, and so do the bounds.
CHECK_DEADLOCK FALSE
