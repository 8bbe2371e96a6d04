\* Two connections, four chunks; connections are reset, Close at any time.
CONSTANTS
    N = 2
    Total = 4
    QueueLen = 1
    Wire = 2
    Lossy = TRUE
    Hasty = TRUE
SPECIFICATION FairSpec
INVARIANTS TypeOK NoPanic DrainsMarkers NoSilentLoss
PROPERTIES ImplementsStream WritesReturn EndArrives CloseEnds
