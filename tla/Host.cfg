\* A gateway and its menu, a client and its menu, or an update; two changes
\* and one fault.
CONSTANTS
    n1 = n1
    n2 = n2
    NoName = NoName
    a1 = a1
    a2 = a2
    p1 = p1
    p2 = p2
    Names <- MCNames
    IPs <- MCIPs
    Updaters <- MCUpdaters
    Releases <- MCReleases
    ServerFiles <- MCServerFiles
    ClientFiles <- MCClientFiles
    ClientEnvs <- MCClientEnvs
    NoConfig = NoConfig
    Torn = Torn
    MaxEntries = 2
    MaxKey = 2
    MaxEdits = 2
    MaxFaults = 1
SPECIFICATION FairSpec
INVARIANTS TypeOK Applied OwnRules ProgramWhole
PROPERTIES FilesWhole FollowsFile
\* A machine whose menu is closed and whose file does not load may rest.
CHECK_DEADLOCK FALSE
