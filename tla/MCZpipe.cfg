SPECIFICATION ZpipeSpec
CONSTANTS
    CHUNK = 2
    MaxCarried = 3
    MaxFile = 5
INVARIANT
    OkMeansAll
PROPERTY
    ZpipeEnds
