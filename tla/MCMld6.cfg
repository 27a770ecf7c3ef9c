CONSTANTS
    h1 = h1
    h2 = h2
    Host = {h1, h2}
    FreeBSD = {h1}
    MaxClaims = 2
SPECIFICATION FairSpec
PROPERTIES DoneByLastReporter Reported
