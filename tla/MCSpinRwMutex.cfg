SPECIFICATION FairSpec
CONSTANTS
    N = 4
    Ratios = {1, 2}
INVARIANT
    ReadersXorWriter
PROPERTIES
    ReadersDoNotStarveWriter
    SomeoneGetsIn
