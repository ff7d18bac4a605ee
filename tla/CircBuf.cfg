\* Two producers and one reader on a ring of one entry (two slots).
SPECIFICATION FairSpec
CONSTANTS
    p1 = p1
    p2 = p2
    c1 = c1
    c2 = c2
    d1 = d1
    d2 = d2
    d3 = d3
    d4 = d4
    Zero = Zero
    Size = 1
    Producers <- TwoProducers
    Consumers <- OneConsumer
    Data <- ThreeBlocks
INVARIANTS TypeOK OwnedIsLive ExclusiveOwnership
PROPERTIES ImplementsHandOff CallsReturn
