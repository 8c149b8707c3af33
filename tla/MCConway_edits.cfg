\* Small worlds in two colours, edited, cleared and randomised as they evolve.
CONSTANTS
    AxisLength = 4
    Channel <- Bytes
    MaxAge = 1
    Seeds <- Triples
    SeedAges <- Young
    Edits <- OneEdit
    Palette <- BlackAndWhite
    RandomWorlds <- OneDot
SPECIFICATION Spec
INVARIANTS TypeOK CandidatesSuffice
PROPERTIES LifeSpec NeverYounger ThreeParents CandidatesAreDropped
