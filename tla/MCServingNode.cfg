SPECIFICATION Spec
CONSTANTS
    e1 = e1
    e2 = e2
    Targets <- MCTargets
    Offers <- MCOffers
    DefaultWeight = 1
    Bodies <- MCBodies
INVARIANTS
    TypeOK
    TextIsWholeLines
    
    PricedByServingEngine
PROPERTIES
    EveryStreamEnds
    GoneEngineLeaves
