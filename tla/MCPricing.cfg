SPECIFICATION PriceSpec
CONSTANTS
    MaxRoot = 7
    MinMilli = 1
    MaxMilli = 5
    Milli = 3
    MaxU64 = 40
    MaxU128 = 6000
    Vals <- MCVals
    Bills <- MCBills
INVARIANTS
    TypeOK
    RootIsFloor
    MultiplierIsExact
    PriceIsExact
    NeverOvercharged
PROPERTY
    Terminates
CHECK_DEADLOCK FALSE
