\* Every quote after every other, under three rate tables.
CONSTANTS
    Occupancy <- MCOccupancy
    HIGH_TIV_THRESHOLD_EUR = 50
    Submissions <- MCSubmissions
    RateTables <- MCRateTables
SPECIFICATION Spec
INVARIANTS
    TrailExplainsPremium
    TaxesWithinACent
PROPERTIES
    PriceFollowsRisk
