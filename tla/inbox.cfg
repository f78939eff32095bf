\* A client pages by two through three submissions, one of them bound meanwhile.
CONSTANTS
    Countries <- MCCountries
    upper <- MCUpper
    Creates = {1, 2, 3}
    Assesses = {11, 21, 12}
    Past = {1, 2, 11, 12, 31}
    Quotes = {31}
    Binds = {41}
    target <- MCTarget
    Bodies <- MCBodies
    RulesetVersions = {1}
    Rulesets <- MCRulesets
    RateTableVersions = {1, 2}
    PolicyNumbers = {1}
    policy_number_for <- MCNumbers
    PageSize = 20
    MaxAttempts = 1
    MaxDay = 0
    Faults = FALSE
    Cancellable = {}
    PageLimit = 2
    Moments = {1, 2, 3}
SPECIFICATION InboxSpec
INVARIANTS
    ListingAgreesWithGuards
    PagingMissesNothing
    BoundFlagTruthful
CONSTRAINT
    StillReading
CHECK_DEADLOCK FALSE
