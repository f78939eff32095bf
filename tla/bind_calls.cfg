\* One bind in detail; its quote's policy may exist in any status.
CONSTANTS
    Countries <- MCCountries
    upper <- MCUpper
    Creates = {s1}
    Assesses = {a1}
    Quotes = {1, 2}
    Binds = {b1}
    self = b1
    NoRef = NoRef
    target <- MCTarget
    Bodies <- MCBodies
    RulesetVersions = {1}
    Rulesets <- MCRulesets
    RateTableVersions = {1, 2}
    PolicyNumbers = {1, 2, 3}
    policy_number_for <- MCNumbers
    PageSize = 2
    MaxAttempts = 2
    MaxDay = 0
    Faults = TRUE
    Cancellable = {2}
    Skew = 2
    DefaultTtl = 4
    CallTimeout = 1
    Lives = {2, 4}
    Horizon = 4
SPECIFICATION CallsFairSpec
INVARIANTS
    CachedTokenAccepted
    ConflictOnlyWhenUnlisted
    EventEffort
PROPERTIES
    ImplementsWorkbenchSteps
    BindEnds
CHECK_DEADLOCK FALSE
