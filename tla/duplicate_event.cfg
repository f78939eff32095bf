\* Two binds pass the existing-binding check together.
CONSTANTS
    Countries <- MCCountries
    upper <- MCUpper
    Creates = {s1}
    Assesses = {a1}
    Quotes = {1}
    Binds = {b1, b2}
    target <- OneTarget
    Bodies <- OfficeBodies
    RulesetVersions = {1}
    Rulesets <- MCRulesets
    RateTableVersions = {1, 2}
    PolicyNumbers = {1}
    policy_number_for <- DistinctNumbers
    PageSize = 20
    MaxAttempts = 1
    MaxDay = 0
    Faults = FALSE
    Cancellable = {}
SPECIFICATION Spec
INVARIANTS
    NoDuplicateEvent
CHECK_DEADLOCK FALSE
