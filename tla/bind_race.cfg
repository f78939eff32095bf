\* Two binds, a re-quote and every fault, on one submission.
CONSTANTS
    Countries <- MCCountries
    upper <- MCUpper
    Creates = {s1}
    Assesses = {a1}
    Quotes = {1, 2}
    Binds = {b1, b2}
    target <- OneTarget
    Bodies <- OfficeBodies
    RulesetVersions = {1}
    Rulesets <- MCRulesets
    RateTableVersions = {1, 2}
    PolicyNumbers = {1, 2}
    policy_number_for <- DistinctNumbers
    PageSize = 1
    MaxAttempts = 1
    MaxDay = 0
    Faults = TRUE
    Cancellable = {}
SPECIFICATION Spec
SYMMETRY BindSymmetry
INVARIANTS
    TypeOK
    BindingBacked
    BindAnswerTruthful
CHECK_DEADLOCK FALSE
