\* A ruleset and a rate table are published while a referred or a declined risk
\* is assessed twice, quoted and bound, under every fault.
CONSTANTS
    Countries <- MCCountries
    upper <- MCUpper
    Creates = {s1}
    Assesses = {a1, a2}
    Quotes = {1}
    Binds = {b1}
    target <- OneTarget
    Bodies <- MixedBodies
    RulesetVersions = {1, 2}
    Rulesets <- MCRulesets
    RateTableVersions = {1, 2, 3}
    PolicyNumbers = {1}
    policy_number_for <- DistinctNumbers
    PageSize = 20
    MaxAttempts = 1
    MaxDay = 0
    Faults = TRUE
    Cancellable = {}
SPECIFICATION Spec
INVARIANTS
    AuditTrailComplete
    PolicyNeedsAppetite
    DecisionReplayable
    DeclinedNeverQuoted
PROPERTIES
    ImplementsFile
    FrozenForNewRequests
CHECK_DEADLOCK FALSE
