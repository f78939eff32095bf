\* Two submissions whose quote ids hash to one policy number, under fair handlers;
\* drafts may be cancelled and a day may pass.
CONSTANTS
    Countries <- MCCountries
    upper <- MCUpper
    Creates = {1, 2}
    Assesses = {11, 12}
    Quotes = {21, 22}
    Binds = {31, 32}
    target <- DigitTarget
    Bodies <- OfficeBodies
    RulesetVersions = {1}
    Rulesets <- MCRulesets
    RateTableVersions = {1, 2}
    PolicyNumbers = {1}
    policy_number_for <- OneNumber
    PageSize = 20
    MaxAttempts = 1
    MaxDay = 1
    Faults = FALSE
    Cancellable = {1}
SPECIFICATION FairSpec
INVARIANTS
    UniqueBinding
    PublishedFlagTruthful
    IInv
PROPERTIES
    RequestsAnswered
CHECK_DEADLOCK FALSE
