\* An underwriter takes in a risk, assesses, quotes and binds it, reloading at will,
\* while another client, or one without the right to, binds it too.
CONSTANTS
    Countries <- MCCountries
    upper <- MCUpper
    Creates = {1}
    Assesses = {11}
    Quotes = {41}
    Binds = {51, 61}
    target <- MCTarget
    Bodies <- MCBodies
    RulesetVersions = {1}
    Rulesets <- MCRulesets
    RateTableVersions = {1, 2}
    PolicyNumbers = {1}
    policy_number_for <- MCNumbers
    PageSize = 20
    MaxAttempts = 1
    MaxDay = 0
    Faults = FALSE
    Cancellable = {}
    AuthOn = TRUE
    Names = {"bff", "broker", "reader", "id"}
    Own = {1, 11, 41, 51}
    credentials <- MCCredentials
    bff <- Bff
    Nobody = 0
SPECIFICATION DeskFairSpec
INVARIANTS
    ButtonsMatchGuards
    WritesAreAccountable

    
CHECK_DEADLOCK FALSE
