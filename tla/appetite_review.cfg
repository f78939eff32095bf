\* Every revision of every ruleset around the seeded one.
CONSTANTS
    Countries <- MCCountries
    upper <- MCUpper
    Risks <- MCRisks
    Rulebooks <- MCRulebooks
SPECIFICATION Spec
INVARIANTS
    GravestRulePrevails
PROPERTIES
    TighteningNeverSoftens
