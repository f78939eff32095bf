---------------------------- MODULE MCWorkbench -----------------------------
(***************************************************************************)
(* Small instances of Workbench.  The request sets and the switches come    *)
(* from the configurations; the data they work on is defined here.          *)
(***************************************************************************)
EXTENDS WorkbenchInv, TLC

\* Codes as typed, in both cases.
MCCountries == {"FR", "fr", "RU", "ru", "DE", "KP", "IR", "SY"}

MCUpper ==
    [c \in MCCountries |->
        CASE c = "fr" -> "FR" [] c = "ru" -> "RU" [] OTHER -> c]

\* Version 2 widens the lines of business and sanctions a lower-case code.
MCRulesets ==
    [v \in RulesetVersions |->
        IF v = 1 THEN V1_RULES
        ELSE [V1_RULES EXCEPT !.allowed_lobs = {"commercial_property", "marine"},
                              !.sanctioned_countries = {"KP", "fr"}]]

Office ==
    [line_of_business |-> "commercial_property", tiv_eur |-> 1000000000,
     occupancy |-> "office", country |-> "FR"]

\* Accepted by version 1, exactly at the authority band; sanctioned by version 2.
OfficeBodies == {Office}

\* Version 1 refers the first for its line of business and declines the second,
\* typed in lower case; version 2 accepts both.  The third is not a valid body.
MixedBodies ==
    {[Office EXCEPT !.line_of_business = "marine", !.country = "DE"],
     [Office EXCEPT !.occupancy = "retail", !.country = "ru"],
     [Office EXCEPT !.tiv_eur = 0]}

\* All requests address one submission.
OneTarget == [r \in Addressed |-> CHOOSE c \in Creates : TRUE]

\* Requests numbered by the submission they address: 11 and 21 go to 1.
DigitTarget == [r \in Addressed |-> r % 10]

\* Every quote id hashes to a number of its own, or all to one.
DistinctNumbers == [q \in Quotes |-> q]
OneNumber == [q \in Quotes |-> 1]

\* A retry: no bind is sent before the one before it has been answered.
OneBindAtATime ==
    Cardinality({b \in Binds : pc[b] \notin {"idle"} \union Answers}) <= 1

\* Binds to one submission are interchangeable.
BindSymmetry == Permutations(Binds)
=============================================================================
