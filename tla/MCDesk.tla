------------------------------- MODULE MCDesk -------------------------------
(***************************************************************************)
(* One file, worked on at the desk and elsewhere.                           *)
(***************************************************************************)
EXTENDS Desk, TLC

MCCountries == {"FR", "RU", "KP", "IR", "SY"}
MCUpper == [c \in MCCountries |-> c]

MCRulesets == [v \in RulesetVersions |-> V1_RULES]

Office ==
    [line_of_business |-> "commercial_property", tiv_eur |-> 1000000000,
     occupancy |-> "office", country |-> "FR"]

\* Accepted; referred; declined.
MCBodies ==
    {Office, [Office EXCEPT !.tiv_eur = 1000000001], [Office EXCEPT !.country = "KP"]}

\* Requests numbered by the submission they address: 11 and 41 go to 1.
MCTarget == [r \in Addressed |-> r % 10]

MCNumbers == [q \in Quotes |-> 1]

Bff == [bearer |-> TRUE, sound |-> TRUE, scope |-> Scopes, identity |-> <<"bff">>]

\* Another client; a reader; a forged token.
Broker == [Bff EXCEPT !.identity = <<"broker", "id">>]
Reader == [Bff EXCEPT !.scope = {"underwriting:read"}, !.identity = <<"reader">>]
Forged == [Bff EXCEPT !.sound = FALSE]

MCCredentials ==
    [r \in Requests |-> IF r \in Own THEN {Bff} ELSE {Broker, Reader, Forged}]
=============================================================================
