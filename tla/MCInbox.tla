------------------------------ MODULE MCInbox -------------------------------
(***************************************************************************)
(* Three submissions, accepted or referred; the first may be bound.          *)
(***************************************************************************)
EXTENDS Inbox, TLC

MCCountries == {"FR", "RU", "KP", "IR", "SY"}
MCUpper == [c \in MCCountries |-> c]
MCRulesets == [v \in RulesetVersions |-> V1_RULES]

Office ==
    [line_of_business |-> "commercial_property", tiv_eur |-> 1000000000,
     occupancy |-> "office", country |-> "FR"]

MCBodies == {Office, [Office EXCEPT !.line_of_business = "marine"]}

\* Requests numbered by the submission they address: 11 and 21 go to 1.
MCTarget == [r \in Addressed |-> r % 10]

MCNumbers == [q \in Quotes |-> 1]

\* What happens after the client has its answers tells nothing new.
StillReading == scan # "read"
=============================================================================
