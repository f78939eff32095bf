---------------------------- MODULE MCBindCalls -----------------------------
(***************************************************************************)
(* A bind of the second of two quotes; a third policy_number is somebody     *)
(* else's.                                                                  *)
(***************************************************************************)
EXTENDS BindCalls, TLC

MCCountries == {"FR", "RU", "KP", "IR", "SY"}
MCUpper == [c \in MCCountries |-> c]
MCRulesets == [v \in RulesetVersions |-> V1_RULES]

MCBodies ==
    {[line_of_business |-> "commercial_property", tiv_eur |-> 1000000000,
      occupancy |-> "office", country |-> "FR"]}

MCTarget == [r \in Addressed |-> CHOOSE c \in Creates : TRUE]

MCNumbers == [q \in Quotes |-> q]
=============================================================================
