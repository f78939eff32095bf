------------------------------ MODULE Appetite ------------------------------
(***************************************************************************)
(* The appetite engine (app/appetite/rules.py): a pure, total function from *)
(* the facts of a submission and a versioned ruleset to an outcome and the  *)
(* reason codes that explain it.  Enum values are the strings the code      *)
(* stores; money is eurocents.                                              *)
(***************************************************************************)
EXTENDS Naturals, Sequences

CONSTANTS
    Countries,  \* two-letter codes as a broker may type them, any case
    upper       \* Python's str.upper on those codes

\* str.upper maps a code to a code, and upper-casing twice changes nothing.
ASSUME UpperAssumption ==
    /\ upper \in [Countries -> Countries]
    /\ \A c \in Countries : upper[upper[c]] = upper[c]

-----------------------------------------------------------------------------
LineOfBusiness ==
    {"commercial_property", "marine", "engineering", "financial_lines"}

Occupancy ==
    {"office", "retail", "warehouse", "light_manufacturing",
     "fireworks_manufacturing"}

Outcome == {"accept", "refer", "decline"}

ReasonCode ==
    {"LOB_OUT_OF_APPETITE", "TIV_ABOVE_AUTHORITY", "EXCLUDED_OCCUPANCY",
     "SANCTIONED_COUNTRY", "WITHIN_APPETITE"}

\* What the engine reads of a submission.  Intake rejects tiv_eur <= 0.
SubmissionFacts ==
    [line_of_business : LineOfBusiness, tiv_eur : Nat \ {0},
     occupancy : Occupancy, country : Countries]

\* Intake stores the country in upper case.
stored(f) == [f EXCEPT !.country = upper[@]]

\* The rule payload of one ruleset version; country codes in any case.
RulesetSpec ==
    [allowed_lobs : SUBSET LineOfBusiness, max_tiv_eur : Nat,
     excluded_occupancies : SUBSET Occupancy,
     sanctioned_countries : SUBSET Countries]

\* The seeded ruleset: commercial property up to EUR 10,000,000.
V1_RULES ==
    [allowed_lobs |-> {"commercial_property"},
     max_tiv_eur |-> 1000000000,
     excluded_occupancies |-> {"fireworks_manufacturing"},
     sanctioned_countries |-> {"KP", "IR", "SY", "RU"}]

-----------------------------------------------------------------------------
\* Both sides of the sanctions test are upper-cased.
sanctioned(f, rs) ==
    upper[f.country] \in {upper[c] : c \in rs.sanctioned_countries}

excluded(f, rs) == f.occupancy \in rs.excluded_occupancies

out_of_appetite(f, rs) == f.line_of_business \notin rs.allowed_lobs

\* A risk exactly at the authority band is within it.
above_authority(f, rs) == f.tiv_eur > rs.max_tiv_eur

reason(holds, code) == IF holds THEN <<code>> ELSE << >>

decline_reasons(f, rs) ==
    reason(sanctioned(f, rs), "SANCTIONED_COUNTRY")
        \o reason(excluded(f, rs), "EXCLUDED_OCCUPANCY")

refer_reasons(f, rs) ==
    reason(out_of_appetite(f, rs), "LOB_OUT_OF_APPETITE")
        \o reason(above_authority(f, rs), "TIV_ABOVE_AUTHORITY")

\* Slip: a decline does not stop the collection of reasons.
SlipNoShortCircuit(f, rs) ==
    IF decline_reasons(f, rs) # << >>
    THEN [outcome |-> "decline",
          reason_codes |-> decline_reasons(f, rs) \o refer_reasons(f, rs)]
    ELSE IF refer_reasons(f, rs) # << >>
    THEN [outcome |-> "refer", reason_codes |-> refer_reasons(f, rs)]
    ELSE [outcome |-> "accept", reason_codes |-> <<"WITHIN_APPETITE">>]

\* Slip: referrals are tested before declines.
SlipReferFirst(f, rs) ==
    IF refer_reasons(f, rs) # << >>
    THEN [outcome |-> "refer", reason_codes |-> refer_reasons(f, rs)]
    ELSE IF decline_reasons(f, rs) # << >>
    THEN [outcome |-> "decline", reason_codes |-> decline_reasons(f, rs)]
    ELSE [outcome |-> "accept", reason_codes |-> <<"WITHIN_APPETITE">>]

\* Hard declines return first, then referrals, else accept.
assess(f, rs) ==
    IF decline_reasons(f, rs) # << >>
    THEN [outcome |-> "decline", reason_codes |-> decline_reasons(f, rs)]
    ELSE IF refer_reasons(f, rs) # << >>
    THEN [outcome |-> "refer", reason_codes |-> refer_reasons(f, rs)]
    ELSE [outcome |-> "accept", reason_codes |-> <<"WITHIN_APPETITE">>]
=============================================================================
