-------------------------- MODULE MCAppetiteReview --------------------------
(***************************************************************************)
(* Every combination of rules around the seeded ruleset, and every risk on   *)
(* either side of each rule, at the authority band and one cent around it.   *)
(***************************************************************************)
EXTENDS AppetiteReview

MCCountries == {"FR", "fr", "RU", "ru", "KP", "IR", "SY"}

MCUpper ==
    [c \in MCCountries |->
        CASE c = "fr" -> "FR" [] c = "ru" -> "RU" [] OTHER -> c]

Band == V1_RULES.max_tiv_eur

MCRisks ==
    [line_of_business : {"commercial_property", "marine"},
     tiv_eur : {1, Band - 1, Band, Band + 1},
     occupancy : {"office", "fireworks_manufacturing"},
     country : {"FR", "ru"}]

MCRulebooks ==
    {V1_RULES} \union
    [allowed_lobs : SUBSET {"commercial_property", "marine"},
     max_tiv_eur : {Band - 1, Band},
     excluded_occupancies : SUBSET {"office", "fireworks_manufacturing"},
     sanctioned_countries : {{}, {"ru"}, {"RU", "KP"}, {"fr"}}]
=============================================================================
