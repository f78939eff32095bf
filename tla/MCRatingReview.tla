--------------------------- MODULE MCRatingReview ---------------------------
(***************************************************************************)
(* The first seeded table, two coarse variants of the seeded tables (whose  *)
(* exact fractions fit TLC's integers), and risks on either side of a       *)
(* threshold scaled down, with premiums that end in halves.                 *)
(***************************************************************************)
EXTENDS RatingReview

MCOccupancy == {"office", "retail", "warehouse", "fireworks_manufacturing"}

\* Every stage leaves a line and most subtotals a fraction of a cent.
Coarse ==
    [V2_RULES EXCEPT !.base_rate_permille = frac(250, 1),
                     !.expense_loading = frac(1, 4), !.risk_margin = Zero,
                     !.cat_provision = frac(1, 10), !.ipt_rate = frac(1, 10),
                     !.fixed_fees_minor = 30]

\* No fee, a tax alone, the discount for all, and one occupancy without a factor.
Sparse ==
    [V1_RULES EXCEPT !.adjustments[2].applies_when = NoFlag,
                     !.base_rate_permille = frac(500, 1),
                     !.occupancy_factors = [office |-> One, retail |-> frac(11, 10)],
                     !.ipt_rate = frac(1, 8)]

MCRateTables == {V1_RULES, Coarse, Sparse}

MCSubmissions ==
    [tiv_eur : (1 .. 9) \union
         {30, 49, 50, 51, 52, 60, 200, 1000, 3000, 10000, 12000},
     occupancy : {"office", "retail", "warehouse"},
     sprinklered : BOOLEAN,
     commercial_adjustment : {frac(84, 100), frac(85, 100), One, frac(115, 100)}]
=============================================================================
