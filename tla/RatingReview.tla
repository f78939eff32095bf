---------------------------- MODULE RatingReview ----------------------------
(***************************************************************************)
(* Quotes given one after another: each prices some submission under the    *)
(* rate table in force, and a new version may come into force in between.   *)
(***************************************************************************)
EXTENDS Rating, Integers

CONSTANTS
    Submissions,  \* what the engine reads of a submission
    RateTables    \* the tables that may be published

Frac == [num : Nat, den : Nat \ {0}]

IsTable(t) ==
    /\ t.occupancy_factors \in [DOMAIN t.occupancy_factors -> Frac]
    /\ t.adjustments \in Seq([name : STRING, factor : Frac,
                              applies_when : Flags \union {NoFlag}])
    /\ {t.base_rate_permille, t.expense_loading, t.risk_margin, t.cat_provision,
         t.commercial_adjustment_min, t.commercial_adjustment_max, t.ipt_rate}
           \subseteq Frac
    /\ t.fixed_fees_minor \in Nat

ASSUME ReviewAssumption ==
    /\ HIGH_TIV_THRESHOLD_EUR \in Nat
    /\ Submissions \subseteq
          [tiv_eur : Nat \ {0}, occupancy : Occupancy, sprinklered : BOOLEAN,
           commercial_adjustment : Frac]
    /\ \A t \in RateTables : IsTable(t)

\* What a table must keep to for the properties below, as the seeded ones do: no
\* tax above the premium, and neither a discount for the large nor a loading for
\* the sprinklered.
Sound(t) ==
    /\ ~less(One, t.ipt_rate)
    /\ \A n \in 1 .. Len(t.adjustments) :
          /\ t.adjustments[n].applies_when = "high_tiv"
                => ~less(t.adjustments[n].factor, One)
          /\ t.adjustments[n].applies_when = "sprinklered"
                => ~less(One, t.adjustments[n].factor)

ASSUME TableAssumption == \A t \in RateTables : Sound(t)

VARIABLES
    submission,  \* the one quoted last
    rate_table,  \* current()
    breakdown    \* its quote

vars == <<submission, rate_table, breakdown>>

Init ==
    /\ submission \in Submissions
    /\ rate_table \in RateTables
    /\ breakdown = rate(submission, rate_table)

QuoteAnother ==
    /\ submission' \in Submissions
    /\ breakdown' = rate(submission', rate_table)
    /\ UNCHANGED rate_table

Requote ==
    /\ rate_table' \in RateTables
    /\ breakdown' = rate(submission, rate_table')
    /\ UNCHANGED submission

Next == QuoteAnother \/ Requote

Spec == Init /\ [][Next]_vars

-----------------------------------------------------------------------------
\* The product of the factors that apply.
Factors(s, t) ==
    LET effect(a) == IF applies(a, s) THEN a.factor ELSE One
        product[n \in 0 .. Len(t.adjustments)] ==
            IF n = 0 THEN One ELSE times(effect(t.adjustments[n]), product[n - 1])
    IN  product[Len(t.adjustments)]

\* The premium in one formula, without the trail: base rate on the insured
\* value, times every factor that applies, plus fee and tax.
Exact(s, t) ==
    LET pure == times(times(frac(s.tiv_eur, 1000),
                            times(t.base_rate_permille, t.occupancy_factors[s.occupancy])),
                      Factors(s, t))
        tech == times(times(pure, plus(One, t.expense_loading)),
                      times(plus(One, t.risk_margin), plus(One, t.cat_provision)))
        comm == times(tech, s.commercial_adjustment)
    IN  [pure |-> pure, tech |-> tech, comm |-> comm,
         final |-> plus(times(comm, plus(One, t.ipt_rate)), frac(t.fixed_fees_minor, 1))]

priced == breakdown # RatingError

\* The running subtotal where a stage ends: that of the last line of this or an
\* earlier stage.
EndOf(stages) ==
    LET lines == {i \in DOMAIN breakdown.line_items :
                     breakdown.line_items[i].stage \in stages}
        end == CHOOSE i \in lines : \A j \in lines : j <= i
    IN  breakdown.line_items[end].running_subtotal_minor

\* A quote explains itself: the premium is the one formula rounded once, and
\* every staged subtotal is both its own formula rounded once and the running
\* subtotal of the trail where the stage ends, whichever lines are absent.
TrailExplainsPremium ==
    priced =>
        LET exact == Exact(submission, rate_table)
            upto == <<"loss_cost", "technical", "commercial", "taxes">>
            ends == [n \in 1 .. 4 |-> EndOf({upto[i] : i \in 1 .. n})]
        IN  /\ breakdown.pure_premium_minor = _to_minor(exact.pure)
            /\ breakdown.technical_premium_minor = _to_minor(exact.tech)
            /\ breakdown.commercial_premium_minor = _to_minor(exact.comm)
            /\ breakdown.premium_minor = _to_minor(exact.final)
            /\ ends = <<breakdown.pure_premium_minor,
                        breakdown.technical_premium_minor,
                        breakdown.commercial_premium_minor,
                        breakdown.premium_minor>>

\* Rounding the premium and the commercial premium apart moves the reported
\* taxes by at most a cent from the fee plus the tax on the reported commercial
\* premium.
TaxesWithinACent ==
    priced =>
        LET levied == rate_table.fixed_fees_minor
                        + _to_minor(times(frac(breakdown.commercial_premium_minor, 1),
                                          rate_table.ipt_rate))
        IN  breakdown.taxes_minor - levied \in -1 .. 1

\* Under one table a risk that is larger, and otherwise no better protected and
\* sold no cheaper, is never quoted a lower premium, across the high-TIV
\* threshold and any rounding.
PriceFollowsRisk ==
    [][/\ rate_table' = rate_table
       /\ priced /\ priced'
       /\ submission'.tiv_eur >= submission.tiv_eur
       /\ submission'.occupancy = submission.occupancy
       /\ submission'.sprinklered => submission.sprinklered
       /\ ~less(submission'.commercial_adjustment, submission.commercial_adjustment)
       => breakdown'.premium_minor >= breakdown.premium_minor]_vars
=============================================================================
