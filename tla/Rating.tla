------------------------------- MODULE Rating -------------------------------
(***************************************************************************)
(* The rating engine (app/rating/engine.py): a pure function from the facts *)
(* of a submission and a versioned rate table to a premium built in stages, *)
(* loss cost -> technical -> commercial -> taxes, with the trail of line    *)
(* items that explains it.  Decimal arithmetic is exact here: an amount is  *)
(* a fraction of eurocents, rounded only where the code calls _to_minor.    *)
(***************************************************************************)
EXTENDS Naturals, Sequences

CONSTANTS
    Occupancy,
    HIGH_TIV_THRESHOLD_EUR  \* 500_000_000 eurocents in the code

Flags == {"high_tiv", "sprinklered"}

NoFlag == "none"  \* an adjustment gated by no flag always applies

-----------------------------------------------------------------------------
\* Fractions in lowest terms.

gcd[p \in Nat \X Nat] ==
    IF p[2] = 0 THEN p[1] ELSE gcd[<<p[2], p[1] % p[2]>>]

frac(n, d) ==
    LET g == gcd[<<n, d>>]
    IN  [num |-> n \div g, den |-> d \div g]

Zero == frac(0, 1)
One == frac(1, 1)

\* Reduced crosswise first: the intermediate products stay small.
times(a, b) ==
    LET x == frac(a.num, b.den)
        y == frac(b.num, a.den)
    IN  frac(x.num * y.num, x.den * y.den)

plus(a, b) ==
    LET g == gcd[<<a.den, b.den>>]
    IN  frac(a.num * (b.den \div g) + b.num * (a.den \div g),
             a.den * (b.den \div g))

less(a, b) == a.num * b.den < b.num * a.den

same(a, b) == a.num * b.den = b.num * a.den

\* ROUND_HALF_UP to a whole eurocent.
_to_minor(a) ==
    a.num \div a.den + (IF 2 * (a.num % a.den) >= a.den THEN 1 ELSE 0)

-----------------------------------------------------------------------------
\* The seeded tables.  applies_when names the flag that gates an adjustment.
V1_RULES ==
    [base_rate_permille |-> frac(1, 2),
     occupancy_factors |->
        [office |-> One, retail |-> frac(11, 10), warehouse |-> frac(5, 4),
         light_manufacturing |-> frac(3, 2), fireworks_manufacturing |-> frac(3, 1)],
     adjustments |->
        <<[name |-> "high_tiv_loading", factor |-> frac(11, 10),
           applies_when |-> "high_tiv"],
          [name |-> "sprinklered_discount", factor |-> frac(19, 20),
           applies_when |-> "sprinklered"]>>,
     expense_loading |-> Zero, risk_margin |-> Zero, cat_provision |-> Zero,
     commercial_adjustment_min |-> One, commercial_adjustment_max |-> One,
     ipt_rate |-> Zero, fixed_fees_minor |-> 0]

V2_RULES ==
    [V1_RULES EXCEPT
        !.expense_loading = frac(15, 100), !.risk_margin = frac(6, 100),
        !.cat_provision = frac(4, 100),
        !.commercial_adjustment_min = frac(85, 100),
        !.commercial_adjustment_max = frac(115, 100),
        !.ipt_rate = frac(9, 100), !.fixed_fees_minor = 5000]

-----------------------------------------------------------------------------
\* Slip: the loading starts at the threshold's near side.
SlipFlagsBelow(s) ==
    {flag \in Flags :
        \/ flag = "high_tiv" /\ s.tiv_eur <= HIGH_TIV_THRESHOLD_EUR
        \/ flag = "sprinklered" /\ s.sprinklered}

\* s.sprinklered: the requested cover mentions a sprinkler.
flags_of(s) ==
    {flag \in Flags :
        \/ flag = "high_tiv" /\ s.tiv_eur > HIGH_TIV_THRESHOLD_EUR
        \/ flag = "sprinklered" /\ s.sprinklered}

\* Slip: the subtotal is rounded at every step, not once.
SlipRoundedStep(trail, label, stage, subtotal) ==
    Append(trail, [label |-> label, stage |-> stage,
                   subtotal |-> frac(_to_minor(subtotal), 1)])

\* One more line of the build-up, with the precise subtotal it leaves.
line(trail, label, stage, subtotal) ==
    Append(trail, [label |-> label, stage |-> stage, subtotal |-> subtotal])

subtotal_of(trail) == trail[Len(trail)].subtotal

base_premium(s, t) ==
    times(times(t.base_rate_permille, frac(1, 1000)), frac(s.tiv_eur, 1))

\* The first two lines, of every risk.
base_lines(s, t) ==
    line(line(<< >>, "base_rate", "loss_cost", base_premium(s, t)),
         "occupancy_factor", "loss_cost",
         times(base_premium(s, t), t.occupancy_factors[s.occupancy]))

applies(a, s) == a.applies_when \in flags_of(s) \union {NoFlag}

\* An adjustment whose flag is not raised leaves no line.
adjust(trail, a, s) ==
    IF applies(a, s)
    THEN line(trail, a.name, "loss_cost", times(subtotal_of(trail), a.factor))
    ELSE trail

loss_cost(s, t) ==
    LET adjusted[n \in 0 .. Len(t.adjustments)] ==
            IF n = 0 THEN base_lines(s, t)
            ELSE adjust(adjusted[n - 1], t.adjustments[n], s)
    IN  adjusted[Len(t.adjustments)]

\* Nor does a loading of zero.
load(trail, name, pct) ==
    IF less(Zero, pct)
    THEN line(trail, name, "technical", times(subtotal_of(trail), plus(One, pct)))
    ELSE trail

technical(trail, t) ==
    LET expensed == load(trail, "expense_loading", t.expense_loading)
        margined == load(expensed, "risk_margin", t.risk_margin)
    IN  load(margined, "cat_provision", t.cat_provision)

commercial(trail, adjustment) ==
    IF same(adjustment, One) THEN trail
    ELSE line(trail, "commercial_adjustment", "commercial",
              times(subtotal_of(trail), adjustment))

\* The flat fee.
charge(trail, t) ==
    IF t.fixed_fees_minor > 0
    THEN line(trail, "policy_fee", "taxes",
              plus(subtotal_of(trail), frac(t.fixed_fees_minor, 1)))
    ELSE trail

\* Slip: the tax is levied on the fee as well.
SlipTaxOnFee(trail, t) ==
    LET charged == charge(trail, t)
    IN  IF less(Zero, t.ipt_rate)
        THEN line(charged, "ipt", "taxes",
                  plus(subtotal_of(charged), times(subtotal_of(charged), t.ipt_rate)))
        ELSE charged

\* The fee is added, and the tax levied on the commercial premium before it.
taxes(trail, t) ==
    LET charged == charge(trail, t)
    IN  IF less(Zero, t.ipt_rate)
        THEN line(charged, "ipt", "taxes",
                  plus(subtotal_of(charged), times(subtotal_of(trail), t.ipt_rate)))
        ELSE charged

\* RatingError: no factor for the occupancy, or an adjustment other than the
\* neutral one outside the table's authorised band, whose edges are inside.
\* quote_submission always passes the neutral one; the engine takes any.
priceable(s, t) ==
    /\ s.occupancy \in DOMAIN t.occupancy_factors
    /\ \/ same(s.commercial_adjustment, One)
       \/ /\ ~less(s.commercial_adjustment, t.commercial_adjustment_min)
          /\ ~less(t.commercial_adjustment_max, s.commercial_adjustment)

RatingError == [line_items |-> << >>, premium_minor |-> 0]

\* The final premium is the precise subtotal rounded once.
rate(s, t) ==
    IF ~priceable(s, t) THEN RatingError
    ELSE LET pure == loss_cost(s, t)
             loaded == technical(pure, t)
             sold == commercial(loaded, s.commercial_adjustment)
             final == taxes(sold, t)
             minor(trail) == _to_minor(subtotal_of(trail))
         IN  [line_items |->
                 [i \in DOMAIN final |->
                     [label |-> final[i].label, stage |-> final[i].stage,
                      running_subtotal_minor |-> _to_minor(final[i].subtotal)]],
              premium_minor |-> minor(final),
              pure_premium_minor |-> minor(pure),
              technical_premium_minor |-> minor(loaded),
              commercial_premium_minor |-> minor(sold),
              taxes_minor |-> minor(final) - minor(sold)]
=============================================================================
