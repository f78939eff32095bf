--------------------------- MODULE AppetiteProofs ---------------------------
(***************************************************************************)
(* What the appetite engine guarantees for every risk and every ruleset.     *)
(***************************************************************************)
EXTENDS AppetiteReview, AppetiteLemmas

\* Whatever breaks a rule of the old ruleset breaks that rule of a tighter one.
LEMMA TighterKeepsOut ==
    ASSUME NEW f \in SubmissionFacts, NEW old \in RulesetSpec,
           NEW new \in RulesetSpec, Tighter(old, new)
    PROVE  /\ sanctioned(f, old) => sanctioned(f, new)
           /\ excluded(f, old) => excluded(f, new)
           /\ out_of_appetite(f, old) => out_of_appetite(f, new)
           /\ above_authority(f, old) => above_authority(f, new)
<1>1. sanctioned(f, old) => sanctioned(f, new)
  BY DEF sanctioned, Tighter, uppered
<1>2. excluded(f, old) => excluded(f, new)
  BY DEF excluded, Tighter
<1>3. out_of_appetite(f, old) => out_of_appetite(f, new)
  BY DEF out_of_appetite, Tighter
<1>4. above_authority(f, old) => above_authority(f, new)
  <2>1. f.tiv_eur \in Nat /\ old.max_tiv_eur \in Nat /\ new.max_tiv_eur \in Nat
    BY DEF SubmissionFacts, RulesetSpec
  <2> QED
    BY <2>1 DEF above_authority, Tighter
<1> QED
  BY <1>1, <1>2, <1>3, <1>4

\* assess is monotone: a tighter ruleset never yields a milder outcome.
LEMMA Monotone ==
    ASSUME NEW f \in SubmissionFacts, NEW old \in RulesetSpec,
           NEW new \in RulesetSpec, Tighter(old, new)
    PROVE  Severity(assess(f, new).outcome) >= Severity(assess(f, old).outcome)
<1>1. /\ Severity("accept") = 0
      /\ Severity("refer") = 1
      /\ Severity("decline") = 2
  BY DEF Severity
<1>2. CASE sanctioned(f, old) \/ excluded(f, old)
  BY <1>1, <1>2, Precedence, TighterKeepsOut
<1>3. CASE /\ ~(sanctioned(f, old) \/ excluded(f, old))
           /\ out_of_appetite(f, old) \/ above_authority(f, old)
  BY <1>1, <1>3, Precedence, TighterKeepsOut
<1>4. CASE /\ ~(sanctioned(f, old) \/ excluded(f, old))
           /\ ~(out_of_appetite(f, old) \/ above_authority(f, old))
  BY <1>1, <1>4, Precedence
<1> QED
  BY <1>2, <1>3, <1>4

-----------------------------------------------------------------------------
\* The verdict on record is always the current ruleset's verdict on the stored
\* facts.
Current ==
    /\ facts \in SubmissionFacts
    /\ ruleset \in RulesetSpec
    /\ verdict = assess(facts, ruleset)

\* Current is inductive.
LEMMA CurrentInvariant == Spec => []Current
<1>1. Init => Current
  BY StoredFacts, ReviewAssumption DEF Init, Current
<1>2. Current /\ [Revise]_vars => Current'
  BY ReviewAssumption DEF Current, Revise, vars
<1> QED
  BY <1>1, <1>2, PTL DEF Spec

\* No revision that tightens the appetite, of any ruleset and for any risk,
\* softens the verdict of assess.
THEOREM TighteningIsSafe == Spec => TighteningNeverSoftens
<1>1. Current /\ Current' /\ [Revise]_vars
        => [Tighter(ruleset, ruleset')
              => Severity(verdict'.outcome) >= Severity(verdict.outcome)]_vars
  BY Monotone DEF Current, Revise, vars
<1> QED
  BY <1>1, CurrentInvariant, PTL DEF Spec, TighteningNeverSoftens

-----------------------------------------------------------------------------
\* The codes of the broken rules that a verdict is about.
LEMMA VerdictListed ==
    ASSUME Current
    PROVE  Names_once(verdict.reason_codes,
                 IF \E c \in Broken : Gravity(c) = 2 THEN {c \in Broken : Gravity(c) = 2}
                 ELSE IF Broken # {} THEN Broken ELSE {"WITHIN_APPETITE"})
<1> DEFINE f == facts  rs == ruleset
           graver == {c \in Broken : Gravity(c) = 2}
<1>0. verdict = assess(f, rs)
  BY DEF Current
<1>1. /\ Gravity("SANCTIONED_COUNTRY") = 2 /\ Gravity("EXCLUDED_OCCUPANCY") = 2
      /\ Gravity("LOB_OUT_OF_APPETITE") = 1 /\ Gravity("TIV_ABOVE_AUTHORITY") = 1
  BY DEF Gravity
<1>2. graver = (IF sanctioned(f, rs) THEN {"SANCTIONED_COUNTRY"} ELSE {})
                   \union (IF excluded(f, rs) THEN {"EXCLUDED_OCCUPANCY"} ELSE {})
  BY <1>1 DEF Broken, ReasonCode
<1>3. ~ sanctioned(f, rs) /\ ~ excluded(f, rs) =>
        Broken = (IF out_of_appetite(f, rs) THEN {"LOB_OUT_OF_APPETITE"} ELSE {})
                     \union (IF above_authority(f, rs) THEN {"TIV_ABOVE_AUTHORITY"} ELSE {})
  BY DEF Broken, ReasonCode
<1>4. /\ Names_once(<<"SANCTIONED_COUNTRY">> \o <<"EXCLUDED_OCCUPANCY">>,
                    {"SANCTIONED_COUNTRY", "EXCLUDED_OCCUPANCY"})
      /\ Names_once(<<"SANCTIONED_COUNTRY">> \o << >>, {"SANCTIONED_COUNTRY"})
      /\ Names_once(<< >> \o <<"EXCLUDED_OCCUPANCY">>, {"EXCLUDED_OCCUPANCY"})
      /\ Names_once(<<"LOB_OUT_OF_APPETITE">> \o <<"TIV_ABOVE_AUTHORITY">>,
                    {"LOB_OUT_OF_APPETITE", "TIV_ABOVE_AUTHORITY"})
      /\ Names_once(<<"LOB_OUT_OF_APPETITE">> \o << >>, {"LOB_OUT_OF_APPETITE"})
      /\ Names_once(<< >> \o <<"TIV_ABOVE_AUTHORITY">>, {"TIV_ABOVE_AUTHORITY"})
  BY ReasonsListed DEF ReasonCode
<1>5. << >> \o << >> = << >>
  BY TwoReasons DEF reason, ReasonCode
<1> HIDE DEF f, rs, graver
<1>6. CASE sanctioned(f, rs) \/ excluded(f, rs)
  <2>1. Names_once(decline_reasons(f, rs), graver)
    BY <1>2, <1>4, <1>6 DEF decline_reasons, reason
  <2>2. graver # {}
    BY <1>2, <1>6
  <2>3. decline_reasons(f, rs) # << >>
    BY <2>1, <2>2, NoneNamed
  <2>4. verdict.reason_codes = decline_reasons(f, rs)
    BY <1>0, <2>3 DEF assess
  <2> QED
    BY <2>1, <2>2, <2>4 DEF graver
<1>7. CASE /\ ~ sanctioned(f, rs) /\ ~ excluded(f, rs)
           /\ out_of_appetite(f, rs) \/ above_authority(f, rs)
  <2>1. Names_once(refer_reasons(f, rs), Broken)
    BY <1>3, <1>4, <1>7 DEF refer_reasons, reason
  <2>2. graver = {} /\ Broken # {}
    BY <1>2, <1>3, <1>7
  <2>3. decline_reasons(f, rs) = << >>
    BY <1>5, <1>7 DEF decline_reasons, reason
  <2>4. refer_reasons(f, rs) # << >>
    BY <2>1, <2>2, NoneNamed
  <2>5. verdict.reason_codes = refer_reasons(f, rs)
    BY <1>0, <2>3, <2>4 DEF assess
  <2> QED
    BY <2>1, <2>2, <2>5 DEF graver
<1>8. CASE /\ ~ sanctioned(f, rs) /\ ~ excluded(f, rs)
           /\ ~ out_of_appetite(f, rs) /\ ~ above_authority(f, rs)
  <2>1. decline_reasons(f, rs) = << >> /\ refer_reasons(f, rs) = << >>
    BY <1>5, <1>8 DEF decline_reasons, refer_reasons, reason
  <2>2. verdict.reason_codes = <<"WITHIN_APPETITE">>
    BY <1>0, <2>1 DEF assess
  <2>3. graver = {} /\ Broken = {}
    BY <1>2, <1>3, <1>8
  <2>4. /\ Len(verdict.reason_codes) = 1 /\ verdict.reason_codes[1] = "WITHIN_APPETITE"
        /\ 1 .. 1 = {1}
    BY <2>2
  <2>5. Names_once(verdict.reason_codes, {"WITHIN_APPETITE"})
    BY <2>4 DEF Names_once
  <2> QED
    BY <2>3, <2>5 DEF graver
<1> QED
  BY <1>6, <1>7, <1>8

\* The verdict's severity is that of its tier.
LEMMA VerdictSevere ==
    ASSUME Current
    PROVE  /\ Severity(verdict.outcome) =
                 IF \E c \in Broken : Gravity(c) = 2 THEN 2
                 ELSE IF Broken # {} THEN 1 ELSE 0
           /\ \A c \in Broken : Gravity(c) \in {1, 2}
<1>1. /\ Severity("accept") = 0 /\ Severity("refer") = 1 /\ Severity("decline") = 2
      /\ Gravity("SANCTIONED_COUNTRY") = 2 /\ Gravity("EXCLUDED_OCCUPANCY") = 2
      /\ Gravity("LOB_OUT_OF_APPETITE") = 1 /\ Gravity("TIV_ABOVE_AUTHORITY") = 1
  BY DEF Severity, Gravity
<1>2. verdict.outcome =
        IF sanctioned(facts, ruleset) \/ excluded(facts, ruleset) THEN "decline"
        ELSE IF out_of_appetite(facts, ruleset) \/ above_authority(facts, ruleset)
             THEN "refer" ELSE "accept"
  BY Precedence DEF Current
<1>3. (\E c \in Broken : Gravity(c) = 2) <=>
        sanctioned(facts, ruleset) \/ excluded(facts, ruleset)
  BY <1>1 DEF Broken, ReasonCode
<1>4. Broken # {} <=>
        \/ sanctioned(facts, ruleset) \/ excluded(facts, ruleset)
        \/ out_of_appetite(facts, ruleset) \/ above_authority(facts, ruleset)
  BY DEF Broken, ReasonCode
<1>5. \A c \in Broken : Gravity(c) \in {1, 2}
  BY <1>1 DEF Broken, ReasonCode
<1> QED
  BY <1>1, <1>2, <1>3, <1>4, <1>5

\* For every risk and every ruleset, assess answers with the gravest broken rule
\* and names all broken rules of that gravity, each once, and no others.
THEOREM GravestRuleAlwaysPrevails == Spec => []GravestRulePrevails
<1>1. ASSUME Current PROVE GravestRulePrevails
  <2> DEFINE list == verdict.reason_codes
             codes == {list[i] : i \in 1 .. Len(list)}
             worst == Severity(verdict.outcome)
  <2>1. /\ codes = IF \E c \in Broken : Gravity(c) = 2
                     THEN {c \in Broken : Gravity(c) = 2}
                   ELSE IF Broken # {} THEN Broken ELSE {"WITHIN_APPETITE"}
        /\ \A i, j \in 1 .. Len(list) : list[i] = list[j] => i = j
    BY <1>1, VerdictListed DEF Names_once
  <2>2. /\ worst = IF \E c \in Broken : Gravity(c) = 2 THEN 2
                   ELSE IF Broken # {} THEN 1 ELSE 0
        /\ \A c \in Broken : Gravity(c) \in {1, 2}
    BY <1>1, VerdictSevere
  <2> HIDE DEF codes, worst
  <2>3. \A c \in Broken : Gravity(c) <= worst
    BY <2>2
  <2>4. IF worst = 0 THEN codes = {"WITHIN_APPETITE"}
        ELSE codes = {c \in Broken : Gravity(c) = worst} /\ codes # {}
    BY <2>1, <2>2
  <2> QED
    BY <2>1, <2>3, <2>4 DEF GravestRulePrevails, codes, worst
<1> QED
  BY <1>1, CurrentInvariant, PTL
=============================================================================
