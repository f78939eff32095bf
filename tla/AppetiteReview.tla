--------------------------- MODULE AppetiteReview ---------------------------
(***************************************************************************)
(* One risk re-assessed each time the appetite is revised: create_version    *)
(* appends a ruleset with any content, and the next assess applies it.       *)
(***************************************************************************)
EXTENDS Appetite

CONSTANTS
    Risks,     \* facts as typed at intake
    Rulebooks  \* the rulesets that may be published

ASSUME ReviewAssumption ==
    /\ Risks \subseteq SubmissionFacts
    /\ Rulebooks \subseteq RulesetSpec

VARIABLES
    facts,    \* the stored submission
    ruleset,  \* current()
    verdict   \* the latest decision

vars == <<facts, ruleset, verdict>>

Init ==
    /\ facts \in {stored(f) : f \in Risks}
    /\ ruleset \in Rulebooks
    /\ verdict = assess(facts, ruleset)

Revise ==
    /\ ruleset' \in Rulebooks
    /\ verdict' = assess(facts, ruleset')
    /\ UNCHANGED facts

Spec == Init /\ [][Revise]_vars

-----------------------------------------------------------------------------
Severity(outcome) ==
    CASE outcome = "accept" -> 0 [] outcome = "refer" -> 1 [] outcome = "decline" -> 2

uppered(codes) == {upper[c] : c \in codes}

\* The new ruleset admits nothing that the old one kept out.
Tighter(old, new) ==
    /\ new.allowed_lobs \subseteq old.allowed_lobs
    /\ new.max_tiv_eur <= old.max_tiv_eur
    /\ old.excluded_occupancies \subseteq new.excluded_occupancies
    /\ uppered(old.sanctioned_countries) \subseteq uppered(new.sanctioned_countries)

\* Tightening any rule never softens a verdict: assess's precedence of declines
\* over referrals over acceptance is monotone in the ruleset, and the case in
\* which a country code is typed plays no part in it.
TighteningNeverSoftens ==
    [][Tighter(ruleset, ruleset')
          => Severity(verdict'.outcome) >= Severity(verdict.outcome)]_vars

\* A rule the risk breaks, with the code and the severity it is reported with.
Broken ==
    {code \in ReasonCode :
        \/ code = "SANCTIONED_COUNTRY" /\ sanctioned(facts, ruleset)
        \/ code = "EXCLUDED_OCCUPANCY" /\ excluded(facts, ruleset)
        \/ code = "LOB_OUT_OF_APPETITE" /\ out_of_appetite(facts, ruleset)
        \/ code = "TIV_ABOVE_AUTHORITY" /\ above_authority(facts, ruleset)}

Gravity(code) ==
    CASE code \in {"SANCTIONED_COUNTRY", "EXCLUDED_OCCUPANCY"} -> 2
      [] code \in {"LOB_OUT_OF_APPETITE", "TIV_ABOVE_AUTHORITY"} -> 1
      [] OTHER -> 0

\* The verdict is the gravest broken rule, and its reasons are, each once, all
\* broken rules of that gravity and no others.
GravestRulePrevails ==
    LET codes == {verdict.reason_codes[i] : i \in 1 .. Len(verdict.reason_codes)}
        worst == Severity(verdict.outcome)
    IN  /\ \A c \in Broken : Gravity(c) <= worst
        /\ IF worst = 0 THEN codes = {"WITHIN_APPETITE"}
           ELSE codes = {c \in Broken : Gravity(c) = worst} /\ codes # {}
        /\ \A i, j \in 1 .. Len(verdict.reason_codes) :
              verdict.reason_codes[i] = verdict.reason_codes[j] => i = j
=============================================================================
