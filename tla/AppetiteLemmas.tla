--------------------------- MODULE AppetiteLemmas ---------------------------
(***************************************************************************)
(* Facts about the appetite engine's operators that other proofs cite.       *)
(***************************************************************************)
EXTENDS Appetite, TLAPS

\* The two reasons of a tier: their list is empty exactly when neither holds.
LEMMA TwoReasons ==
    ASSUME NEW p \in BOOLEAN, NEW q \in BOOLEAN,
           NEW c \in ReasonCode, NEW d \in ReasonCode
    PROVE  /\ reason(p, c) \o reason(q, d) \in Seq(ReasonCode)
           /\ reason(p, c) \o reason(q, d) = << >> <=> ~p /\ ~q
<1>1. CASE p /\ q
  BY <1>1 DEF reason
<1>2. CASE p /\ ~q
  BY <1>2 DEF reason
<1>3. CASE ~p /\ q
  BY <1>3 DEF reason
<1>4. CASE ~p /\ ~q
  BY <1>4 DEF reason
<1> QED
  BY <1>1, <1>2, <1>3, <1>4

\* The list names each code of the set once, and nothing else.
Names_once(list, codes) ==
    /\ {list[i] : i \in 1 .. Len(list)} = codes
    /\ \A i, j \in 1 .. Len(list) : list[i] = list[j] => i = j

\* The four lists that two reasons can make.
LEMMA ReasonsListed ==
    ASSUME NEW c \in ReasonCode, NEW d \in ReasonCode, c # d
    PROVE  /\ Names_once(<<c>> \o <<d>>, {c, d})
           /\ Names_once(<<c>> \o << >>, {c})
           /\ Names_once(<< >> \o <<d>>, {d})
<1> << >> \in Seq(ReasonCode) /\ <<c>> \in Seq(ReasonCode) /\ <<d>> \in Seq(ReasonCode)
  OBVIOUS
<1>1. ASSUME NEW list, list = <<c>> \o <<d>> PROVE Names_once(list, {c, d})
  <2>1. Len(list) = 2 /\ list[1] = c /\ list[2] = d
    BY <1>1
  <2>2. 1 .. Len(list) = {1, 2}
    BY <2>1
  <2> QED
    BY <2>1, <2>2 DEF Names_once
<1>2. ASSUME NEW list, NEW e \in {c, d}, Len(list) = 1, list[1] = e
      PROVE  Names_once(list, {e})
  <2> 1 .. Len(list) = {1}
    BY <1>2
  <2> QED
    BY <1>2 DEF Names_once
<1>3. Len(<<c>> \o << >>) = 1 /\ (<<c>> \o << >>)[1] = c
  OBVIOUS
<1>4. Len(<< >> \o <<d>>) = 1 /\ (<< >> \o <<d>>)[1] = d
  OBVIOUS
<1> QED
  BY <1>1, <1>2, <1>3, <1>4

\* The empty list names nothing.
LEMMA NoneNamed == ASSUME NEW codes, Names_once(<< >>, codes) PROVE codes = {}
<1>1. Len(<< >>) = 0 /\ 1 .. 0 = {}
  OBVIOUS
<1>2. 1 .. Len(<< >>) = {}
  BY <1>1
<1> QED
  BY <1>2 DEF Names_once

\* The precedence of assess, stated without the lists of reasons.
LEMMA Precedence ==
    ASSUME NEW f, NEW rs
    PROVE  /\ assess(f, rs).outcome =
                IF sanctioned(f, rs) \/ excluded(f, rs) THEN "decline"
                ELSE IF out_of_appetite(f, rs) \/ above_authority(f, rs)
                     THEN "refer" ELSE "accept"
           /\ assess(f, rs) \in [outcome : Outcome, reason_codes : Seq(ReasonCode)]
<1>1. /\ sanctioned(f, rs) \in BOOLEAN /\ excluded(f, rs) \in BOOLEAN
      /\ out_of_appetite(f, rs) \in BOOLEAN /\ above_authority(f, rs) \in BOOLEAN
  BY DEF sanctioned, excluded, out_of_appetite, above_authority
<1>2. /\ decline_reasons(f, rs) \in Seq(ReasonCode)
      /\ decline_reasons(f, rs) = << >> <=> ~sanctioned(f, rs) /\ ~excluded(f, rs)
  BY <1>1, TwoReasons DEF decline_reasons, ReasonCode
<1>3. /\ refer_reasons(f, rs) \in Seq(ReasonCode)
      /\ refer_reasons(f, rs) = << >> <=>
            ~out_of_appetite(f, rs) /\ ~above_authority(f, rs)
  BY <1>1, TwoReasons DEF refer_reasons, ReasonCode
<1>4. <<"WITHIN_APPETITE">> \in Seq(ReasonCode)
  BY DEF ReasonCode
<1> QED
  BY <1>2, <1>3, <1>4 DEF assess, Outcome

\* Upper-casing the country keeps valid facts valid.
LEMMA StoredFacts ==
    ASSUME NEW f \in SubmissionFacts
    PROVE  stored(f) \in SubmissionFacts
BY UpperAssumption DEF stored, SubmissionFacts
=============================================================================
