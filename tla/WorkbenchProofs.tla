--------------------------- MODULE WorkbenchProofs --------------------------
(***************************************************************************)
(* Proofs about Workbench: CoreInv is inductive, and what follows from it; and   *)
(* about what it leaves on file: the audit log matches the tables exactly, a *)
(* bound file takes no new work, and each file passes its milestones as      *)
(* UnderwritingFile says.                                                   *)
(***************************************************************************)
EXTENDS WorkbenchInv, AppetiteLemmas

-----------------------------------------------------------------------------
\* Lemmas about the building blocks of the actions.

\* A request that moves is the only one that moves.
LEMMA Goto ==
    ASSUME TypeOK, NEW r \in Requests, NEW step \in Steps, goto(r, step)
    PROVE  /\ pc' \in [Requests -> Steps]
           /\ pc'[r] = step
           /\ \A x \in Requests : x # r => pc'[x] = pc[x]
BY DEF TypeOK, goto

\* The answer after a COMMIT.
LEMMA Committed ==
    ASSUME TypeOK, NEW r \in Requests, NEW ok \in {"200", "201"}, committed(r, ok)
    PROVE  /\ pc' \in [Requests -> Steps]
           /\ pc'[r] \in {ok, "500"}
           /\ \A x \in Requests : x # r => pc'[x] = pc[x]
<1>1. PICK step \in {ok, "500"} : goto(r, step)
  BY DEF committed
<1>2. step \in Steps
  BY DEF Steps, Answers
<1> QED
  BY <1>1, <1>2, Goto

\* A timestamp taken at flush; the clock never runs back.
LEMMA Now ==
    ASSUME TypeOK, NEW r \in Addressed, now(r)
    PROVE  clock' \in Nat /\ stamp' \in [Addressed -> 0 .. clock']
<1>1. PICK t \in {clock, clock + 1} :
         clock' = t /\ stamp' = [stamp EXCEPT ![r] = t]
  BY DEF now
<1>2. clock' \in Nat /\ clock <= clock' /\ clock' = t
  BY <1>1 DEF TypeOK
<1>3. \A x \in Addressed : stamp[x] \in 0 .. clock'
  BY <1>2 DEF TypeOK
<1> QED
  BY <1>1, <1>2, <1>3 DEF TypeOK

\* One version more in the audit log.
LEMMA Audited ==
    ASSUME TypeOK, NEW r \in Requests, NEW s \in Creates, NEW v \in Nat,
           NEW action \in {"submission.created", "submission.assessed", "quote", "bind"},
           audited(r, s, action, v)
    PROVE  audit_entry' \subseteq AuditEntries
BY DEF TypeOK, audited, AuditEntries

\* The PAS keeps its rows well-formed.
LEMMA PolicyMoves ==
    ASSUME NEW p \in Policy, NEW day \in Nat
    PROVE  /\ created(p, day) \in Policy
           /\ submitted(p) \in Policy
           /\ activated(p) \in Policy
           /\ cancelled(p) \in Policy
BY DEF Policy, PolicyStatus, created, submitted, activated, cancelled, moved

-----------------------------------------------------------------------------
\* Type correctness.

\* The initial state is typed.
LEMMA TypeInit == Init => TypeOK
BY RequestAssumption, DataAssumption
   DEF Init, TypeOK, Steps, Policy, PolicyStatus, NoPolicy, Addressed, NoQuote

\* Each step keeps the types.
LEMMA TypeStep == CoreInv /\ [Next]_vars => TypeOK'
<1> SUFFICES ASSUME CoreInv, [Next]_vars PROVE TypeOK'
  OBVIOUS
<1> USE RequestAssumption, DataAssumption DEF Addressed, Requests
<1> USE DEF tables, versions, pas, locals, time
<1>0. TypeOK
  BY DEF CoreInv
<1>1. ASSUME NEW c \in Creates, create_submission(c) PROVE TypeOK'
  <2>1. PICK f \in Bodies :
           IF f \in SubmissionFacts
             THEN /\ submission' = submission \union
                        {[id |-> c, facts |-> stored(f)]}
                  /\ audited(c, c, "submission.created", 0)
                  /\ committed(c, "201")
             ELSE /\ goto(c, "422")
                  /\ UNCHANGED <<submission, audit_entry>>
    BY <1>1 DEF create_submission
  <2>2. CASE f \in SubmissionFacts
    <3>1. submission' \subseteq Submissions
      BY <1>0, <2>1, <2>2, StoredFacts DEF TypeOK, Submissions
    <3>2. audit_entry' \subseteq AuditEntries
      BY <1>0, <2>1, <2>2, Audited
    <3>3. pc' \in [Requests -> Steps]
      BY <1>0, <2>1, <2>2, Committed
    <3> QED
      BY <1>0, <1>1, <3>1, <3>2, <3>3 DEF TypeOK, create_submission
  <2>3. CASE f \notin SubmissionFacts
    <3>1. pc' \in [Requests -> Steps]
      BY <1>0, <2>1, <2>3, Goto DEF Steps, Answers
    <3> QED
      BY <1>0, <1>1, <2>1, <2>3, <3>1 DEF TypeOK, create_submission
  <2> QED
    BY <2>2, <2>3
<1>2. ASSUME NEW r \in Assesses \union Quotes, NEW next \in Steps, guarded(r, next)
      PROVE  TypeOK'
  <2>1. pc' \in [Requests -> Steps]
    BY <1>0, <1>2, Goto DEF guarded, Steps, Answers
  <2> QED
    BY <1>0, <1>2, <2>1 DEF TypeOK, guarded
<1>3. ASSUME NEW r \in Assesses \union Quotes, NEW step, NEW next \in Steps,
             NEW present \in SUBSET Nat, read_current(r, step, present, next)
      PROVE  TypeOK'
  <2>1. pc' \in [Requests -> Steps]
    BY <1>0, <1>3, Goto DEF read_current, Steps, Answers
  <2>2. version' \in [Assesses \union Quotes -> Nat]
    BY <1>0, <1>3 DEF read_current, TypeOK
  <2> QED
    BY <1>0, <1>3, <2>1, <2>2 DEF TypeOK, read_current
<1>4. ASSUME NEW r \in Assesses \union Quotes, flush(r) PROVE TypeOK'
  <2>1. pc' \in [Requests -> Steps]
    BY <1>0, <1>4, Goto DEF flush, Steps, AssessSteps
  <2>2. clock' \in Nat /\ stamp' \in [Addressed -> 0 .. clock']
    BY <1>0, <1>4, Now DEF flush
  <2> QED
    BY <1>0, <1>4, <2>1, <2>2 DEF TypeOK, flush
<1>5. ASSUME NEW a \in Assesses, assess_commit(a) PROVE TypeOK'
  <2>1. version[a] \in RulesetVersions /\ version[a] \in Nat
    BY <1>0, <1>5 DEF CoreInv, AssessInv, assess_commit, TypeOK
  <2>2. stamp[a] \in Nat
    BY <1>0 DEF TypeOK
  <2>3. decision' \subseteq Decisions
    BY <1>0, <1>5, <2>1, <2>2, Precedence DEF assess_commit, TypeOK, Decisions
  <2>4. audit_entry' \subseteq AuditEntries
    BY <1>0, <1>5, <2>1, Audited DEF assess_commit
  <2>5. pc' \in [Requests -> Steps]
    BY <1>0, <1>5, Committed DEF assess_commit
  <2> QED
    BY <1>0, <1>5, <2>3, <2>4, <2>5 DEF TypeOK, assess_commit
<1>6. ASSUME NEW q \in Quotes, quote_decision(q) PROVE TypeOK'
  <2>1. pc' \in [Requests -> Steps]
    BY <1>0, <1>6, Goto DEF quote_decision, Steps, Answers, QuoteSteps
  <2> QED
    BY <1>0, <1>6, <2>1 DEF TypeOK, quote_decision
<1>7. ASSUME NEW q \in Quotes, quote_commit(q) PROVE TypeOK'
  <2>1. version[q] \in RateTableVersions /\ version[q] \in Nat
    BY <1>0, <1>7 DEF CoreInv, QuoteInv, quote_commit, TypeOK
  <2>2. stamp[q] \in Nat
    BY <1>0 DEF TypeOK
  <2>3. quote' \subseteq QuoteRows
    BY <1>0, <1>7, <2>1, <2>2 DEF quote_commit, TypeOK, QuoteRows
  <2>4. audit_entry' \subseteq AuditEntries
    BY <1>0, <1>7, <2>1, Audited DEF quote_commit
  <2>5. pc' \in [Requests -> Steps]
    BY <1>0, <1>7, Committed DEF quote_commit
  <2> QED
    BY <1>0, <1>7, <2>3, <2>4, <2>5 DEF TypeOK, quote_commit
<1>8. ASSUME NEW b \in Binds, bind_start(b) \/ bind_decision(b) \/ resolve_existing(b)
      PROVE  TypeOK'
  <2>1. pc' \in [Requests -> Steps]
    BY <1>0, <1>8, Goto
       DEF bind_start, bind_decision, resolve_existing, Steps, Answers, BindSteps
  <2> QED
    BY <1>0, <1>8, <2>1 DEF TypeOK, bind_start, bind_decision, resolve_existing
<1>9. ASSUME NEW b \in Binds, bind_quote(b) PROVE TypeOK'
  <2>1. pc' \in [Requests -> Steps]
    BY <1>0, <1>9, Goto DEF bind_quote, Steps, Answers, BindSteps
  <2>2. picked' \in [Binds -> Quotes \union {NoQuote}]
    BY <1>0, <1>9 DEF bind_quote, TypeOK, QuoteRows
  <2>3. cover' \in [Binds -> 0 .. MaxDay]
    BY <1>0, <1>9 DEF bind_quote, TypeOK
  <2> QED
    BY <1>0, <1>9, <2>1, <2>2, <2>3 DEF TypeOK, bind_quote
<1>10. ASSUME NEW b \in Binds, HasQuote(pc[b]) PROVE number(b) \in PolicyNumbers
  <2>1. PICK q \in quote : q.id = picked[b]
    BY <1>10 DEF CoreInv, BindInv
  <2>2. picked[b] \in Quotes
    BY <1>0, <2>1 DEF TypeOK, QuoteRows
  <2> QED
    BY <2>2 DEF number
<1>11. ASSUME NEW b \in Binds, create_policy(b) \/ submit(b) \/ activate(b)
       PROVE  TypeOK'
  <2>1. number(b) \in PolicyNumbers
    BY <1>10, <1>11
       DEF create_policy, submit, activate, HasQuote, HasDecision, BindSteps
  <2>2. pc' \in [Requests -> Steps]
    BY <1>0, <1>11, Goto DEF create_policy, submit, activate, Steps, BindSteps
  <2>3. policy[number(b)] \in Policy /\ cover[b] \in Nat
    BY <1>0, <2>1 DEF TypeOK
  <2>4. PICK p \in Policy : policy' = [policy EXCEPT ![number(b)] = p]
    BY <1>11, <2>3, PolicyMoves DEF create_policy, submit, activate
  <2>5. policy' \in [PolicyNumbers -> Policy]
    BY <1>0, <2>4 DEF TypeOK
  <2> QED
    BY <1>0, <1>11, <2>2, <2>5 DEF TypeOK, create_policy, submit, activate
<1>12. ASSUME NEW b \in Binds, publish_best_effort(b) PROVE TypeOK'
  <2>1. pc' \in [Requests -> Steps]
    BY <1>0, <1>12, Goto DEF publish_best_effort, Steps, BindSteps
  <2>2. published' \in [Binds -> BOOLEAN] /\ delivered' \in [Binds -> 0 .. MaxAttempts]
    BY <1>0, <1>12 DEF publish_best_effort, TypeOK
  <2> QED
    BY <1>0, <1>12, <2>1, <2>2 DEF TypeOK, publish_best_effort
<1>13. ASSUME NEW b \in Binds, insert_binding(b) PROVE TypeOK'
  <2>1. pc' \in [Requests -> Steps]
    BY <1>0, <1>13, Goto DEF insert_binding, Steps, Answers, BindSteps
  <2>2. clock' \in Nat /\ stamp' \in [Addressed -> 0 .. clock']
    BY <1>0, <1>13, Now DEF insert_binding, TypeOK
  <2> QED
    BY <1>0, <1>13, <2>1, <2>2 DEF TypeOK, insert_binding
<1>14. ASSUME NEW b \in Binds, bind_commit(b) PROVE TypeOK'
  <2>1. number(b) \in PolicyNumbers /\ picked[b] \in Quotes
    <3>1. HasQuote(pc[b])
      BY <1>14 DEF bind_commit, HasQuote, HasDecision, BindSteps
    <3> QED
      BY <1>0, <1>10, <3>1 DEF CoreInv, BindInv, TypeOK, QuoteRows
  <2>2. stamp[b] \in Nat
    BY <1>0 DEF TypeOK
  <2>3. binding' \subseteq Bindings
    BY <1>0, <1>14, <2>1, <2>2 DEF bind_commit, TypeOK, Bindings
  <2>4. audit_entry' \subseteq AuditEntries
    BY <1>0, <1>14, Audited DEF bind_commit
  <2>5. pc' \in [Requests -> Steps]
    BY <1>0, <1>14, Committed DEF bind_commit
  <2> QED
    BY <1>0, <1>14, <2>3, <2>4, <2>5 DEF TypeOK, bind_commit
<1>15. ASSUME NEW b \in Binds, pas_timeout(b) PROVE TypeOK'
  <2>1. number(b) \in PolicyNumbers
    BY <1>10, <1>15 DEF pas_timeout, HasQuote, HasDecision, BindSteps
  <2>2. late' \subseteq LateCalls
    BY <1>0, <1>15, <2>1 DEF pas_timeout, TypeOK, LateCalls
  <2>3. pc' \in [Requests -> Steps]
    BY <1>0, <1>15, Goto DEF pas_timeout, Steps, Answers
  <2> QED
    BY <1>0, <1>15, <2>2, <2>3 DEF TypeOK, pas_timeout
<1>16. ASSUME NEW r \in Addressed, abort(r) PROVE TypeOK'
  <2>1. pc' \in [Requests -> Steps]
    BY <1>0, <1>16, Goto DEF abort, Steps, Answers
  <2> QED
    BY <1>0, <1>16, <2>1 DEF TypeOK, abort
<1>17. ASSUME NEW m \in late, pas_late(m) PROVE TypeOK'
  <2>1. m.policy_number \in PolicyNumbers /\ m.day \in Nat
    BY <1>0 DEF TypeOK, LateCalls
  <2>2. policy' \in [PolicyNumbers -> Policy]
    BY <1>0, <1>17, <2>1, PolicyMoves DEF TypeOK, pas_late
  <2> QED
    BY <1>0, <1>17, <2>2 DEF TypeOK, pas_late
<1>18. ASSUME NEW n \in Cancellable, pas_cancel(n) PROVE TypeOK'
  <2>1. policy' \in [PolicyNumbers -> Policy]
    BY <1>0, <1>18, PolicyMoves DEF TypeOK, pas_cancel
  <2> QED
    BY <1>0, <1>18, <2>1 DEF TypeOK, pas_cancel
<1>19. ASSUME NEW v \in RulesetVersions, create_ruleset(v) PROVE TypeOK'
  BY <1>0, <1>19 DEF TypeOK, create_ruleset
<1>20. ASSUME NEW v \in RateTableVersions, create_rate_table(v) PROVE TypeOK'
  BY <1>0, <1>20 DEF TypeOK, create_rate_table
<1>21. CASE midnight
  BY <1>0, <1>21 DEF TypeOK, midnight
<1>22. CASE UNCHANGED vars
  BY <1>0, <1>22 DEF TypeOK, vars
<1>23. {"ruleset", "latest_decision", "flush"} \subseteq Steps
  BY DEF Steps, AssessSteps, QuoteSteps
<1>24. appetite_ruleset \in SUBSET Nat /\ rate_table \in SUBSET Nat
  BY <1>0 DEF TypeOK
<1> QED
  BY <1>1, <1>2, <1>3, <1>4, <1>5, <1>6, <1>7, <1>8, <1>9, <1>11, <1>12, <1>13,
     <1>14, <1>15, <1>16, <1>17, <1>18, <1>19, <1>20, <1>21, <1>22, <1>23, <1>24
     DEF Next, AssessStep, QuoteStep, BindStep, assess_start, assess_ruleset,
         quote_start, quote_rate_table

-----------------------------------------------------------------------------
\* Who may change what.

BindAct(b) == bind_start(b) \/ BindStep(b) \/ pas_timeout(b) \/ abort(b)
AssessAct(a) == assess_start(a) \/ AssessStep(a) \/ abort(a)
QuoteAct(q) == quote_start(q) \/ QuoteStep(q) \/ abort(q)

\* A table or a version set changes in one action only, and only grows.
LEMMA Growth ==
    ASSUME [Next]_vars
    PROVE  /\ submission \subseteq submission' /\ decision \subseteq decision'
           /\ quote \subseteq quote' /\ binding \subseteq binding'
           /\ appetite_ruleset \subseteq appetite_ruleset'
           /\ rate_table \subseteq rate_table'
           /\ decision' = decision \/ \E a \in Assesses : assess_commit(a)
           /\ quote' = quote \/ \E q \in Quotes : quote_commit(q)
           /\ binding' = binding \/ \E b \in Binds : bind_commit(b)
<1> USE DEF tables, versions, pas, locals, time
<1>1. CASE \E c \in Creates : create_submission(c)
  BY <1>1 DEF create_submission
<1>2. CASE \E a \in Assesses : assess_start(a) \/ AssessStep(a)
  BY <1>2 DEF assess_start, guarded, AssessStep, assess_ruleset, read_current,
              flush, assess_commit
<1>3. CASE \E q \in Quotes : quote_start(q) \/ QuoteStep(q)
  BY <1>3 DEF quote_start, guarded, QuoteStep, quote_decision, quote_rate_table,
              read_current, flush, quote_commit
<1>4. CASE \E b \in Binds : bind_start(b) \/ BindStep(b) \/ pas_timeout(b)
  BY <1>4 DEF bind_start, BindStep, bind_decision, bind_quote, create_policy,
              resolve_existing, submit, activate, publish_best_effort,
              insert_binding, bind_commit, pas_timeout
<1>5. CASE \E r \in Addressed : abort(r)
  BY <1>5 DEF abort
<1>6. CASE \E m \in late : pas_late(m)
  BY <1>6 DEF pas_late
<1>7. CASE \E n \in Cancellable : pas_cancel(n)
  BY <1>7 DEF pas_cancel
<1>8. CASE \/ \E v \in RulesetVersions : create_ruleset(v)
           \/ \E v \in RateTableVersions : create_rate_table(v)
           \/ midnight
  BY <1>8 DEF create_ruleset, create_rate_table, midnight
<1>9. CASE UNCHANGED vars
  BY <1>9 DEF vars
<1> QED
  BY <1>1, <1>2, <1>3, <1>4, <1>5, <1>6, <1>7, <1>8, <1>9 DEF Next

\* What the tables have once said of a file they say for ever.
LEMMA Persistence ==
    ASSUME [Next]_vars
    PROVE  /\ \A s : was_accepted(s) => was_accepted(s)'
           /\ \A s : Undeclined(s) => Undeclined(s)'
           /\ \A s : is_bound(s) => is_bound(s)'
           /\ \A n : Backed(n) => Backed(n)'
<1>1. /\ decision \subseteq decision' /\ quote \subseteq quote'
      /\ binding \subseteq binding'
  BY Growth
<1>2. \A s : was_accepted(s) => was_accepted(s)'
  BY <1>1 DEF was_accepted, decisions_of
<1>3. \A n : Backed(n) => Backed(n)'
  BY <1>1, <1>2 DEF Backed
<1> QED
  BY <1>1, <1>2, <1>3 DEF Undeclined, is_bound

\* A bind's own state changes in its own actions only.
LEMMA BindFrame ==
    ASSUME TypeOK, [Next]_vars, NEW b \in Binds
    PROVE  \/ BindAct(b)
           \/ /\ pc'[b] = pc[b] /\ picked'[b] = picked[b]
              /\ delivered'[b] = delivered[b] /\ published'[b] = published[b]
<1> USE RequestAssumption DEF tables, versions, pas, locals, time, Requests, Addressed
<1> USE DEF TypeOK
<1>1. CASE \E c \in Creates : create_submission(c)
  BY <1>1 DEF create_submission, committed, goto
<1>2. CASE \E a \in Assesses : assess_start(a) \/ AssessStep(a)
  BY <1>2 DEF assess_start, guarded, AssessStep, assess_ruleset, read_current,
              flush, assess_commit, committed, goto
<1>3. CASE \E q \in Quotes : quote_start(q) \/ QuoteStep(q)
  BY <1>3 DEF quote_start, guarded, QuoteStep, quote_decision, quote_rate_table,
              read_current, flush, quote_commit, committed, goto
<1>4. CASE \E c \in Binds : bind_start(c) \/ BindStep(c) \/ pas_timeout(c)
  <2>1. PICK c \in Binds : bind_start(c) \/ BindStep(c) \/ pas_timeout(c)
    BY <1>4
  <2>2. CASE c = b
    BY <2>1, <2>2 DEF BindAct
  <2>3. CASE c # b
    <3>1. CASE bind_start(c) \/ bind_decision(c) \/ bind_quote(c)
      BY <2>3, <3>1 DEF bind_start, bind_decision, bind_quote, goto
    <3>2. CASE create_policy(c) \/ resolve_existing(c) \/ submit(c) \/ activate(c)
      BY <2>3, <3>2 DEF create_policy, resolve_existing, submit, activate, goto
    <3>3. CASE publish_best_effort(c) \/ insert_binding(c)
      BY <2>3, <3>3 DEF publish_best_effort, insert_binding, goto
    <3>4. CASE bind_commit(c) \/ pas_timeout(c)
      BY <2>3, <3>4 DEF bind_commit, pas_timeout, committed, goto
    <3> QED
      BY <2>1, <3>1, <3>2, <3>3, <3>4 DEF BindStep
  <2> QED
    BY <2>2, <2>3
<1>5. CASE \E r \in Addressed : abort(r)
  BY <1>5 DEF abort, goto, BindAct
<1>6. CASE \/ \E m \in late : pas_late(m)
           \/ \E n \in Cancellable : pas_cancel(n)
           \/ \E v \in RulesetVersions : create_ruleset(v)
           \/ \E v \in RateTableVersions : create_rate_table(v)
           \/ midnight
  BY <1>6 DEF pas_late, pas_cancel, create_ruleset, create_rate_table, midnight
<1>7. CASE UNCHANGED vars
  BY <1>7 DEF vars
<1> QED
  BY <1>1, <1>2, <1>3, <1>4, <1>5, <1>6, <1>7 DEF Next

\* So does that of an assess or a quote request.
LEMMA VersionFrame ==
    ASSUME TypeOK, [Next]_vars, NEW r \in Assesses \union Quotes
    PROVE  \/ r \in Assesses /\ AssessAct(r)
           \/ r \in Quotes /\ QuoteAct(r)
           \/ pc'[r] = pc[r] /\ version'[r] = version[r]
<1> USE RequestAssumption DEF tables, versions, pas, locals, time, Requests, Addressed
<1> USE DEF TypeOK
<1>1. CASE \E c \in Creates : create_submission(c)
  BY <1>1 DEF create_submission, committed, goto
<1>2. CASE \E a \in Assesses : assess_start(a) \/ AssessStep(a)
  <2>1. PICK a \in Assesses : assess_start(a) \/ AssessStep(a)
    BY <1>2
  <2>2. CASE a = r
    BY <2>1, <2>2 DEF AssessAct
  <2>3. CASE a # r
    BY <2>1, <2>3 DEF assess_start, guarded, AssessStep, assess_ruleset,
        read_current, flush, assess_commit, committed, goto
  <2> QED
    BY <2>2, <2>3
<1>3. CASE \E q \in Quotes : quote_start(q) \/ QuoteStep(q)
  <2>1. PICK q \in Quotes : quote_start(q) \/ QuoteStep(q)
    BY <1>3
  <2>2. CASE q = r
    BY <2>1, <2>2 DEF QuoteAct
  <2>3. CASE q # r
    BY <2>1, <2>3 DEF quote_start, guarded, QuoteStep, quote_decision,
        quote_rate_table, read_current, flush, quote_commit, committed, goto
  <2> QED
    BY <2>2, <2>3
<1>4. CASE \E b \in Binds : bind_start(b) \/ BindStep(b) \/ pas_timeout(b)
  <2>1. PICK b \in Binds : bind_start(b) \/ BindStep(b) \/ pas_timeout(b)
    BY <1>4
  <2>2. b # r
    OBVIOUS
  <2>3. UNCHANGED version /\ \E step : goto(b, step)
    BY <2>1 DEF bind_start, BindStep, bind_decision, bind_quote, create_policy,
        resolve_existing, submit, activate, publish_best_effort, insert_binding,
        bind_commit, pas_timeout, committed
  <2> QED
    BY <2>2, <2>3 DEF goto
<1>5. CASE \E x \in Addressed : abort(x)
  BY <1>5 DEF abort, goto, AssessAct, QuoteAct
<1>6. CASE \/ \E m \in late : pas_late(m)
           \/ \E n \in Cancellable : pas_cancel(n)
           \/ \E v \in RulesetVersions : create_ruleset(v)
           \/ \E v \in RateTableVersions : create_rate_table(v)
           \/ midnight
  BY <1>6 DEF pas_late, pas_cancel, create_ruleset, create_rate_table, midnight
<1>7. CASE UNCHANGED vars
  BY <1>7 DEF vars
<1> QED
  BY <1>1, <1>2, <1>3, <1>4, <1>5, <1>6, <1>7 DEF Next

-----------------------------------------------------------------------------
\* The course of a bind, with the facts that each step establishes.

Same(b) ==
    /\ picked'[b] = picked[b] /\ delivered'[b] = delivered[b]
    /\ published'[b] = published[b]

Path(b) ==
    \/ /\ pc[b] = "idle" /\ pc'[b] \in {"404", "latest_decision", "200"} /\ Same(b)
       /\ pc'[b] = "200" => is_bound(target[b])
    \/ /\ pc[b] = "latest_decision" /\ pc'[b] \in {"422", "latest_quote"} /\ Same(b)
       /\ pc'[b] = "latest_quote" => was_accepted(target[b])
    \/ pc[b] = "latest_quote" /\ pc'[b] = "422" /\ Same(b)
    \/ /\ pc[b] = "latest_quote" /\ pc'[b] = "create_policy"
       /\ \E q \in quote : q.id = picked'[b] /\ q.submission_id = target[b]
    \/ /\ pc[b] = "create_policy" /\ pc'[b] \in {"resolve", "submit"} /\ Same(b)
       /\ policy' = [policy EXCEPT ![number(b)] = created(@, cover[b])]
    \/ pc[b] = "resolve" /\ pc'[b] \in {"submit", "409"} /\ Same(b)
    \/ /\ pc[b] = "submit" /\ pc'[b] = "activate" /\ Same(b)
       /\ policy' = [policy EXCEPT ![number(b)] = submitted(@)]
    \/ /\ pc[b] = "activate" /\ pc'[b] = "publish" /\ Same(b)
       /\ policy' = [policy EXCEPT ![number(b)] = activated(@)]
    \/ /\ pc[b] = "publish" /\ pc'[b] = "insert" /\ picked'[b] = picked[b]
       /\ published'[b] => delivered'[b] > 0
    \/ /\ pc[b] = "insert" /\ pc'[b] = "commit" /\ Same(b)
       /\ ~taken(b) /\ \A c \in Binds \ {b} : pc[c] = "commit" => ~rivals(b, c)
    \/ pc[b] = "commit" /\ pc'[b] \in {"200", "500"} /\ Same(b) /\ bind_commit(b)
    \/ pc[b] \notin {"idle"} \union Answers /\ pc'[b] = "500" /\ Same(b)

\* Each action of a bind moves it along its path, and no other bind.
LEMMA BindPath ==
    ASSUME TypeOK, NEW b \in Binds, BindAct(b)
    PROVE  /\ Path(b)
           /\ \A c \in Binds \ {b} :
                 pc'[c] = pc[c] /\ picked'[c] = picked[c]
<1> USE DEF TypeOK, tables, versions, pas, locals, time, Requests, Addressed
<1>0. b \in Requests /\ Binds \subseteq Requests
  OBVIOUS
<1>1. \A c \in Binds \ {b} : pc'[c] = pc[c] /\ picked'[c] = picked[c]
  <2>1. \E step : goto(b, step)
    BY DEF BindAct, bind_start, BindStep, bind_decision, bind_quote,
        create_policy, resolve_existing, submit, activate, publish_best_effort,
        insert_binding, bind_commit, pas_timeout, abort, committed
  <2>2. picked' = picked \/ \E id : picked' = [picked EXCEPT ![b] = id]
    BY DEF BindAct, bind_start, BindStep, bind_decision, bind_quote,
        create_policy, resolve_existing, submit, activate, publish_best_effort,
        insert_binding, bind_commit, pas_timeout, abort
  <2> QED
    BY <1>0, <2>1, <2>2 DEF goto
<1>2. CASE bind_start(b)
  BY <1>0, <1>2 DEF bind_start, goto, Path, Same
<1>3. CASE bind_decision(b)
  BY <1>0, <1>3 DEF bind_decision, goto, Path, Same, latest_decision, was_accepted
<1>4. CASE bind_quote(b)
  BY <1>0, <1>4 DEF bind_quote, goto, Path, Same, latest_quote, quotes_of
<1>5. CASE create_policy(b)
  BY <1>0, <1>5 DEF create_policy, goto, Path, Same
<1>6. CASE resolve_existing(b)
  BY <1>0, <1>6 DEF resolve_existing, goto, Path, Same
<1>7. CASE submit(b)
  BY <1>0, <1>7 DEF submit, goto, Path, Same
<1>8. CASE activate(b)
  BY <1>0, <1>8 DEF activate, goto, Path, Same
<1>9. CASE publish_best_effort(b)
  BY <1>0, <1>9 DEF publish_best_effort, goto, Path
<1>10. CASE insert_binding(b)
  BY <1>0, <1>10 DEF insert_binding, goto, Path, Same, Answers
<1>11. CASE bind_commit(b)
  BY <1>0, <1>11 DEF bind_commit, committed, goto, Path, Same
<1>12. CASE pas_timeout(b)
  BY <1>0, <1>12 DEF pas_timeout, goto, Path, Same, Answers
<1>13. CASE abort(b)
  BY <1>0, <1>13 DEF abort, goto, Path, Same
<1> QED
  BY <1>1, <1>2, <1>3, <1>4, <1>5, <1>6, <1>7, <1>8, <1>9, <1>10, <1>11, <1>12,
     <1>13 DEF BindAct, BindStep

-----------------------------------------------------------------------------
\* What can happen to a PAS row.

Called(n) ==
    \/ \E b \in Binds : pc[b] = "create_policy" /\ number(b) = n
    \/ \E m \in late : m.policy_number = n

Forward(p, q) ==
    /\ p.status # "none" => q.status # "none"
    /\ p.status \in {"submitted", "active", "terminated"} =>
          q.status \in {"submitted", "active", "terminated"}
    /\ p.status \in {"active", "terminated"} => q.status \in {"active", "terminated"}
    /\ p.status = "active" => q.status = "active"

\* No call takes a row backwards; only a cancel ends one.
LEMMA Operations ==
    ASSUME NEW p \in Policy, NEW day \in Nat
    PROVE  /\ \A q \in {p, created(p, day), submitted(p), activated(p)} :
                 /\ Forward(p, q)
                 /\ q.status = "terminated" => p.status = "terminated"
           /\ Forward(p, cancelled(p))
           /\ created(p, day).status # "none"
           /\ \A q \in {p, submitted(p), activated(p), cancelled(p)} :
                 p.status = "none" => q.status = "none"
           /\ p.status # "none" =>
                 submitted(p).status \in {"submitted", "active", "terminated"}
           /\ p.status \in {"submitted", "active", "terminated"} =>
                 activated(p).status \in {"active", "terminated"}
<1>1. \A q \in {p, created(p, day), submitted(p), activated(p), cancelled(p)} : Forward(p, q)
  BY DEF Policy, PolicyStatus, created, submitted, activated, cancelled, moved,
         exists, Forward
<1> QED
  BY <1>1 DEF Policy, PolicyStatus, created, submitted, activated, cancelled,
              moved, exists

PolicyMove(n) ==
    \/ \E day \in Nat :
          policy'[n] = created(policy[n], day) /\ Called(n)
    \/ policy'[n] \in {policy[n], submitted(policy[n]), activated(policy[n])}
    \/ policy'[n] = cancelled(policy[n]) /\ n \in Cancellable

\* Each step treats a PAS row in one of the ways of PolicyMove.
LEMMA PolicyMoved ==
    ASSUME TypeOK, [Next]_vars, NEW n \in PolicyNumbers
    PROVE  PolicyMove(n)
<1> USE DEF tables, versions, pas, locals, time
<1>1. CASE UNCHANGED policy
  BY <1>1 DEF PolicyMove
<1>2. CASE \E b \in Binds : create_policy(b) \/ submit(b) \/ activate(b)
  <2>1. PICK b \in Binds : create_policy(b) \/ submit(b) \/ activate(b)
    BY <1>2
  <2>2. cover[b] \in Nat
    BY DataAssumption DEF TypeOK
  <2>3. CASE create_policy(b)
    BY <2>2, <2>3 DEF create_policy, PolicyMove, Called, TypeOK
  <2>4. CASE submit(b)
    BY <2>4 DEF submit, PolicyMove, TypeOK
  <2>5. CASE activate(b)
    BY <2>5 DEF activate, PolicyMove, TypeOK
  <2> QED
    BY <2>1, <2>3, <2>4, <2>5
<1>3. CASE \E m \in late : pas_late(m)
  <2>1. PICK m \in late : pas_late(m)
    BY <1>3
  <2>2. m.day \in Nat
    BY DEF TypeOK, LateCalls
  <2> QED
    BY <2>1, <2>2 DEF pas_late, PolicyMove, Called, TypeOK
<1>4. CASE \E c \in Cancellable : pas_cancel(c)
  BY <1>4 DEF pas_cancel, PolicyMove, TypeOK
<1> QED
  BY <1>1, <1>2, <1>3, <1>4
     DEF Next, create_submission, assess_start, guarded, AssessStep,
         assess_ruleset, read_current, flush, assess_commit, quote_start,
         QuoteStep, quote_decision, quote_rate_table, quote_commit, bind_start,
         BindStep, bind_decision, bind_quote, resolve_existing,
         publish_best_effort, insert_binding, bind_commit, pas_timeout, abort,
         create_ruleset, create_rate_table, midnight, vars

\* So no policy moves back, and none appears uncalled.
LEMMA PolicyForward ==
    ASSUME TypeOK, [Next]_vars, NEW n \in PolicyNumbers
    PROVE  /\ Forward(policy[n], policy'[n])
           /\ policy'[n].status = "terminated" =>
                 policy[n].status = "terminated" \/ n \in Cancellable
           /\ exists(policy'[n]) => exists(policy[n]) \/ Called(n)
<1>1. policy[n] \in Policy /\ 0 \in Nat
  BY DEF TypeOK
<1>2. PolicyMove(n)
  BY PolicyMoved
<1>3. CASE \E day \in Nat : policy'[n] = created(policy[n], day) /\ Called(n)
  BY <1>1, <1>3, Operations
<1>4. CASE policy'[n] \in {policy[n], submitted(policy[n]), activated(policy[n])}
  BY <1>1, <1>4, Operations DEF exists
<1>5. CASE policy'[n] = cancelled(policy[n]) /\ n \in Cancellable
  BY <1>1, <1>5, Operations DEF exists
<1> QED
  BY <1>2, <1>3, <1>4, <1>5 DEF PolicyMove

-----------------------------------------------------------------------------
\* The parts of the invariant, one by one.

\* One lemma for each conjunct of CoreInv.  Assessments under way:
LEMMA AssessStepInv == CoreInv /\ [Next]_vars => AssessInv'
<1> SUFFICES ASSUME CoreInv, [Next]_vars, NEW a \in Assesses
             PROVE  /\ pc'[a] \in {"idle"} \union Answers \union AssessSteps
                    /\ pc'[a] \in {"flush", "commit"} => version'[a] \in appetite_ruleset'
  BY DEF AssessInv
<1>0. /\ TypeOK /\ a \in Requests
      /\ pc[a] \in {"idle"} \union Answers \union AssessSteps
      /\ pc[a] \in {"flush", "commit"} => version[a] \in appetite_ruleset
      /\ appetite_ruleset \subseteq appetite_ruleset'
  BY Growth DEF CoreInv, AssessInv, Requests, Addressed
<1>1. CASE AssessAct(a)
  <2> USE <1>0 DEF TypeOK, Answers, AssessSteps
  <2>1. CASE assess_start(a)
    BY <2>1 DEF assess_start, guarded, goto
  <2>2. CASE assess_ruleset(a)
    BY <2>2 DEF assess_ruleset, read_current, current, goto
  <2>3. CASE flush(a)
    BY <2>3 DEF flush, goto
  <2>4. CASE assess_commit(a)
    BY <2>4 DEF assess_commit, committed, goto
  <2>5. CASE abort(a)
    BY <2>5 DEF abort, goto
  <2> QED
    BY <1>1, <2>1, <2>2, <2>3, <2>4, <2>5 DEF AssessAct, AssessStep
<1>2. CASE pc'[a] = pc[a] /\ version'[a] = version[a]
  BY <1>0, <1>2
<1> QED
  BY <1>0, <1>1, <1>2, VersionFrame, RequestAssumption

\* Quotes under way:
LEMMA QuoteStepInv == CoreInv /\ [Next]_vars => QuoteInv'
<1> SUFFICES ASSUME CoreInv, [Next]_vars, NEW q \in Quotes
             PROVE  /\ pc'[q] \in {"idle"} \union Answers \union QuoteSteps
                    /\ pc'[q] \in {"rate_table", "flush", "commit"} =>
                          Undeclined(target[q])'
                    /\ pc'[q] \in {"flush", "commit"} => version'[q] \in rate_table'
  BY DEF QuoteInv
<1>0. /\ TypeOK /\ q \in Requests
      /\ pc[q] \in {"idle"} \union Answers \union QuoteSteps
      /\ pc[q] \in {"rate_table", "flush", "commit"} => Undeclined(target[q])
      /\ pc[q] \in {"flush", "commit"} => version[q] \in rate_table
      /\ rate_table \subseteq rate_table'
      /\ Undeclined(target[q]) => Undeclined(target[q])'
  BY Growth, Persistence DEF CoreInv, QuoteInv, Requests, Addressed
<1>1. CASE QuoteAct(q)
  <2> USE <1>0 DEF TypeOK, Answers, QuoteSteps
  <2>1. CASE quote_start(q)
    BY <2>1 DEF quote_start, guarded, goto
  <2>2. CASE quote_decision(q)
    BY <2>2 DEF quote_decision, latest_decision, decisions_of, Undeclined, goto
  <2>3. CASE quote_rate_table(q)
    BY <2>3 DEF quote_rate_table, read_current, current, goto
  <2>4. CASE flush(q)
    BY <2>4 DEF flush, goto
  <2>5. CASE quote_commit(q)
    BY <2>5 DEF quote_commit, committed, goto
  <2>6. CASE abort(q)
    BY <2>6 DEF abort, goto
  <2> QED
    BY <1>1, <2>1, <2>2, <2>3, <2>4, <2>5, <2>6 DEF QuoteAct, QuoteStep
<1>2. CASE pc'[q] = pc[q] /\ version'[q] = version[q]
  BY <1>0, <1>2
<1> QED
  BY <1>0, <1>1, <1>2, VersionFrame, RequestAssumption

\* Binds under way:
LEMMA BindStepInv == CoreInv /\ [Next]_vars => BindInv'
<1> SUFFICES ASSUME CoreInv, [Next]_vars, NEW b \in Binds
             PROVE  /\ pc'[b] \in {"idle"} \union Answers \union BindSteps
                    /\ HasDecision(pc'[b]) => was_accepted(target[b])'
                    /\ HasQuote(pc'[b]) =>
                          \E q \in quote' :
                             q.id = picked'[b] /\ q.submission_id = target[b]
                    /\ Untouched(pc'[b]) => picked'[b] = NoQuote /\ delivered'[b] = 0
                    /\ pc'[b] = "200" => is_bound(target[b])'
  BY DEF BindInv
<1>0. /\ TypeOK
      /\ pc[b] \in {"idle"} \union Answers \union BindSteps
      /\ HasDecision(pc[b]) => was_accepted(target[b])
      /\ HasQuote(pc[b]) =>
            \E q \in quote : q.id = picked[b] /\ q.submission_id = target[b]
      /\ Untouched(pc[b]) => picked[b] = NoQuote /\ delivered[b] = 0
      /\ pc[b] = "200" => is_bound(target[b])
  BY DEF CoreInv, BindInv
<1>1. /\ quote \subseteq quote'
      /\ was_accepted(target[b]) => was_accepted(target[b])'
      /\ is_bound(target[b]) => is_bound(target[b])'
  BY Growth, Persistence
<1>2. CASE BindAct(b)
  <2>1. Path(b)
    BY <1>0, <1>2, BindPath
  <2>2. ASSUME bind_commit(b) PROVE is_bound(target[b])'
    <3> DEFINE row == [id |-> b, submission_id |-> target[b], quote_id |-> picked[b],
                       policy_number |-> number(b), event_published |-> published[b],
                       bound_at |-> stamp[b]]
    <3>1. row \in binding'
      BY <2>2 DEF bind_commit
    <3>2. row.submission_id = target[b]
      OBVIOUS
    <3> QED
      BY <3>1, <3>2 DEF is_bound
  <2> QED
    BY <1>0, <1>1, <2>1, <2>2
       DEF Path, Same, HasDecision, HasQuote, Untouched, Answers, BindSteps
<1>3. CASE Same(b) /\ pc'[b] = pc[b]
  BY <1>0, <1>1, <1>3 DEF Same
<1> QED
  BY <1>0, <1>2, <1>3, BindFrame DEF Same

\* The policy_number of a bind that has its quote.
LEMMA NumberKnown ==
    ASSUME CoreInv, NEW b \in Binds, HasQuote(pc[b])
    PROVE  number(b) \in PolicyNumbers /\ Backed(number(b)) /\ picked[b] \in Quotes
<1>1. PICK q \in quote : q.id = picked[b] /\ q.submission_id = target[b]
  BY DEF CoreInv, BindInv
<1>2. was_accepted(target[b])
  BY DEF CoreInv, BindInv, HasQuote
<1>3. picked[b] \in Quotes
  BY <1>1 DEF CoreInv, TypeOK, QuoteRows
<1> QED
  BY <1>1, <1>2, <1>3, DataAssumption DEF number, Backed

\* The policy of a bind under way:
LEMMA PolicyStepInv == CoreInv /\ [Next]_vars => PolicyInv'
<1> SUFFICES ASSUME CoreInv, [Next]_vars, NEW b \in Binds
             PROVE  /\ HasPolicy(pc'[b]) => policy'[number(b)'].status # "none"
                    /\ HasSubmitted(pc'[b]) =>
                          policy'[number(b)'].status \in {"submitted", "active", "terminated"}
                    /\ HasActivated(pc'[b]) =>
                          policy'[number(b)'].status \in {"active", "terminated"}
  BY DEF PolicyInv
<1>0. /\ TypeOK
      /\ HasPolicy(pc[b]) => policy[number(b)].status # "none"
      /\ HasSubmitted(pc[b]) =>
            policy[number(b)].status \in {"submitted", "active", "terminated"}
      /\ HasActivated(pc[b]) =>
            policy[number(b)].status \in {"active", "terminated"}
  BY DEF CoreInv, PolicyInv
<1> USE DEF HasPolicy, HasQuote, HasDecision, HasSubmitted, HasActivated, BindSteps
<1>1. CASE ~HasQuote(pc[b])
  <2>1. ~HasPolicy(pc'[b]) /\ ~HasSubmitted(pc'[b]) /\ ~HasActivated(pc'[b])
    <3>1. CASE BindAct(b)
      BY <1>0, <1>1, <3>1, BindPath DEF Path, Answers
    <3>2. CASE pc'[b] = pc[b]
      BY <1>1, <3>2
    <3> QED
      BY <1>0, <3>1, <3>2, BindFrame
  <2> QED
    BY <2>1
<1>2. CASE HasQuote(pc[b])
  <2>1. number(b) \in PolicyNumbers /\ policy[number(b)] \in Policy
    BY <1>0, <1>2, NumberKnown DEF TypeOK
  <2>2. Forward(policy[number(b)], policy'[number(b)])
    BY <1>0, <2>1, PolicyForward
  <2>3. number(b)' = number(b)
    BY <1>0, <1>2, BindFrame, BindPath DEF Path, Same, number
  <2>4. CASE BindAct(b)
    <3>1. Path(b)
      BY <1>0, <2>4, BindPath
    <3>2. cover[b] \in Nat
      BY <1>0, DataAssumption DEF TypeOK
    <3>3. CASE pc'[b] \in {"resolve", "submit"} /\ pc[b] = "create_policy"
      BY <1>0, <2>1, <2>3, <3>1, <3>2, <3>3, Operations DEF Path, TypeOK
    <3>4. CASE pc'[b] = "activate"
      BY <1>0, <2>1, <2>3, <3>1, <3>4, Operations DEF Path, TypeOK
    <3>5. CASE pc'[b] = "publish"
      BY <1>0, <2>1, <2>3, <3>1, <3>5, Operations DEF Path, TypeOK
    <3>6. CASE pc'[b] = "submit" /\ pc[b] = "resolve"
      BY <1>0, <2>2, <2>3, <3>6 DEF Forward
    <3>7. CASE pc'[b] \in {"insert", "commit"}
      BY <1>0, <2>2, <2>3, <3>1, <3>7 DEF Path, Forward
    <3>8. CASE pc'[b] \in Answers
      BY <3>8 DEF Answers
    <3> QED
      BY <1>2, <3>1, <3>3, <3>4, <3>5, <3>6, <3>7, <3>8 DEF Path, Answers
  <2>5. CASE pc'[b] = pc[b]
    BY <1>0, <2>2, <2>3, <2>5 DEF Forward
  <2> QED
    BY <1>0, <2>4, <2>5, BindFrame
<1> QED
  BY <1>1, <1>2

\* Cancelled policies:
LEMMA CancelStepInv == CoreInv /\ [Next]_vars => CancelInv'
BY PolicyForward DEF CoreInv, CancelInv

\* What stands behind policies and late calls:
LEMMA BackedStepInv == IInv /\ [Next]_vars => BackedInv'
<1> SUFFICES ASSUME CoreInv, BackedInv, [Next]_vars PROVE BackedInv'
  BY DEF IInv
<1>0. TypeOK /\ BackedInv
  BY DEF CoreInv
<1>1. \A n : Backed(n) => Backed(n)'
  BY Persistence
<1>2. \A n : Called(n) => Backed(n)
  BY <1>0, NumberKnown DEF Called, BackedInv, HasQuote, HasDecision, BindSteps
<1>3. ASSUME NEW n \in PolicyNumbers, exists(policy'[n]) PROVE Backed(n)'
  BY <1>0, <1>1, <1>2, <1>3, PolicyForward DEF BackedInv
<1>4. ASSUME NEW m \in late' PROVE Backed(m.policy_number)'
  <2> USE DEF tables, versions, pas, locals, time
  <2>1. CASE m \in late
    BY <1>0, <1>1, <2>1 DEF BackedInv
  <2>2. CASE \E b \in Binds : pas_timeout(b)
    <3>1. PICK b \in Binds : pas_timeout(b)
      BY <2>2
    <3>2. Backed(number(b))
      BY <3>1, NumberKnown DEF pas_timeout, HasQuote, HasDecision, BindSteps
    <3>3. m \in late \/ m.policy_number = number(b)
      BY <3>1 DEF pas_timeout
    <3> QED
      BY <1>1, <2>1, <3>2, <3>3
  <2>3. late' \subseteq late \/ \E b \in Binds : pas_timeout(b)
    BY DEF Next, create_submission, assess_start, guarded, AssessStep,
         assess_ruleset, read_current, flush, assess_commit, quote_start,
         QuoteStep, quote_decision, quote_rate_table, quote_commit, bind_start,
         BindStep, bind_decision, bind_quote, create_policy, resolve_existing,
         submit, activate, publish_best_effort, insert_binding, bind_commit,
         abort, pas_late, pas_cancel, create_ruleset, create_rate_table,
         midnight, vars
  <2> QED
    BY <2>1, <2>2, <2>3
<1> QED
  BY <1>3, <1>4 DEF BackedInv

\* Quoted files:
LEMMA QuotedStepInv == CoreInv /\ [Next]_vars => QuotedInv'
<1> SUFFICES ASSUME CoreInv, [Next]_vars, NEW q \in quote'
             PROVE  Undeclined(q.submission_id)'
  BY DEF QuotedInv
<1>1. \A s : Undeclined(s) => Undeclined(s)'
  BY Persistence
<1>2. CASE q \in quote
  BY <1>1, <1>2 DEF CoreInv, QuotedInv
<1>3. CASE \E x \in Quotes : quote_commit(x)
  BY <1>1, <1>2, <1>3 DEF quote_commit, CoreInv, QuoteInv
<1> QED
  BY <1>2, <1>3, Growth

\* Rival binds:
LEMMA RivalStepInv == CoreInv /\ [Next]_vars => RivalInv'
<1> SUFFICES ASSUME CoreInv, [Next]_vars PROVE RivalInv'
  OBVIOUS
<1>0. TypeOK /\ RivalInv
  BY DEF CoreInv
\* A bind at its COMMIT either was there already or has just inserted.
<1>1. ASSUME NEW b \in Binds, pc'[b] = "commit"
      PROVE  /\ number(b)' = number(b)
             /\ \/ pc[b] = "commit"
                \/ /\ BindAct(b) /\ ~taken(b)
                   /\ \A c \in Binds \ {b} :
                         pc'[c] = pc[c] /\ (pc[c] = "commit" => ~rivals(b, c))
  <2>1. CASE BindAct(b)
    BY <1>0, <1>1, <2>1, BindPath DEF Path, Same, number, Answers
  <2>2. CASE pc'[b] = pc[b] /\ picked'[b] = picked[b]
    BY <1>1, <2>2 DEF number
  <2> QED
    BY <1>0, <2>1, <2>2, BindFrame
<1>2. ASSUME NEW b \in Binds, NEW c \in Binds,
             pc'[b] = "commit", pc'[c] = "commit", rivals(b, c)'
      PROVE  b = c
  <2>1. rivals(b, c) /\ rivals(c, b)
    BY <1>1, <1>2 DEF rivals
  <2> QED
    BY <1>0, <1>1, <1>2, <2>1 DEF RivalInv
<1>3. ASSUME NEW b \in Binds, pc'[b] = "commit" PROVE ~taken(b)'
  <2>1. ~taken(b)
    BY <1>0, <1>1, <1>3 DEF RivalInv
  <2>2. CASE binding' = binding
    BY <1>1, <1>3, <2>1, <2>2 DEF taken
  <2>3. CASE \E c \in Binds : bind_commit(c)
    <3>1. PICK c \in Binds : bind_commit(c)
      BY <2>3
    <3>2. pc[c] = "commit" /\ pc'[c] # "commit"
      BY <1>0, <3>1 DEF bind_commit, committed, goto, TypeOK, Requests, Addressed
    <3>3. b # c
      BY <1>3, <3>2
    <3>4. ~rivals(b, c)
      BY <1>0, <1>1, <1>3, <3>2, <3>3 DEF RivalInv
    <3>5. \A row \in binding' \ binding :
             row.submission_id = target[c] /\ row.policy_number = number(c)
      BY <3>1 DEF bind_commit
    <3> QED
      BY <1>1, <1>3, <2>1, <3>4, <3>5 DEF taken, rivals
  <2> QED
    BY <2>2, <2>3, Growth
<1> QED
  BY <1>2, <1>3 DEF RivalInv

\* The row that a bind commits, and how it relates to the others.
LEMMA NewBinding ==
    ASSUME CoreInv, NEW b \in Binds, bind_commit(b), NEW row \in binding' \ binding
    PROVE  /\ row.id = b /\ row.submission_id = target[b]
           /\ row.quote_id = picked[b] /\ row.policy_number = number(b)
           /\ row.event_published = published[b]
           /\ \A other \in binding' \ binding : row = other
           /\ \A other \in binding :
                 /\ other.submission_id # row.submission_id
                 /\ other.policy_number # row.policy_number
<1>1. pc[b] = "commit" /\ ~taken(b)
  BY DEF bind_commit, CoreInv, RivalInv
<1> QED
  BY <1>1 DEF bind_commit, taken

\* One binding per submission and per number:
LEMMA UniqueStepInv == CoreInv /\ [Next]_vars => UniqueBinding'
<1> SUFFICES ASSUME CoreInv, [Next]_vars PROVE UniqueBinding'
  OBVIOUS
<1>1. CASE binding' = binding
  BY <1>1 DEF CoreInv, UniqueBinding
<1>2. CASE \E b \in Binds : bind_commit(b)
  BY <1>2, NewBinding DEF CoreInv, UniqueBinding
<1> QED
  BY <1>1, <1>2, Growth

\* The event_published flag:
LEMMA FlagStepInv == CoreInv /\ [Next]_vars => (FlagInv /\ PublishedFlagTruthful)'
<1> SUFFICES ASSUME CoreInv, [Next]_vars PROVE FlagInv' /\ PublishedFlagTruthful'
  OBVIOUS
<1>0. TypeOK /\ FlagInv /\ PublishedFlagTruthful
  BY DEF CoreInv
<1>1. ASSUME NEW b \in Binds, pc'[b] \in {"insert", "commit"}, published'[b]
      PROVE  delivered'[b] > 0
  <2>1. CASE BindAct(b)
    BY <1>0, <1>1, <2>1, BindPath DEF Path, Same, FlagInv, Answers
  <2> QED
    BY <1>0, <1>1, <2>1, BindFrame DEF FlagInv
<1>2. ASSUME NEW row \in binding'
      PROVE  /\ pc'[row.id] \in {"200", "500"}
             /\ row.event_published => delivered'[row.id] > 0
  <2>1. CASE row \in binding
    <3>1. row.id \in Binds /\ pc[row.id] \in {"200", "500"}
      BY <1>0, <2>1 DEF TypeOK, Bindings, FlagInv
    <3>2. ~BindAct(row.id)
      BY <1>0, <3>1, BindPath DEF Path, Answers
    <3> QED
      BY <1>0, <2>1, <3>1, <3>2, BindFrame DEF PublishedFlagTruthful
  <2>2. CASE row \notin binding
    <3>1. PICK b \in Binds : bind_commit(b)
      BY <2>2, Growth
    <3>2. row.id = b /\ row.event_published = published[b]
      BY <2>2, <3>1, NewBinding
    <3>3. pc[b] = "commit" /\ pc'[b] \in {"200", "500"}
      BY <1>0, <3>1 DEF bind_commit, committed, goto, TypeOK, Requests, Addressed
    <3>4. delivered'[b] = delivered[b]
      BY <3>1 DEF bind_commit
    <3> QED
      BY <1>0, <3>2, <3>3, <3>4 DEF FlagInv
  <2> QED
    BY <2>1, <2>2
<1> QED
  BY <1>1, <1>2 DEF FlagInv, PublishedFlagTruthful

\* What stands behind a binding:
LEMMA BindingStepInv == CoreInv /\ [Next]_vars => BindingBacked'
<1> SUFFICES ASSUME CoreInv, [Next]_vars, NEW row \in binding'
             PROVE  /\ \E q \in quotes_of(row.submission_id)' : q.id = row.quote_id
                    /\ row.policy_number = policy_number_for[row.quote_id]
                    /\ was_accepted(row.submission_id)'
                    /\ \/ policy'[row.policy_number].status = "active"
                       \/ row.policy_number \in Cancellable
  BY DEF BindingBacked
<1>0. TypeOK /\ quote \subseteq quote' /\ \A s : was_accepted(s) => was_accepted(s)'
  BY Growth, Persistence DEF CoreInv
\* What the row says held before the step, or holds of the bind that commits it.
<1>1. /\ \E q \in quote : q.submission_id = row.submission_id /\ q.id = row.quote_id
      /\ row.policy_number = policy_number_for[row.quote_id]
      /\ row.policy_number \in PolicyNumbers
      /\ was_accepted(row.submission_id)
      /\ \/ policy[row.policy_number].status = "active"
         \/ row.policy_number \in Cancellable
  <2>1. CASE row \in binding
    BY <1>0, <2>1 DEF CoreInv, BindingBacked, quotes_of, TypeOK, Bindings
  <2>2. CASE row \notin binding
    <3>1. PICK b \in Binds : bind_commit(b)
      BY <2>2, Growth
    <3>2. pc[b] = "commit"
      BY <3>1 DEF bind_commit
    <3>3. /\ row.submission_id = target[b] /\ row.quote_id = picked[b]
          /\ row.policy_number = number(b)
      BY <2>2, <3>1, NewBinding
    <3>4. HasDecision(pc[b]) /\ HasQuote(pc[b]) /\ HasActivated(pc[b])
      BY <3>2 DEF HasDecision, HasQuote, HasActivated, BindSteps
    <3>5. number(b) \in PolicyNumbers
      BY <3>4, NumberKnown
    <3>6. policy[number(b)].status \in {"active", "terminated"}
      BY <3>4 DEF CoreInv, PolicyInv
    <3>7. policy[number(b)].status = "active" \/ number(b) \in Cancellable
      BY <3>5, <3>6 DEF CoreInv, CancelInv
    <3> QED
      BY <3>3, <3>4, <3>5, <3>7 DEF CoreInv, BindInv, number
  <2> QED
    BY <2>1, <2>2
<1>2. Forward(policy[row.policy_number], policy'[row.policy_number])
  BY <1>0, <1>1, PolicyForward
<1> QED
  BY <1>0, <1>1, <1>2 DEF Forward, quotes_of

\* Decisions and the rulesets they name:
LEMMA ReplayStepInv == CoreInv /\ [Next]_vars => DecisionReplayable'
<1> SUFFICES ASSUME CoreInv, [Next]_vars, NEW d \in decision'
             PROVE  /\ d.appetite_version \in appetite_ruleset'
                    /\ \E row \in submission' :
                          /\ row.id = d.submission_id
                          /\ assess(row.facts, Rulesets[d.appetite_version])
                                = [outcome |-> d.outcome,
                                   reason_codes |-> d.reason_codes]
  BY DEF DecisionReplayable
<1>0. submission \subseteq submission' /\ appetite_ruleset \subseteq appetite_ruleset'
  BY Growth
<1>1. CASE d \in decision
  BY <1>0, <1>1 DEF CoreInv, DecisionReplayable
<1>2. CASE d \notin decision
  <2>1. PICK a \in Assesses : assess_commit(a)
    BY <1>2, Growth
  <2>2. PICK row \in submission :
           /\ row.id = target[a]
           /\ decision' = decision \union
                {[id |-> a, submission_id |-> target[a],
                  outcome |-> assess(row.facts, Rulesets[version[a]]).outcome,
                  reason_codes |->
                      assess(row.facts, Rulesets[version[a]]).reason_codes,
                  appetite_version |-> version[a], decided_at |-> stamp[a]]}
    BY <2>1 DEF assess_commit
  <2>3. /\ d.submission_id = row.id /\ d.appetite_version = version[a]
        /\ d.outcome = assess(row.facts, Rulesets[version[a]]).outcome
        /\ d.reason_codes = assess(row.facts, Rulesets[version[a]]).reason_codes
    BY <1>2, <2>2
  <2>4. version[a] \in appetite_ruleset
    BY <2>1 DEF assess_commit, CoreInv, AssessInv
  <2>5. assess(row.facts, Rulesets[version[a]])
           = [outcome |-> d.outcome, reason_codes |-> d.reason_codes]
    BY <2>3, Precedence
  <2> QED
    BY <1>0, <2>2, <2>3, <2>4, <2>5
<1> QED
  BY <1>1, <1>2

-----------------------------------------------------------------------------
\* The inductive invariant and what follows from it.

\* CoreInv holds before the first request.
LEMMA Initially == Init => IInv
<1> SUFFICES ASSUME Init PROVE IInv
  OBVIOUS
<1>1. TypeOK
  BY TypeInit
<1>2. AssessInv /\ QuoteInv /\ QuotedInv /\ DecisionReplayable
  BY DEF Init, AssessInv, QuoteInv, QuotedInv, DecisionReplayable, Requests, Addressed
<1>3. BindInv /\ PolicyInv
  BY DEF Init, BindInv, PolicyInv, HasPolicy, HasQuote, HasDecision, HasSubmitted,
         HasActivated, BindSteps, NoQuote, Requests, Addressed
<1>4. CancelInv /\ BackedInv
  BY DEF Init, CancelInv, BackedInv, NoPolicy, exists
<1>5. RivalInv /\ FlagInv
  BY DEF Init, RivalInv, FlagInv, Requests, Addressed
<1>6. BindingBacked /\ UniqueBinding /\ PublishedFlagTruthful
  BY DEF Init, BindingBacked, UniqueBinding, PublishedFlagTruthful
<1> QED
  BY <1>1, <1>2, <1>3, <1>4, <1>5, <1>6 DEF IInv, CoreInv

\* CoreInv is inductive: the PAS may hold whatever it likes.
LEMMA CoreInductive == CoreInv /\ [Next]_vars => CoreInv'
BY TypeStep, AssessStepInv, QuoteStepInv, BindStepInv, PolicyStepInv,
   CancelStepInv, RivalStepInv, QuotedStepInv, FlagStepInv, ReplayStepInv,
   BindingStepInv, UniqueStepInv
   DEF CoreInv

\* So is IInv.
LEMMA Inductive == IInv /\ [Next]_vars => IInv'
BY CoreInductive, BackedStepInv DEF IInv, CoreInv

\* However many requests run, whatever they carry and whatever fails, every
\* handler's assumptions about what it read hold when it acts on them.
THEOREM Invariance == Spec => []IInv
BY Initially, Inductive, PTL DEF Spec

\* The state keeps its types for every value of the constants.
THEOREM Typing == Spec => []TypeOK
<1>1. IInv => TypeOK
  BY DEF IInv, CoreInv
<1> QED
  BY <1>1, Invariance, PTL

\* A recorded binding is backed by an acceptance, its own quote, the number
\* derived from it and a policy that is active unless drafts can be cancelled.
THEOREM BindingsAreBacked == Spec => []BindingBacked
<1>1. IInv => BindingBacked
  BY DEF IInv, CoreInv
<1> QED
  BY <1>1, Invariance, PTL

\* Any number of concurrent binds leave one binding per submission and per
\* policy_number, with no assumption that quote ids hash to distinct numbers.
THEOREM BindingsAreUnique == Spec => []UniqueBinding
<1>1. IInv => UniqueBinding
  BY DEF IInv, CoreInv
<1> QED
  BY <1>1, Invariance, PTL

\* Every decision is the verdict of a published ruleset on the stored facts.
THEOREM DecisionsReplay == Spec => []DecisionReplayable
<1>1. IInv => DecisionReplayable
  BY DEF IInv, CoreInv
<1> QED
  BY <1>1, Invariance, PTL

\* event_published is never true of an event NATS did not receive.
THEOREM FlagsAreTruthful == Spec => []PublishedFlagTruthful
<1>1. IInv => PublishedFlagTruthful
  BY DEF IInv, CoreInv
<1> QED
  BY <1>1, Invariance, PTL

\* A 200 from bind means a binding; a refusal means nothing was touched.
THEOREM AnswersAreTruthful == Spec => []BindAnswerTruthful
<1>1. IInv => BindAnswerTruthful
  BY DEF IInv, CoreInv, BindInv, BindAnswerTruthful, Untouched
<1> QED
  BY <1>1, Invariance, PTL

\* No policy exists, or is on its way, without a published ruleset that accepts
\* the risk: in particular none for a risk sanctioned under every version.
THEOREM PoliciesNeedAppetite == Spec => []PolicyNeedsAppetite
<1>1. ASSUME IInv PROVE PolicyNeedsAppetite
  <2>1. ASSUME NEW n \in {m \in PolicyNumbers : exists(policy[m])}
                         \union {m.policy_number : m \in late}
        PROVE  \E q \in quote, row \in submission, v \in appetite_ruleset :
                  /\ policy_number_for[q.id] = n
                  /\ row.id = q.submission_id
                  /\ assess(row.facts, Rulesets[v]).outcome = "accept"
    <3>1. Backed(n)
      BY <1>1, <2>1 DEF IInv, CoreInv, BackedInv
    <3>2. PICK q \in quote : policy_number_for[q.id] = n /\ was_accepted(q.submission_id)
      BY <3>1 DEF Backed
    <3>3. PICK d \in decision : d.submission_id = q.submission_id /\ d.outcome = "accept"
      BY <3>2 DEF was_accepted, decisions_of
    <3>4. PICK row \in submission :
             /\ row.id = d.submission_id
             /\ assess(row.facts, Rulesets[d.appetite_version]).outcome = d.outcome
      <4>1. PICK row \in submission :
               /\ row.id = d.submission_id
               /\ assess(row.facts, Rulesets[d.appetite_version])
                     = [outcome |-> d.outcome, reason_codes |-> d.reason_codes]
        BY <1>1, <3>3 DEF IInv, CoreInv, DecisionReplayable
      <4> QED
        BY <4>1
    <3>5. d.appetite_version \in appetite_ruleset
      BY <1>1, <3>3 DEF IInv, CoreInv, DecisionReplayable
    <3> QED
      BY <3>2, <3>3, <3>4, <3>5
  <2> QED
    BY <2>1 DEF PolicyNeedsAppetite
<1> QED
  BY <1>1, Invariance, PTL

\* No price is on file for a risk that every published ruleset declines.
THEOREM DeclinedRisksAreNotQuoted == Spec => []DeclinedNeverQuoted
<1>1. ASSUME IInv PROVE DeclinedNeverQuoted
  <2>1. ASSUME NEW q \in quote
        PROVE  \E row \in submission, v \in appetite_ruleset :
                  /\ row.id = q.submission_id
                  /\ assess(row.facts, Rulesets[v]).outcome # "decline"
    <3>1. PICK d \in decision : d.submission_id = q.submission_id /\ d.outcome # "decline"
      BY <1>1, <2>1 DEF IInv, CoreInv, QuotedInv, Undeclined
    <3>2. PICK row \in submission :
             /\ row.id = d.submission_id
             /\ assess(row.facts, Rulesets[d.appetite_version]).outcome = d.outcome
      <4>1. PICK row \in submission :
               /\ row.id = d.submission_id
               /\ assess(row.facts, Rulesets[d.appetite_version])
                     = [outcome |-> d.outcome, reason_codes |-> d.reason_codes]
        BY <1>1, <3>1 DEF IInv, CoreInv, DecisionReplayable
      <4> QED
        BY <4>1
    <3>3. d.appetite_version \in appetite_ruleset
      BY <1>1, <3>1 DEF IInv, CoreInv, DecisionReplayable
    <3> QED
      BY <3>1, <3>2, <3>3
  <2> QED
    BY <2>1 DEF DeclinedNeverQuoted
<1> QED
  BY <1>1, Invariance, PTL

-----------------------------------------------------------------------------
\* The entry that each row calls for.

Intake(row) ==
    [id |-> row.id, submission_id |-> row.id, action |-> "submission.created",
     ruleset_version |-> 0]

Assessment(row) ==
    [id |-> row.id, submission_id |-> row.submission_id,
     action |-> "submission.assessed", ruleset_version |-> row.appetite_version]

Pricing(row) ==
    [id |-> row.id, submission_id |-> row.submission_id, action |-> "quote",
     ruleset_version |-> row.rate_table_version]

Cover(row) ==
    [id |-> row.id, submission_id |-> row.submission_id, action |-> "bind",
     ruleset_version |-> 0]

\* Some committed row calls for the entry.
Called_for(e) ==
    \/ \E row \in submission : e = Intake(row)
    \/ \E row \in decision : e = Assessment(row)
    \/ \E row \in quote : e = Pricing(row)
    \/ \E row \in binding : e = Cover(row)

\* The audit trail, entry by entry.
LEMMA EntryByEntry ==
    AuditTrailComplete <=> \A e : e \in audit_entry <=> Called_for(e)
BY DEF AuditTrailComplete, Called_for, Intake, Assessment, Pricing, Cover

\* The same after a step.
LEMMA EntryByEntryNext ==
    AuditTrailComplete' <=> \A e : e \in audit_entry' <=> Called_for(e)'
BY DEF AuditTrailComplete, Called_for, Intake, Assessment, Pricing, Cover

\* An intake adds a submission with its entry, or neither.
LEMMA TrailCreate ==
    ASSUME NEW c \in Creates, create_submission(c),
           \A e : e \in audit_entry <=> Called_for(e)
    PROVE  \A e : e \in audit_entry' <=> Called_for(e)'
<1>1. CASE UNCHANGED <<submission, audit_entry>>
  BY <1>1 DEF create_submission, Called_for, Intake, Assessment, Pricing, Cover
<1>2. CASE \E f \in Bodies :
             /\ submission' = submission \union {[id |-> c, facts |-> stored(f)]}
             /\ audited(c, c, "submission.created", 0)
  <2>0. PICK f \in Bodies :
           /\ submission' = submission \union {[id |-> c, facts |-> stored(f)]}
           /\ audited(c, c, "submission.created", 0)
    BY <1>2
  <2> DEFINE row == [id |-> c, facts |-> stored(f)]
  <2>1. /\ submission' = submission \union {row}
        /\ audit_entry' = audit_entry \union {Intake(row)}
    BY <2>0 DEF audited, Intake
  <2> HIDE DEF row
  <2> QED
    BY <2>1 DEF create_submission, Called_for, Intake, Assessment, Pricing, Cover
<1> QED
  BY <1>1, <1>2 DEF create_submission

\* An assessment adds a decision with its entry.
LEMMA TrailAssess ==
    ASSUME NEW a \in Assesses, assess_commit(a),
           \A e : e \in audit_entry <=> Called_for(e)
    PROVE  \A e : e \in audit_entry' <=> Called_for(e)'
<1>0. PICK risk \in submission :
         LET verdict == assess(risk.facts, Rulesets[version[a]])
         IN  decision' = decision \union
                {[id |-> a, submission_id |-> target[a],
                  outcome |-> verdict.outcome,
                  reason_codes |-> verdict.reason_codes,
                  appetite_version |-> version[a], decided_at |-> stamp[a]]}
  BY DEF assess_commit
<1> DEFINE verdict == assess(risk.facts, Rulesets[version[a]])
           row == [id |-> a, submission_id |-> target[a],
                   outcome |-> verdict.outcome,
                   reason_codes |-> verdict.reason_codes,
                   appetite_version |-> version[a], decided_at |-> stamp[a]]
<1>1. /\ decision' = decision \union {row}
      /\ audit_entry' = audit_entry \union {Assessment(row)}
  BY <1>0 DEF assess_commit, audited, Assessment
<1> HIDE DEF row
<1> QED
  BY <1>1 DEF assess_commit, Called_for, Intake, Assessment, Pricing, Cover

\* A quote comes with its entry.
LEMMA TrailQuote ==
    ASSUME NEW q \in Quotes, quote_commit(q),
           \A e : e \in audit_entry <=> Called_for(e)
    PROVE  \A e : e \in audit_entry' <=> Called_for(e)'
<1> DEFINE row == [id |-> q, submission_id |-> target[q],
                   rate_table_version |-> version[q], created_at |-> stamp[q]]
<1>1. /\ quote' = quote \union {row}
      /\ audit_entry' = audit_entry \union {Pricing(row)}
  BY DEF quote_commit, audited, Pricing
<1> HIDE DEF row
<1> QED
  BY <1>1 DEF quote_commit, Called_for, Intake, Assessment, Pricing, Cover

\* A binding comes with its entry.
LEMMA TrailBind ==
    ASSUME NEW b \in Binds, bind_commit(b),
           \A e : e \in audit_entry <=> Called_for(e)
    PROVE  \A e : e \in audit_entry' <=> Called_for(e)'
<1> DEFINE row == [id |-> b, submission_id |-> target[b], quote_id |-> picked[b],
                   policy_number |-> number(b), event_published |-> published[b],
                   bound_at |-> stamp[b]]
<1>1. /\ binding' = binding \union {row}
      /\ audit_entry' = audit_entry \union {Cover(row)}
  BY DEF bind_commit, audited, Cover
<1> HIDE DEF row
<1> QED
  BY <1>1 DEF bind_commit, Called_for, Intake, Assessment, Pricing, Cover

\* Every other step leaves the rows and the log alone.
LEMMA TrailFrame ==
    ASSUME [Next]_vars
    PROVE  \/ UNCHANGED tables
           \/ \E c \in Creates : create_submission(c)
           \/ \E a \in Assesses : assess_commit(a)
           \/ \E q \in Quotes : quote_commit(q)
           \/ \E b \in Binds : bind_commit(b)
<1> USE DEF tables
<1>1. CASE \E a \in Assesses : assess_start(a) \/ AssessStep(a)
  BY <1>1 DEF assess_start, guarded, AssessStep, assess_ruleset, read_current, flush
<1>2. CASE \E q \in Quotes : quote_start(q) \/ QuoteStep(q)
  BY <1>2 DEF quote_start, guarded, QuoteStep, quote_decision, quote_rate_table,
              read_current, flush
<1>3. CASE \E b \in Binds : bind_start(b) \/ BindStep(b) \/ pas_timeout(b)
  BY <1>3 DEF bind_start, BindStep, bind_decision, bind_quote, create_policy,
              resolve_existing, submit, activate, publish_best_effort,
              insert_binding, pas_timeout
<1>4. CASE \/ \E r \in Addressed : abort(r)
           \/ \E m \in late : pas_late(m)
           \/ \E n \in Cancellable : pas_cancel(n)
           \/ \E v \in RulesetVersions : create_ruleset(v)
           \/ \E v \in RateTableVersions : create_rate_table(v)
           \/ midnight
  BY <1>4 DEF abort, pas_late, pas_cancel, create_ruleset, create_rate_table, midnight
<1>5. CASE UNCHANGED vars
  BY <1>5 DEF vars
<1> QED
  BY <1>1, <1>2, <1>3, <1>4, <1>5 DEF Next

\* So every step keeps log and rows in line.
LEMMA TrailStep == AuditTrailComplete /\ [Next]_vars => AuditTrailComplete'
<1> SUFFICES ASSUME \A e : e \in audit_entry <=> Called_for(e), [Next]_vars
             PROVE  \A e : e \in audit_entry' <=> Called_for(e)'
  BY EntryByEntry, EntryByEntryNext
<1>1. CASE UNCHANGED tables
  BY <1>1 DEF tables, Called_for
<1> QED
  BY <1>1, TrailFrame, TrailCreate, TrailAssess, TrailQuote, TrailBind

\* The audit log holds exactly one entry per committed row, with the version the
\* row was made under, however requests interleave and fail.
THEOREM AuditTrailIsComplete == Spec => []AuditTrailComplete
<1>1. Init => AuditTrailComplete
  BY DEF Init, AuditTrailComplete
<1> QED
  BY <1>1, TrailStep, PTL DEF Spec

-----------------------------------------------------------------------------
\* Lock-out.

\* A bound file refuses an assess request at its first step.
LEMMA AssessRefused ==
    ASSUME TypeOK, NEW a \in Assesses, is_bound(target[a]), AssessAct(a),
           pc[a] \in {"idle", "409"}
    PROVE  pc'[a] = "409"
<1>1. a \in Requests /\ pc \in [Requests -> Steps]
  BY DEF TypeOK, Requests, Addressed
<1> QED
  BY <1>1 DEF AssessAct, assess_start, guarded, AssessStep, assess_ruleset,
         read_current, flush, assess_commit, abort, goto, Answers

\* A bound file refuses a quote request at its first step.
LEMMA QuoteRefused ==
    ASSUME TypeOK, NEW q \in Quotes, is_bound(target[q]), QuoteAct(q),
           pc[q] \in {"idle", "409"}
    PROVE  pc'[q] = "409"
<1>1. q \in Requests /\ pc \in [Requests -> Steps]
  BY DEF TypeOK, Requests, Addressed
<1> QED
  BY <1>1 DEF QuoteAct, quote_start, guarded, QuoteStep, quote_decision,
         quote_rate_table, read_current, flush, quote_commit, abort, goto, Answers

\* Once a file is bound, no assess or quote request that has not begun can ever
\* do anything but be refused.
THEOREM BoundFilesAreFrozen == Spec => FrozenForNewRequests
<1>1. ASSUME IInv, [Next]_vars, NEW r \in Assesses \union Quotes,
             is_bound(target[r]), pc[r] \in {"idle", "409"}
      PROVE  is_bound(target[r])' /\ pc'[r] \in {"idle", "409"}
  <2>1. TypeOK
    BY <1>1 DEF IInv, CoreInv
  <2>2. is_bound(target[r])'
    BY <1>1, Persistence
  <2>3. pc'[r] \in {"idle", "409"}
    BY <1>1, <2>1, VersionFrame, AssessRefused, QuoteRefused
  <2> QED
    BY <2>2, <2>3
<1>2. IInv /\ [Next]_vars =>
        [\A r \in Assesses \union Quotes :
            is_bound(target[r]) /\ pc[r] \in {"idle", "409"}
               => is_bound(target[r])' /\ pc'[r] \in {"idle", "409"}]_vars
  BY <1>1
<1> QED
  BY <1>2, Invariance, PTL DEF Spec, FrozenForNewRequests

-----------------------------------------------------------------------------
\* The file contract.

\* No two quotes share a policy number, and no PAS user cancels a draft.
Undisturbed ==
    /\ \A p, q \in Quotes : policy_number_for[p] = policy_number_for[q] => p = q
    /\ Cancellable = {}

active(n) == policy[n].status = "active"

\* The milestones that File reads off the tables.
Received == {row.id : row \in submission}
Judged == {d.submission_id : d \in decision}
Accepted == {d.submission_id : d \in {e \in decision : e.outcome = "accept"}}
Priced == {q.submission_id : q \in quote}
Covered ==
    {q.submission_id : q \in {p \in quote : policy[policy_number_for[p.id]].status = "active"}}
Bound == {row.submission_id : row \in binding}

\* A quote is on the file its request addressed.
QuotesPlaced == \A q \in quote : q.submission_id = target[q.id]

FileInv == IInv /\ QuotesPlaced

\* FileInv is inductive.
LEMMA FileInductive == FileInv /\ [Next]_vars => FileInv'
<1> SUFFICES ASSUME FileInv, [Next]_vars PROVE FileInv'
  OBVIOUS
<1>1. IInv'
  BY Inductive DEF FileInv
<1>2. CASE quote' = quote
  BY <1>1, <1>2 DEF FileInv, QuotesPlaced
<1>3. CASE \E q \in Quotes : quote_commit(q)
  <2>1. PICK q \in Quotes : quote_commit(q)
    BY <1>3
  <2> QED
    BY <1>1, <2>1 DEF quote_commit, FileInv, QuotesPlaced
<1> QED
  BY <1>2, <1>3, Growth

\* Two quotes with one policy number are one quote.
LEMMA SameQuote ==
    ASSUME Undisturbed, FileInv, NEW p \in quote, NEW q \in quote,
           policy_number_for[p.id] = policy_number_for[q.id]
    PROVE  p.id = q.id /\ p.submission_id = q.submission_id
<1>1. p.id \in Quotes /\ q.id \in Quotes
  BY DEF FileInv, IInv, CoreInv, TypeOK, QuoteRows
<1> QED
  BY <1>1 DEF Undisturbed, FileInv, QuotesPlaced

\* An intake is a Receive.
LEMMA FileReceive ==
    ASSUME NEW c \in Creates, create_submission(c)
    PROVE  File!Next \/ UNCHANGED File!milestones
<1>1. UNCHANGED <<decision, quote, binding, policy>>
  BY DEF create_submission, pas
<1>2. CASE submission' = submission
  BY <1>1, <1>2 DEF File!milestones
<1>3. ASSUME NEW f, submission' = submission \union {[id |-> c, facts |-> stored(f)]}
      PROVE  File!Receive(c)
  <2> DEFINE row == [id |-> c, facts |-> stored(f)]
  <2>0. submission' = submission \union {row} /\ row.id = c
    BY <1>3
  <2> HIDE DEF row
  <2>1. Received' = Received \union {c}
    BY <2>0 DEF Received
  <2> QED
    BY <1>1, <2>1 DEF File!Receive, Received
<1> QED
  BY <1>2, <1>3 DEF create_submission, File!Next

\* An assessment is a Judge.
LEMMA FileJudge ==
    ASSUME NEW a \in Assesses, assess_commit(a)
    PROVE  File!Next
<1> DEFINE s == target[a]
<1>1. UNCHANGED <<submission, quote, binding, policy>> /\ s \in Creates
  BY RequestAssumption DEF assess_commit, pas, Addressed
<1>2. PICK risk \in submission :
         /\ risk.id = s
         /\ LET verdict == assess(risk.facts, Rulesets[version[a]])
            IN  decision' = decision \union
                   {[id |-> a, submission_id |-> s,
                     outcome |-> verdict.outcome,
                     reason_codes |-> verdict.reason_codes,
                     appetite_version |-> version[a], decided_at |-> stamp[a]]}
  BY DEF assess_commit
<1> DEFINE verdict == assess(risk.facts, Rulesets[version[a]])
           row == [id |-> a, submission_id |-> s,
                   outcome |-> verdict.outcome,
                   reason_codes |-> verdict.reason_codes,
                   appetite_version |-> version[a], decided_at |-> stamp[a]]
<1>3. decision' = decision \union {row} /\ row.submission_id = s
  BY <1>2
<1> HIDE DEF row, s
<1>4. s \in Received
  BY <1>2 DEF Received
<1>5. Judged' = Judged \union {s}
  BY <1>3 DEF Judged
<1>6. Accepted' \in {Accepted, Accepted \union {s}}
  <2>1. CASE row.outcome = "accept"
    BY <1>3, <2>1 DEF Accepted
  <2>2. CASE row.outcome # "accept"
    BY <1>3, <2>2 DEF Accepted
  <2> QED
    BY <2>1, <2>2
<1>7. File!Judge(s)
  BY <1>1, <1>4, <1>5, <1>6 DEF File!Judge, Received, Judged, Accepted
<1> QED
  BY <1>1, <1>7 DEF File!Next

\* A quote is a Price: its number is its own, so it covers nothing by itself.
LEMMA FilePrice ==
    ASSUME Undisturbed, FileInv, FileInv', NEW q \in Quotes, quote_commit(q)
    PROVE  File!Next
<1> DEFINE s == target[q]
           row == [id |-> q, submission_id |-> s,
                   rate_table_version |-> version[q], created_at |-> stamp[q]]
<1>1. UNCHANGED <<submission, decision, binding, policy>> /\ s \in Creates
  BY RequestAssumption DEF quote_commit, pas, Addressed
<1>2. quote' = quote \union {row} /\ row.id = q /\ row.submission_id = s
  BY DEF quote_commit
<1>3. Undeclined(s)
  BY DEF quote_commit, FileInv, IInv, CoreInv, QuoteInv
<1> HIDE DEF row, s
<1>4. s \in Judged
  BY <1>3 DEF Undeclined, Judged
<1>5. Priced' = Priced \union {s}
  BY <1>2 DEF Priced
<1>6. Covered' = Covered
  <2>1. CASE ~ active(policy_number_for[q])
    BY <1>1, <1>2, <2>1 DEF Covered, active
  <2>2. CASE active(policy_number_for[q])
    <3>1. Backed(policy_number_for[q])
      BY <2>2, DataAssumption DEF FileInv, IInv, CoreInv, BackedInv, exists, active
    <3>2. PICK p \in quote : policy_number_for[p.id] = policy_number_for[q]
      BY <3>1 DEF Backed
    <3>3. p.id = q /\ p.submission_id = s
      BY <3>2 DEF Undisturbed, FileInv, IInv, CoreInv, TypeOK, QuoteRows, QuotesPlaced, s
    <3>4. s \in Covered
      BY <2>2, <3>3 DEF Covered, active
    <3> QED
      BY <1>1, <1>2, <3>4 DEF Covered
  <2> QED
    BY <2>1, <2>2
<1>7. File!Price(s)
  BY <1>1, <1>4, <1>5, <1>6 DEF File!Price, Judged, Priced, Covered
<1> QED
  BY <1>1, <1>7 DEF File!Next

\* A COMMIT of a bind is a Bind: its policy is active, its file was not bound.
LEMMA FileBind ==
    ASSUME Undisturbed, FileInv, NEW b \in Binds, bind_commit(b)
    PROVE  File!Next
<1> DEFINE s == target[b]
           row == [id |-> b, submission_id |-> s, quote_id |-> picked[b],
                   policy_number |-> number(b), event_published |-> published[b],
                   bound_at |-> stamp[b]]
<1>1. UNCHANGED <<submission, decision, quote, policy>> /\ s \in Creates
  BY RequestAssumption DEF bind_commit, pas, Addressed
<1>2. binding' = binding \union {row} /\ row.submission_id = s /\ pc[b] = "commit"
  BY DEF bind_commit
<1>3. s \notin Bound
  BY <1>2 DEF FileInv, IInv, CoreInv, RivalInv, taken, Bound
<1>4. s \in Covered
  <2>1. HasQuote(pc[b]) /\ HasActivated(pc[b])
    BY <1>2 DEF HasDecision, HasQuote, HasActivated, BindSteps
  <2>2. PICK q \in quote : q.id = picked[b] /\ q.submission_id = s
    BY <2>1 DEF FileInv, IInv, CoreInv, BindInv
  <2>3. number(b) \in PolicyNumbers
    BY <2>1, NumberKnown DEF FileInv, IInv
  <2>4. policy[number(b)].status = "active"
    BY <2>1, <2>3 DEF FileInv, IInv, CoreInv, PolicyInv, CancelInv, Undisturbed
  <2> QED
    BY <2>2, <2>4 DEF Covered, number
<1> HIDE DEF row, s
<1>5. Bound' = Bound \union {s}
  BY <1>2 DEF Bound
<1>6. File!Bind(s)
  BY <1>1, <1>3, <1>4, <1>5 DEF File!Bind, Covered, Bound
<1> QED
  BY <1>1, <1>6 DEF File!Next

\* A step changes the PAS row of one number at most.
LEMMA OneAtATime ==
    ASSUME TypeOK, [Next]_vars
    PROVE  \E n : \A m \in PolicyNumbers : m # n => policy'[m] = policy[m]
<1>1. ASSUME NEW n, NEW p, policy' = [policy EXCEPT ![n] = p]
      PROVE  \A m \in PolicyNumbers : m # n => policy'[m] = policy[m]
  BY <1>1 DEF TypeOK
<1>2. CASE policy' = policy
  BY <1>2
<1>3. CASE \E b \in Binds : create_policy(b) \/ submit(b) \/ activate(b)
  BY <1>1, <1>3 DEF create_policy, submit, activate
<1>4. CASE \E m \in late : pas_late(m)
  BY <1>1, <1>4 DEF pas_late
<1>5. CASE \E c \in Cancellable : pas_cancel(c)
  BY <1>1, <1>5 DEF pas_cancel
<1> QED
  BY <1>2, <1>3, <1>4, <1>5
     DEF Next, create_submission, assess_start, guarded, AssessStep,
         assess_ruleset, read_current, flush, assess_commit, quote_start,
         QuoteStep, quote_decision, quote_rate_table, quote_commit, bind_start,
         BindStep, bind_decision, bind_quote, resolve_existing,
         publish_best_effort, insert_binding, bind_commit, pas_timeout, abort,
         create_ruleset, create_rate_table, midnight, vars, pas

\* A step that leaves the tables alone covers one file or none.
LEMMA FileCover ==
    ASSUME Undisturbed, FileInv, FileInv', [Next]_vars, UNCHANGED tables
    PROVE  File!Next \/ UNCHANGED File!milestones
<1>1. UNCHANGED <<submission, decision, quote, binding>>
  BY DEF tables
<1>2. PICK n : \A m \in PolicyNumbers : m # n => policy'[m] = policy[m]
  BY OneAtATime DEF FileInv, IInv, CoreInv
<1>3. \A q \in quote : /\ policy_number_for[q.id] \in PolicyNumbers
                       /\ active(policy_number_for[q.id]) => active(policy_number_for[q.id])'
  <2> SUFFICES ASSUME NEW q \in quote
               PROVE  /\ policy_number_for[q.id] \in PolicyNumbers
                      /\ active(policy_number_for[q.id])
                            => active(policy_number_for[q.id])'
    OBVIOUS
  <2>1. policy_number_for[q.id] \in PolicyNumbers
    BY DataAssumption DEF FileInv, IInv, CoreInv, TypeOK, QuoteRows
  <2>2. Forward(policy[policy_number_for[q.id]], policy'[policy_number_for[q.id]])
    BY <2>1, PolicyForward DEF FileInv, IInv, CoreInv
  <2> QED
    BY <2>1, <2>2 DEF Forward, active
<1>4. CASE \A q \in quote : active(policy_number_for[q.id])' => active(policy_number_for[q.id])
  <2>1. Covered' = Covered
    BY <1>1, <1>3, <1>4 DEF Covered, active
  <2> QED
    BY <1>1, <2>1 DEF File!milestones, Covered
<1>5. CASE \E q \in quote : active(policy_number_for[q.id])' /\ ~ active(policy_number_for[q.id])
  <2>1. PICK q \in quote : active(policy_number_for[q.id])' /\ ~ active(policy_number_for[q.id])
    BY <1>5
  <2>2. policy_number_for[q.id] = n
    BY <1>2, <1>3, <2>1 DEF active
  <2> DEFINE s == q.submission_id
  <2>3. s \in Creates /\ s \in Priced
    BY DEF FileInv, IInv, CoreInv, TypeOK, QuoteRows, Priced
  <2>4. s \in Accepted
    <3>1. Backed(n)'
      BY <1>3, <2>1, <2>2 DEF FileInv, IInv, CoreInv, BackedInv, exists, active
    <3>2. PICK p \in quote : policy_number_for[p.id] = n /\ was_accepted(p.submission_id)
      BY <1>1, <3>1 DEF Backed, was_accepted, decisions_of
    <3>3. p.submission_id = s
      BY <2>2, <3>2, SameQuote
    <3> QED
      BY <3>2, <3>3 DEF was_accepted, decisions_of, Accepted
  <2>5. \A p \in quote : policy_number_for[p.id] = n => p.submission_id = s
    BY <2>2, SameQuote
  <2>6. \A p \in quote : policy_number_for[p.id] # n =>
           (active(policy_number_for[p.id])' <=> active(policy_number_for[p.id]))
    BY <1>2, <1>3 DEF active
  <2>7. Covered' = Covered \union {s}
    <3>1. Covered \subseteq Covered'
      BY <1>1, <1>3 DEF Covered, active
    <3>2. s \in Covered'
      BY <1>1, <2>1 DEF Covered, active
    <3>3. Covered' \subseteq Covered \union {s}
      BY <1>1, <2>5, <2>6 DEF Covered, active
    <3> QED
      BY <3>1, <3>2, <3>3
  <2> HIDE DEF s
  <2>8. File!Cover(s)
    BY <1>1, <2>3, <2>4, <2>7 DEF File!Cover, Covered, Accepted, Priced
  <2> QED
    BY <2>3, <2>8 DEF File!Next
<1> QED
  BY <1>4, <1>5

\* With any number of requests, faults and late calls: each step of the workbench
\* gains a file one milestone, in the contract's order, or none.
THEOREM WorkbenchImplementsFile ==
    ASSUME Undisturbed PROVE Spec => ImplementsFile
<1>1. Init => FileInv
  BY Initially DEF Init, FileInv, QuotesPlaced
<1>2. Init => File!Init
  BY DEF Init, File!Init
<1>3. FileInv /\ FileInv' /\ [Next]_vars => [File!Next]_(File!milestones)
  BY TrailFrame, FileReceive, FileJudge, FilePrice, FileBind, FileCover
<1> QED
  BY <1>1, <1>2, <1>3, FileInductive, PTL DEF Spec, ImplementsFile, File!Spec
=============================================================================
