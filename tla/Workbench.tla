----------------------------- MODULE Workbench ------------------------------
(***************************************************************************)
(* The underwriting workbench: intake, assess, quote and bind requests run  *)
(* concurrently against one database and the external policy service.      *)
(*                                                                         *)
(* A request is one HTTP call, handled once; a client that retries sends   *)
(* another request.  Postgres runs at READ COMMITTED, so every SELECT of a  *)
(* handler is a step of its own that sees what is committed at that moment, *)
(* and its INSERTs become visible together at COMMIT.  A row's primary key  *)
(* (a fresh uuid in the code) is the request that inserted it.             *)
(*                                                                         *)
(* Bounds: the request sets, MaxDay (midnights), the version sets.          *)
(***************************************************************************)
EXTENDS Appetite, PolicyService, FiniteSets

CONSTANTS
    Creates, Assesses, Quotes, Binds,  \* the requests, by endpoint
    target,             \* the submission id in the path of a request
    Bodies,             \* what a create request may carry
    RulesetVersions, Rulesets,         \* appetite rulesets by version
    RateTableVersions,  \* rate tables (their pricing is not modelled here)
    PolicyNumbers, policy_number_for,  \* SHA-1 slice of the quote id
    PageSize,           \* policies on one page of GET /v1/policies
    MaxAttempts,        \* _PUBLISH_MAX_ATTEMPTS
    MaxDay,             \* bound on midnights
    Faults,             \* may calls, sessions and processes fail?
    Cancellable         \* policies whose draft a PAS user may cancel

Addressed == Assesses \union Quotes \union Binds
Requests == Creates \union Addressed

ASSUME RequestAssumption ==
    /\ Quotes \subseteq Nat \ {0}
    /\ Creates \intersect Addressed = {}
    /\ Assesses \intersect (Quotes \union Binds) = {}
    /\ Quotes \intersect Binds = {}
    /\ target \in [Addressed -> Creates]

ASSUME DataAssumption ==
    /\ RulesetVersions \subseteq Nat \ {0} /\ 1 \in RulesetVersions
    /\ Rulesets \in [RulesetVersions -> RulesetSpec]
    /\ RateTableVersions \subseteq Nat \ {0} /\ {1, 2} \subseteq RateTableVersions
    /\ policy_number_for \in [Quotes -> PolicyNumbers]
    /\ PageSize \in Nat /\ MaxAttempts \in Nat \ {0} /\ MaxDay \in Nat
    /\ Faults \in BOOLEAN /\ Cancellable \subseteq PolicyNumbers

VARIABLES
    submission, decision, quote, binding, audit_entry,  \* tables, as committed
    appetite_ruleset, rate_table,    \* the versions present
    policy,                          \* the PAS row of each policy_number
    late,                            \* timed-out PAS calls still on their way
    delivered,                       \* copies of a bind's event NATS received
    today, clock,                    \* the UTC day; the timestamp source
    pc,                              \* a request's next step, or its answer
    version,                         \* ruleset or rate table read
    picked, cover, published,        \* bind: quote, effective day, publish ok
    stamp                            \* timestamp of the row being inserted

tables == <<submission, decision, quote, binding, audit_entry>>
versions == <<appetite_ruleset, rate_table>>
pas == <<policy, late>>
locals == <<version, picked, cover, published, stamp>>
time == <<today, clock>>
vars == <<tables, versions, pas, delivered, time, pc, locals>>

-----------------------------------------------------------------------------
Answers == {"200", "201", "401", "403", "404", "409", "422", "500", "503"}

AssessSteps == {"ruleset", "flush", "commit"}
QuoteSteps == {"latest_decision", "rate_table", "flush", "commit"}
BindSteps == {"latest_decision", "latest_quote", "create_policy", "resolve",
              "submit", "activate", "publish", "insert", "commit"}

Steps == {"idle"} \union Answers \union AssessSteps \union QuoteSteps \union BindSteps

NoQuote == 0

Submissions == [id : Creates, facts : SubmissionFacts]

Decisions ==
    [id : Assesses, submission_id : Creates, outcome : Outcome,
     reason_codes : Seq(ReasonCode), appetite_version : RulesetVersions,
     decided_at : Nat]

QuoteRows ==
    [id : Quotes, submission_id : Creates,
     rate_table_version : RateTableVersions, created_at : Nat]

Bindings ==
    [id : Binds, submission_id : Creates, quote_id : Quotes,
     policy_number : PolicyNumbers, event_published : BOOLEAN, bound_at : Nat]

\* ruleset_version 0 stands for the column left NULL.
AuditEntries ==
    [id : Requests, submission_id : Creates,
     action : {"submission.created", "submission.assessed", "quote", "bind"},
     ruleset_version : Nat]

LateCalls ==
    [call : {"create_policy", "submit", "activate"}, policy_number : PolicyNumbers,
     day : Nat]

-----------------------------------------------------------------------------
\* What the SELECTs of the repositories return.

known(s) == \E row \in submission : row.id = s

is_bound(s) == \E row \in binding : row.submission_id = s

decisions_of(s) == {d \in decision : d.submission_id = s}

\* ORDER BY decided_at DESC LIMIT 1: with equal timestamps, any of them.
latest_decision(d, s) ==
    /\ d \in decisions_of(s)
    /\ \A e \in decisions_of(s) : e.decided_at <= d.decided_at

quotes_of(s) == {q \in quote : q.submission_id = s}

\* ORDER BY created_at DESC, id DESC LIMIT 1.
latest_quote(q, s) ==
    /\ q \in quotes_of(s)
    /\ \A p \in quotes_of(s) :
          \/ p.created_at < q.created_at
          \/ p.created_at = q.created_at /\ p.id <= q.id

\* ORDER BY version DESC LIMIT 1.
current(v, present) == v \in present /\ \A w \in present : w <= v

-----------------------------------------------------------------------------
goto(r, step) == pc' = [pc EXCEPT ![r] = step]

\* Column default _now(): evaluated at flush, and no two reads of the clock
\* need differ.
now(r) ==
    \E t \in {clock, clock + 1} :
        clock' = t /\ stamp' = [stamp EXCEPT ![r] = t]

audited(r, s, action, v) ==
    audit_entry' = audit_entry \union
        {[id |-> r, submission_id |-> s, action |-> action,
          ruleset_version |-> v]}

\* After COMMIT the row is durable; the refresh that follows, or the process,
\* may still fail.
committed(r, ok) == \E a \in {ok} \union (IF Faults THEN {"500"} ELSE {}) : goto(r, a)

-----------------------------------------------------------------------------
\* POST /submissions: reject an invalid body, else insert the counterparty,
\* the submission and its audit entry in one transaction.
create_submission(c) ==
    /\ pc[c] = "idle"
    /\ \E f \in Bodies :
          IF f \in SubmissionFacts
            THEN /\ submission' = submission \union
                       {[id |-> c, facts |-> stored(f)]}
                 /\ audited(c, c, "submission.created", 0)
                 /\ committed(c, "201")
            ELSE /\ goto(c, "422")
                 /\ UNCHANGED <<submission, audit_entry>>
    /\ UNCHANGED <<decision, quote, binding, versions, pas, delivered, time,
                   locals>>

-----------------------------------------------------------------------------
\* Slip: the existing binding is not looked up.
SlipUnguarded(r, next) ==
    /\ pc[r] = "idle"
    /\ goto(r, IF known(target[r]) THEN next ELSE "404")
    /\ UNCHANGED <<tables, versions, pas, delivered, time, locals>>

\* POST /submissions/{id}/assess and /quote begin alike: a bound submission
\* is refused, then the submission must exist.
guarded(r, next) ==
    /\ pc[r] = "idle"
    /\ goto(r, IF is_bound(target[r]) THEN "409"
               ELSE IF known(target[r]) THEN next ELSE "404")
    /\ UNCHANGED <<tables, versions, pas, delivered, time, locals>>

assess_start(a) == guarded(a, "ruleset")

\* current() of a version table, kept for the rest of the request.
read_current(r, step, present, next) ==
    /\ pc[r] = step
    /\ IF present = {}
         THEN goto(r, "503") /\ UNCHANGED version
         ELSE \E v \in present :
                 /\ current(v, present)
                 /\ version' = [version EXCEPT ![r] = v]
                 /\ goto(r, next)
    /\ UNCHANGED <<tables, versions, pas, delivered, time, picked, cover,
                   published, stamp>>

assess_ruleset(a) == read_current(a, "ruleset", appetite_ruleset, "flush")

\* INSERT with its timestamp; other transactions do not see the row yet.
flush(r) ==
    /\ pc[r] = "flush"
    /\ now(r)
    /\ goto(r, "commit")
    /\ UNCHANGED <<tables, versions, pas, delivered, today, version, picked,
                   cover, published>>

\* The decision that the ruleset of one version yields, recorded under another,
\* with the audit entry under a third.
SlipAssess(a, used, recorded, logged) ==
    /\ pc[a] = "commit"
    /\ \E row \in submission :
          /\ row.id = target[a]
          /\ LET verdict == assess(row.facts, Rulesets[used])
             IN  decision' = decision \union
                    {[id |-> a, submission_id |-> target[a],
                      outcome |-> verdict.outcome,
                      reason_codes |-> verdict.reason_codes,
                      appetite_version |-> recorded, decided_at |-> stamp[a]]}
    /\ audited(a, target[a], "submission.assessed", logged)
    /\ committed(a, "200")
    /\ UNCHANGED <<submission, quote, binding, versions, pas, delivered, time,
                   locals>>

\* Slip: current() is read again to record the version.
SlipRecordReread(a) ==
    \E v \in appetite_ruleset :
        current(v, appetite_ruleset) /\ SlipAssess(a, version[a], v, v)

\* Slip: current() is read again for the audit entry.
SlipAuditReread(a) ==
    \E v \in appetite_ruleset :
        current(v, appetite_ruleset) /\ SlipAssess(a, version[a], version[a], v)

assess_commit(a) ==
    /\ pc[a] = "commit"
    /\ \E row \in submission :
          /\ row.id = target[a]
          /\ LET verdict == assess(row.facts, Rulesets[version[a]])
             IN  decision' = decision \union
                    {[id |-> a, submission_id |-> target[a],
                      outcome |-> verdict.outcome,
                      reason_codes |-> verdict.reason_codes,
                      appetite_version |-> version[a],
                      decided_at |-> stamp[a]]}
    /\ audited(a, target[a], "submission.assessed", version[a])
    /\ committed(a, "200")
    /\ UNCHANGED <<submission, quote, binding, versions, pas, delivered, time,
                   locals>>

-----------------------------------------------------------------------------
quote_start(q) == guarded(q, "latest_decision")

\* Slip: any decision will do.
SlipQuoteDeclined(q) ==
    /\ pc[q] = "latest_decision"
    /\ goto(q, IF decisions_of(target[q]) = {} THEN "404" ELSE "rate_table")
    /\ UNCHANGED <<tables, versions, pas, delivered, time, locals>>

\* An unassessed risk is not found; a declined one is refused.  A referred
\* risk may be quoted.
quote_decision(q) ==
    /\ pc[q] = "latest_decision"
    /\ IF decisions_of(target[q]) = {}
         THEN goto(q, "404")
         ELSE \E d \in decision :
                 /\ latest_decision(d, target[q])
                 /\ goto(q, IF d.outcome = "decline" THEN "409" ELSE "rate_table")
    /\ UNCHANGED <<tables, versions, pas, delivered, time, locals>>

quote_rate_table(q) == read_current(q, "rate_table", rate_table, "flush")

quote_commit(q) ==
    /\ pc[q] = "commit"
    /\ quote' = quote \union
          {[id |-> q, submission_id |-> target[q],
            rate_table_version |-> version[q], created_at |-> stamp[q]]}
    /\ audited(q, target[q], "quote", version[q])
    /\ committed(q, "200")
    /\ UNCHANGED <<submission, decision, binding, versions, pas, delivered,
                   time, locals>>

-----------------------------------------------------------------------------
\* POST /submissions/{id}/bind: an existing binding is returned as it is.
bind_start(b) ==
    /\ pc[b] = "idle"
    /\ goto(b, IF ~known(target[b]) THEN "404"
               ELSE IF is_bound(target[b]) THEN "200" ELSE "latest_decision")
    /\ UNCHANGED <<tables, versions, pas, delivered, time, locals>>

\* Slip: bind takes the guard of quote, which lets a referral through.
SlipBindReferral(b) ==
    /\ pc[b] = "latest_decision"
    /\ IF decisions_of(target[b]) = {}
         THEN goto(b, "422")
         ELSE \E d \in decision :
                 /\ latest_decision(d, target[b])
                 /\ goto(b, IF d.outcome = "decline" THEN "422" ELSE "latest_quote")
    /\ UNCHANGED <<tables, versions, pas, delivered, time, locals>>

\* Only an accepted risk binds.
bind_decision(b) ==
    /\ pc[b] = "latest_decision"
    /\ IF decisions_of(target[b]) = {}
         THEN goto(b, "422")
         ELSE \E d \in decision :
                 /\ latest_decision(d, target[b])
                 /\ goto(b, IF d.outcome = "accept" THEN "latest_quote" ELSE "422")
    /\ UNCHANGED <<tables, versions, pas, delivered, time, locals>>

\* The latest quote fixes the policy_number; cover starts today.
bind_quote(b) ==
    /\ pc[b] = "latest_quote"
    /\ IF quotes_of(target[b]) = {}
         THEN goto(b, "422") /\ UNCHANGED <<picked, cover>>
         ELSE \E q \in quote :
                 /\ latest_quote(q, target[b])
                 /\ picked' = [picked EXCEPT ![b] = q.id]
                 /\ cover' = [cover EXCEPT ![b] = today]
                 /\ goto(b, "create_policy")
    /\ UNCHANGED <<tables, versions, pas, delivered, time, version, published,
                   stamp>>

number(b) == policy_number_for[picked[b]]

\* 201: go on with the new draft.  409: look the existing policy up.
create_policy(b) ==
    /\ pc[b] = "create_policy"
    /\ policy' = [policy EXCEPT ![number(b)] = created(@, cover[b])]
    /\ goto(b, IF exists(policy[number(b)]) THEN "resolve" ELSE "submit")
    /\ UNCHANGED <<tables, versions, late, delivered, time, locals>>

\* Slip: a policy that exists is taken to be active.
SlipExistingIsActive(b) ==
    /\ pc[b] = "resolve"
    /\ goto(b, "publish")
    /\ UNCHANGED <<tables, versions, pas, delivered, time, locals>>

\* GET /v1/policies answers one page; the contract has no policy_number
\* filter, so with more policies than a page holds the wanted one may be
\* missing.  An error status also counts as "not found".
resolve_existing(b) ==
    /\ pc[b] = "resolve"
    /\ \/ goto(b, "submit")
       \/ /\ \/ Cardinality({n \in PolicyNumbers : exists(policy[n])}) > PageSize
             \/ Faults
          /\ goto(b, "409")
    /\ UNCHANGED <<tables, versions, pas, delivered, time, locals>>

\* Slip: activate is forgotten.
SlipNeverActivated(b) ==
    /\ pc[b] = "submit"
    /\ policy' = [policy EXCEPT ![number(b)] = submitted(@)]
    /\ goto(b, "publish")
    /\ UNCHANGED <<tables, versions, late, delivered, time, locals>>

\* A 409 from either transition is taken as success.
submit(b) ==
    /\ pc[b] = "submit"
    /\ policy' = [policy EXCEPT ![number(b)] = submitted(@)]
    /\ goto(b, "activate")
    /\ UNCHANGED <<tables, versions, late, delivered, time, locals>>

\* Slip: the answer leaves as soon as the policy is active.
SlipAnswerEarly(b) ==
    /\ pc[b] = "activate"
    /\ policy' = [policy EXCEPT ![number(b)] = activated(@)]
    /\ goto(b, "200")
    /\ UNCHANGED <<tables, versions, late, delivered, time, locals>>

activate(b) ==
    /\ pc[b] = "activate"
    /\ policy' = [policy EXCEPT ![number(b)] = activated(@)]
    /\ goto(b, "publish")
    /\ UNCHANGED <<tables, versions, late, delivered, time, locals>>

\* Slip: one attempt too many.
SlipExtraAttempt(b) ==
    /\ pc[b] = "publish"
    /\ \E copies \in 0 .. MaxAttempts + 1 :
          /\ published' = [published EXCEPT ![b] = copies > 0]
          /\ delivered' = [delivered EXCEPT ![b] = copies]
    /\ goto(b, "insert")
    /\ UNCHANGED <<tables, versions, pas, time, version, picked, cover, stamp>>

\* Slip: the publisher swallows the last failure.
SlipSwallowed(b) ==
    /\ pc[b] = "publish"
    /\ \E copies \in 0 .. MaxAttempts :
          delivered' = [delivered EXCEPT ![b] = copies]
    /\ published' = [published EXCEPT ![b] = TRUE]
    /\ goto(b, "insert")
    /\ UNCHANGED <<tables, versions, pas, time, version, picked, cover, stamp>>

\* At most MaxAttempts attempts.  An attempt may deliver and still raise (in
\* flush or drain), so a publish that reports failure may have delivered.
publish_best_effort(b) ==
    /\ pc[b] = "publish"
    /\ \E ok \in BOOLEAN, copies \in 0 .. MaxAttempts :
          /\ ok => copies > 0
          /\ published' = [published EXCEPT ![b] = ok]
          /\ delivered' = [delivered EXCEPT ![b] = copies]
    /\ goto(b, "insert")
    /\ UNCHANGED <<tables, versions, pas, time, version, picked, cover, stamp>>

\* Two binds that insert the same value of a unique column.
rivals(b, c) == target[b] = target[c] \/ number(b) = number(c)

\* Slip: policy_number is not a unique column.
SlipNumberNotUnique(b) ==
    \E row \in binding : row.submission_id = target[b]

taken(b) ==
    \E row \in binding :
        row.submission_id = target[b] \/ row.policy_number = number(b)

\* Slip: a committed duplicate is waited for like an uncommitted one.
SlipWaitForever(b) ==
    /\ pc[b] = "insert"
    /\ ~ \E c \in Binds \ {b} : pc[c] = "commit" /\ rivals(b, c)
    /\ ~ taken(b)
    /\ now(b)
    /\ goto(b, "commit")
    /\ UNCHANGED <<tables, versions, pas, delivered, today, version, picked,
                   cover, published>>

\* Slip: an uncommitted rival is not waited for.
SlipNoWait(b) ==
    /\ pc[b] = "insert"
    /\ IF taken(b)
         THEN goto(b, "500") /\ UNCHANGED <<clock, stamp>>
         ELSE now(b) /\ goto(b, "commit")
    /\ UNCHANGED <<tables, versions, pas, delivered, today, version, picked,
                   cover, published>>

\* INSERT INTO binding waits for a rival transaction that has inserted and not
\* ended, and fails on a committed duplicate.
insert_binding(b) ==
    /\ pc[b] = "insert"
    /\ ~ \E c \in Binds \ {b} : pc[c] = "commit" /\ rivals(b, c)
    /\ IF taken(b)
         THEN goto(b, "500") /\ UNCHANGED <<clock, stamp>>
         ELSE now(b) /\ goto(b, "commit")
    /\ UNCHANGED <<tables, versions, pas, delivered, today, version, picked,
                   cover, published>>

bind_commit(b) ==
    /\ pc[b] = "commit"
    /\ binding' = binding \union
          {[id |-> b, submission_id |-> target[b], quote_id |-> picked[b],
            policy_number |-> number(b), event_published |-> published[b],
            bound_at |-> stamp[b]]}
    /\ audited(b, target[b], "bind", 0)
    /\ committed(b, "200")
    /\ UNCHANGED <<submission, decision, quote, versions, pas, delivered,
                   time, locals>>

-----------------------------------------------------------------------------
\* The environment.

\* An exception nobody catches, a lost connection or the end of the process:
\* the transaction rolls back, the caller sees a failure.
abort(r) ==
    /\ Faults
    /\ pc[r] \notin {"idle"} \union Answers
    /\ goto(r, "500")
    /\ UNCHANGED <<tables, versions, pas, delivered, time, locals>>

\* httpx gives up on a PAS call; the PAS may apply it at any later time.
pas_timeout(b) ==
    /\ Faults
    /\ pc[b] \in {"create_policy", "submit", "activate"}
    /\ late' = late \union
          {[call |-> pc[b], policy_number |-> number(b), day |-> cover[b]]}
    /\ goto(b, "500")
    /\ UNCHANGED <<tables, versions, policy, delivered, time, locals>>

pas_late(m) ==
    /\ m \in late
    /\ late' = late \ {m}
    /\ policy' = [policy EXCEPT ![m.policy_number] =
                     IF m.call = "create_policy" THEN created(@, m.day)
                     ELSE IF m.call = "submit" THEN submitted(@)
                     ELSE activated(@)]
    /\ UNCHANGED <<tables, versions, delivered, time, pc, locals>>

\* A PAS user cancels a draft.
pas_cancel(n) ==
    /\ n \in Cancellable /\ policy[n].status = "draft"
    /\ policy' = [policy EXCEPT ![n] = cancelled(@)]
    /\ UNCHANGED <<tables, versions, late, delivered, time, pc, locals>>

\* create_version on either table: a new immutable version, unique by number.
create_ruleset(v) ==
    /\ v \in RulesetVersions \ appetite_ruleset
    /\ appetite_ruleset' = appetite_ruleset \union {v}
    /\ UNCHANGED <<tables, rate_table, pas, delivered, time, pc, locals>>

create_rate_table(v) ==
    /\ v \in RateTableVersions \ rate_table
    /\ rate_table' = rate_table \union {v}
    /\ UNCHANGED <<tables, appetite_ruleset, pas, delivered, time, pc, locals>>

midnight ==
    /\ today < MaxDay
    /\ today' = today + 1
    /\ UNCHANGED <<tables, versions, pas, delivered, clock, pc, locals>>

-----------------------------------------------------------------------------
\* The lifespan hook has migrated and seeded before the first request.
Init ==
    /\ submission = {} /\ decision = {} /\ quote = {} /\ binding = {}
    /\ audit_entry = {}
    /\ appetite_ruleset = {1} /\ rate_table = {1, 2}
    /\ policy = [n \in PolicyNumbers |-> NoPolicy] /\ late = {}
    /\ delivered = [b \in Binds |-> 0]
    /\ today = 0 /\ clock = 0
    /\ pc = [r \in Requests |-> "idle"]
    /\ version = [r \in Assesses \union Quotes |-> 0]
    /\ picked = [b \in Binds |-> NoQuote]
    /\ cover = [b \in Binds |-> 0]
    /\ published = [b \in Binds |-> FALSE]
    /\ stamp = [r \in Addressed |-> 0]

AssessStep(a) == assess_ruleset(a) \/ flush(a) \/ assess_commit(a)

QuoteStep(q) ==
    quote_decision(q) \/ quote_rate_table(q) \/ flush(q) \/ quote_commit(q)

BindStep(b) ==
    \/ bind_decision(b) \/ bind_quote(b)
    \/ create_policy(b) \/ resolve_existing(b) \/ submit(b) \/ activate(b)
    \/ publish_best_effort(b) \/ insert_binding(b) \/ bind_commit(b)

Next ==
    \/ \E c \in Creates : create_submission(c)
    \/ \E a \in Assesses : assess_start(a) \/ AssessStep(a)
    \/ \E q \in Quotes : quote_start(q) \/ QuoteStep(q)
    \/ \E b \in Binds : bind_start(b) \/ BindStep(b) \/ pas_timeout(b)
    \/ \E r \in Addressed : abort(r)
    \/ \E m \in late : pas_late(m)
    \/ \E n \in Cancellable : pas_cancel(n)
    \/ \E v \in RulesetVersions : create_ruleset(v)
    \/ \E v \in RateTableVersions : create_rate_table(v)
    \/ midnight

Spec == Init /\ [][Next]_vars

\* A handler that has begun goes on: httpx and NATS calls have timeouts, and
\* a unique-index wait ends with the transaction it waits for.  Nothing makes
\* a client send a request, the PAS apply a lost call or a day pass.
FairSpec ==
    /\ Spec
    /\ \A a \in Assesses : WF_vars(AssessStep(a))
    /\ \A q \in Quotes : WF_vars(QuoteStep(q))
    /\ \A b \in Binds : WF_vars(BindStep(b))

-----------------------------------------------------------------------------
\* The types of the state: every row, version, PAS policy and in-flight value is
\* what its column or field holds.
TypeOK ==
    /\ submission \subseteq Submissions
    /\ decision \subseteq Decisions
    /\ quote \subseteq QuoteRows
    /\ binding \subseteq Bindings
    /\ audit_entry \subseteq AuditEntries
    /\ appetite_ruleset \subseteq RulesetVersions
    /\ rate_table \subseteq RateTableVersions
    /\ policy \in [PolicyNumbers -> Policy]
    /\ late \subseteq LateCalls
    /\ delivered \in [Binds -> 0 .. MaxAttempts]
    /\ today \in 0 .. MaxDay /\ clock \in Nat
    /\ pc \in [Requests -> Steps]
    /\ version \in [Assesses \union Quotes -> Nat]
    /\ picked \in [Binds -> Quotes \union {NoQuote}]
    /\ cover \in [Binds -> 0 .. MaxDay]
    /\ published \in [Binds -> BOOLEAN]
    /\ stamp \in [Addressed -> 0 .. clock]

was_accepted(s) == \E d \in decisions_of(s) : d.outcome = "accept"

\* Every decision can be replayed: its ruleset version exists and gives, on the
\* stored facts of its submission, exactly the recorded outcome and reasons,
\* however many versions were published while it was being made.
DecisionReplayable ==
    \A d \in decision :
        /\ d.appetite_version \in appetite_ruleset
        /\ \E row \in submission :
              /\ row.id = d.submission_id
              /\ assess(row.facts, Rulesets[d.appetite_version])
                    = [outcome |-> d.outcome, reason_codes |-> d.reason_codes]

\* A price is only ever offered for a risk that some published ruleset did not
\* decline (quote_submission's guard read the decision some steps earlier).
DeclinedNeverQuoted ==
    \A q \in quote :
        \E row \in submission, v \in appetite_ruleset :
            /\ row.id = q.submission_id
            /\ assess(row.facts, Rulesets[v]).outcome # "decline"

\* The PAS never holds a policy, nor has one on its way, for a risk that no
\* published ruleset accepts: each policy_number belongs to a quote of a
\* submission that was accepted, whatever failed, timed out or was retried.
PolicyNeedsAppetite ==
    \A n \in {m \in PolicyNumbers : exists(policy[m])}
             \union {m.policy_number : m \in late} :
        \E q \in quote, row \in submission, v \in appetite_ruleset :
            /\ policy_number_for[q.id] = n
            /\ row.id = q.submission_id
            /\ assess(row.facts, Rulesets[v]).outcome = "accept"

\* A recorded binding points at a quote of its own submission and the policy
\* number derived from it, the submission has been accepted, and the PAS policy
\* is active unless somebody may cancel drafts there.
BindingBacked ==
    \A row \in binding :
        /\ \E q \in quotes_of(row.submission_id) : q.id = row.quote_id
        /\ row.policy_number = policy_number_for[row.quote_id]
        /\ was_accepted(row.submission_id)
        /\ \/ policy[row.policy_number].status = "active"
           \/ row.policy_number \in Cancellable

\* Concurrent binds leave one binding per submission and per policy_number,
\* even if two quote ids hash to the same number.
UniqueBinding ==
    \A row, other \in binding :
        \/ row.submission_id = other.submission_id
        \/ row.policy_number = other.policy_number
        => row = other

\* event_published is never claimed for an event that NATS did not receive.
\* (The converse fails: an attempt may deliver and then raise.)
PublishedFlagTruthful ==
    \A row \in binding : row.event_published => delivered[row.id] > 0

\* A bind answered 200 left, or found, a binding of its submission; a bind that
\* failed its guards never touched the PAS or NATS.
BindAnswerTruthful ==
    \A b \in Binds :
        /\ pc[b] = "200" => is_bound(target[b])
        /\ pc[b] \in {"404", "422"} => picked[b] = NoQuote /\ delivered[b] = 0

\* The audit log is complete and says nothing more: it holds exactly one entry
\* per committed row, with the version the row was made under, even when a
\* handler dies between its inserts and its answer.
AuditTrailComplete ==
    audit_entry =
        {[id |-> row.id, submission_id |-> row.id,
          action |-> "submission.created", ruleset_version |-> 0] :
            row \in submission}
        \union
        {[id |-> row.id, submission_id |-> row.submission_id,
          action |-> "submission.assessed",
          ruleset_version |-> row.appetite_version] : row \in decision}
        \union
        {[id |-> row.id, submission_id |-> row.submission_id,
          action |-> "quote", ruleset_version |-> row.rate_table_version] :
            row \in quote}
        \union
        {[id |-> row.id, submission_id |-> row.submission_id,
          action |-> "bind", ruleset_version |-> 0] : row \in binding}

\* A binding is for good, and from then on an assess or quote request that has
\* not begun can never do anything but be refused.
FrozenForNewRequests ==
    [][\A r \in Assesses \union Quotes :
          is_bound(target[r]) /\ pc[r] \in {"idle", "409"}
             => is_bound(target[r])' /\ pc'[r] \in {"idle", "409"}]_vars

\* Every request that begins is answered: no handler waits forever, in
\* particular not for a rival's unique-index entry.  (A request is sent once, so
\* that is: from some time on, no request is under way.)
RequestsAnswered ==
    <>[](\A r \in Addressed : pc[r] \in {"idle"} \union Answers)

-----------------------------------------------------------------------------
\* Each file's milestones, read off the tables and the PAS.
File == INSTANCE UnderwritingFile WITH
    Files <- Creates,
    received <- {row.id : row \in submission},
    judged <- {d.submission_id : d \in decision},
    accepted <- {d.submission_id : d \in {e \in decision : e.outcome = "accept"}},
    priced <- {q.submission_id : q \in quote},
    covered <- {q.submission_id : q \in
                   {p \in quote : policy[policy_number_for[p.id]].status = "active"}},
    bound <- {row.submission_id : row \in binding}

\* The workbench implements the file contract when quote ids hash to distinct
\* numbers and nobody cancels drafts: however requests, faults and late PAS
\* calls interleave, no file is covered before it is accepted and priced, none
\* is bound before it is covered, and no milestone is lost.
ImplementsFile == File!Spec

-----------------------------------------------------------------------------
\* What the repository says of the program, and the code does not keep.

\* AlreadyBoundError: "once a risk is bound into the live policy service, its
\* assessment and pricing are frozen".
FrozenAfterBind ==
    \A row \in binding :
        /\ \A d \in decisions_of(row.submission_id) : d.decided_at <= row.bound_at
        /\ \A q \in quotes_of(row.submission_id) : q.created_at <= row.bound_at

\* "a retry targets the same PAS policy": a submission never has two active
\* policies.  (Its run sends one bind at a time, so that the second is a retry.)
OnePolicyPerSubmission ==
    \A p, q \in quote :
        /\ p.submission_id = q.submission_id
        /\ policy[policy_number_for[p.id]].status = "active"
        /\ policy[policy_number_for[q.id]].status = "active"
        => policy_number_for[p.id] = policy_number_for[q.id]

\* "no PAS calls and no duplicate event": a bound risk was announced by one
\* bind only.
NoDuplicateEvent ==
    \A row \in binding : \A b \in Binds \ {row.id} :
        target[b] = row.submission_id => delivered[b] = 0
=============================================================================
