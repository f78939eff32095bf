---------------------------- MODULE WorkbenchInv ----------------------------
(***************************************************************************)
(* The inductive invariant of Workbench: what a handler may still rely on,   *)
(* step by step, although every fact it read may have aged since.            *)
(***************************************************************************)
EXTENDS Workbench

Undeclined(s) == \E d \in decision : d.submission_id = s /\ d.outcome # "decline"

\* A quote of an accepted submission stands behind the policy_number.
Backed(n) ==
    \E q \in quote : policy_number_for[q.id] = n /\ was_accepted(q.submission_id)

\* Steps of bind at and after which a fact is settled.
HasDecision(step) == step \in BindSteps \ {"latest_decision"}
HasQuote(step) == HasDecision(step) /\ step # "latest_quote"
HasPolicy(step) == HasQuote(step) /\ step # "create_policy"
HasSubmitted(step) == step \in {"activate", "publish", "insert", "commit"}
HasActivated(step) == step \in {"publish", "insert", "commit"}

\* Nothing of the binding's own has happened yet.
Untouched(step) ==
    step \in {"idle", "404", "422", "latest_decision", "latest_quote"}

-----------------------------------------------------------------------------
\* An assessment under way has its submission, and a published ruleset.
AssessInv ==
    \A a \in Assesses :
        /\ pc[a] \in {"idle"} \union Answers \union AssessSteps
        /\ pc[a] \in {"flush", "commit"} => version[a] \in appetite_ruleset

\* A quote under way is for a risk that was not declined.
QuoteInv ==
    \A q \in Quotes :
        /\ pc[q] \in {"idle"} \union Answers \union QuoteSteps
        /\ pc[q] \in {"rate_table", "flush", "commit"} => Undeclined(target[q])
        /\ pc[q] \in {"flush", "commit"} => version[q] \in rate_table

\* A bind under way has the acceptance and the quote it read.
BindInv ==
    \A b \in Binds :
        /\ pc[b] \in {"idle"} \union Answers \union BindSteps
        /\ HasDecision(pc[b]) => was_accepted(target[b])
        /\ HasQuote(pc[b]) =>
              \E q \in quote : q.id = picked[b] /\ q.submission_id = target[b]
        /\ Untouched(pc[b]) => picked[b] = NoQuote /\ delivered[b] = 0
        /\ pc[b] = "200" => is_bound(target[b])

\* The policy of a bind under way is as far along as the bind, or cancelled.
PolicyInv ==
    \A b \in Binds :
        /\ HasPolicy(pc[b]) => policy[number(b)].status # "none"
        /\ HasSubmitted(pc[b]) =>
              policy[number(b)].status \in {"submitted", "active", "terminated"}
        /\ HasActivated(pc[b]) =>
              policy[number(b)].status \in {"active", "terminated"}

CancelInv ==
    \A n \in PolicyNumbers : policy[n].status = "terminated" => n \in Cancellable

\* Every policy and every call on its way is backed.
BackedInv ==
    /\ \A n \in PolicyNumbers : exists(policy[n]) => Backed(n)
    /\ \A m \in late : Backed(m.policy_number)

\* Only one of several rival binds gets past its INSERT.
RivalInv ==
    /\ \A b \in Binds : pc[b] = "commit" => ~taken(b)
    /\ \A b, c \in Binds :
          pc[b] = "commit" /\ pc[c] = "commit" /\ rivals(b, c) => b = c

\* A row was priced for, or bound by, what its file says.
QuotedInv == \A q \in quote : Undeclined(q.submission_id)

FlagInv ==
    /\ \A b \in Binds :
          pc[b] \in {"insert", "commit"} /\ published[b] => delivered[b] > 0
    /\ \A row \in binding : pc[row.id] \in {"200", "500"}

\* The inductive invariant: a handler's stale reads still entitle it to its next
\* step (the risk was accepted, the quote is its own, the PAS is as far along),
\* and only one of several rival binds is ever between INSERT and COMMIT.  The
\* core of it is inductive by itself: it holds also where the PAS has policies
\* that are not of the workbench's making.
CoreInv ==
    /\ TypeOK
    /\ AssessInv /\ QuoteInv /\ BindInv
    /\ PolicyInv /\ CancelInv
    /\ RivalInv /\ QuotedInv /\ FlagInv
    /\ DecisionReplayable /\ BindingBacked /\ UniqueBinding
    /\ PublishedFlagTruthful

IInv == CoreInv /\ BackedInv
=============================================================================
