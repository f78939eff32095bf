------------------------------- MODULE Inbox --------------------------------
(***************************************************************************)
(* GET /v1/submissions (list_submissions), and a client that pages through  *)
(* it while requests of every kind go on.  A listing takes two SELECTs: one  *)
(* page of submissions joined to their latest decisions, then the bindings   *)
(* of the submissions on that page.                                         *)
(*                                                                         *)
(* The workbench has been at work when the client comes: the requests of     *)
(* Past have been answered.  Bound: Moments, the timestamps of submissions.  *)
(***************************************************************************)
EXTENDS Workbench, SequencesExt

CONSTANTS
    Past,       \* intake, assess and quote requests answered before
    PageLimit,  \* the client's limit parameter
    Moments     \* values of created_at

ASSUME InboxAssumption ==
    /\ Past \subseteq Creates \union Assesses \union Quotes /\ IsFiniteSet(Past)
    /\ {target[r] : r \in Past \ Creates} \subseteq Past
    /\ PageLimit \in Nat \ {0} /\ Moments \subseteq Nat \ {0}

VARIABLES
    created_at,  \* of each committed submission
    scan,        \* the client's next step
    offset,      \* of the page it asks for
    rows,        \* what the first SELECT returned
    items,       \* the list items received so far
    earlier      \* what was committed when it began

client == <<scan, offset, rows, items, earlier>>
inbox_vars == <<vars, created_at, client>>

-----------------------------------------------------------------------------
\* SELECT submission_id, max(decided_at) AS m ... GROUP BY submission_id.
latest ==
    {[submission_id |-> d.submission_id, m |-> d.decided_at] :
        d \in {e \in decision : latest_decision(e, e.submission_id)}}

\* Slip: the join forgets whose decision it is.
SlipMatchTime(s) ==
    {d \in decision :
        \E l \in latest : l.submission_id = s /\ l.m = d.decided_at}

\* The decisions that the second outer join finds for a submission.
matching(s) ==
    {d \in decision :
        /\ d.submission_id = s
        /\ \E l \in latest : l.submission_id = s /\ l.m = d.decided_at}

Unassessed == "unassessed"

\* One row for each pair of a submission and a matching decision, or for a
\* submission alone.
joined ==
    {[submission |-> d.submission_id, decision |-> {d.id}, latest_outcome |-> d.outcome] :
        d \in UNION {matching(s.id) : s \in submission}}
    \union
    {[submission |-> s.id, decision |-> {}, latest_outcome |-> Unassessed] :
        s \in {t \in submission : matching(t.id) = {}}}

\* The rows that the outcome parameter selects; "any" when it is not given.
listed(outcome) == {row \in joined : outcome \in {"any", row.latest_outcome}}

\* Slip: no ORDER BY.
SlipUnordered(some) == SetToSeqs(some)

\* ORDER BY created_at DESC; rows with one created_at come in any order.
newest_first(some) ==
    {list \in SetToSeqs(some) :
        \A i, j \in DOMAIN list :
            i < j => created_at[list[i].submission] >= created_at[list[j].submission]}

\* LIMIT and OFFSET.
page(list) == {list[i] : i \in DOMAIN list \intersect offset + 1 .. offset + PageLimit}

-----------------------------------------------------------------------------
\* _now() is read at the flush, and commits need not come in its order.
intake(c) ==
    /\ create_submission(c)
    /\ submission' # submission
    /\ \E t \in Moments : created_at' = [created_at EXCEPT ![c] = t]
    /\ UNCHANGED client

\* The client asks for the first page.
open_inbox ==
    /\ scan = "closed"
    /\ scan' = "select_rows"
    /\ earlier' = [submissions |-> {row.id : row \in submission},
                   bound |-> {row.submission_id : row \in binding}]
    /\ UNCHANGED <<vars, created_at, offset, rows, items>>

select_rows ==
    /\ scan = "select_rows"
    /\ \E list \in newest_first(listed("any")) : rows' = page(list)
    /\ scan' = "select_bound"
    /\ UNCHANGED <<vars, created_at, offset, items, earlier>>

\* Slip: every item of a page is bound when one of them is.
SlipWholePage ==
    LET bound_ids == {row.submission_id : row \in binding}
                         \intersect {row.submission : row \in rows}
    IN  {[submission |-> row.submission, latest_outcome |-> row.latest_outcome,
          bound |-> bound_ids # {}] : row \in rows}

\* The list items made of the page.
listing ==
    LET bound_ids == {row.submission_id : row \in binding}
                         \intersect {row.submission : row \in rows}
    IN  {[submission |-> row.submission, latest_outcome |-> row.latest_outcome,
          bound |-> row.submission \in bound_ids] : row \in rows}

\* The answer; a full page makes the client ask for the next.
select_bound ==
    /\ scan = "select_bound"
    /\ items' = items \union listing
    /\ IF Cardinality(rows) = PageLimit
         THEN offset' = offset + PageLimit /\ scan' = "select_rows"
         ELSE scan' = "read" /\ UNCHANGED offset
    /\ rows' = {}
    /\ UNCHANGED <<vars, created_at, earlier>>

-----------------------------------------------------------------------------
\* What the requests of Past have left: the body each submission was made of,
PastFiles ==
    \E body \in [Past \intersect Creates -> Bodies \intersect SubmissionFacts] :
        /\ submission = {[id |-> c, facts |-> stored(body[c])] : c \in DOMAIN body}
        /\ decision =
              {LET verdict == assess(stored(body[target[a]]), Rulesets[1])
               IN  [id |-> a, submission_id |-> target[a],
                    outcome |-> verdict.outcome,
                    reason_codes |-> verdict.reason_codes,
                    appetite_version |-> 1, decided_at |-> 0] :
                  a \in Past \intersect Assesses}

\* what else they left, the binds being about to insert.
PastRequests ==
    /\ quote = {[id |-> q, submission_id |-> target[q], rate_table_version |-> 2,
                 created_at |-> 0] : q \in Past \intersect Quotes}
    /\ \A q \in quote : was_accepted(q.submission_id)
    /\ binding = {}
    /\ audit_entry =
          {[id |-> c, submission_id |-> c, action |-> "submission.created",
            ruleset_version |-> 0] : c \in Past \intersect Creates}
          \union
          {[id |-> a, submission_id |-> target[a], action |-> "submission.assessed",
            ruleset_version |-> 1] : a \in Past \intersect Assesses}
          \union
          {[id |-> q, submission_id |-> target[q], action |-> "quote",
            ruleset_version |-> 2] : q \in Past \intersect Quotes}
    /\ appetite_ruleset = {1} /\ rate_table = {1, 2}
    /\ picked \in [Binds -> Past \intersect Quotes]
    /\ \A b \in Binds : target[picked[b]] = target[b]
    /\ policy = [n \in PolicyNumbers |->
                   IF \E b \in Binds : number(b) = n
                     THEN [status |-> "active", effective_date |-> 0]
                     ELSE NoPolicy]
    /\ late = {}
    /\ delivered = [b \in Binds |-> 1]
    /\ today = 0 /\ clock = 0
    /\ pc = [r \in Requests |-> CASE r \in Binds -> "insert"
                                  [] r \in Past \intersect Creates -> "201"
                                  [] r \in Past \ Creates -> "200"
                                  [] OTHER -> "idle"]
    /\ version = [r \in Assesses \union Quotes |->
                     CASE r \in Past \intersect Quotes -> 2
                       [] r \in Past \intersect Assesses -> 1
                       [] OTHER -> 0]
    /\ cover = [b \in Binds |-> 0]
    /\ published = [b \in Binds |-> TRUE]
    /\ stamp = [r \in Addressed |-> 0]

InboxInit ==
    /\ PastFiles /\ PastRequests
    /\ created_at \in {f \in [Creates -> Moments \union {0}] :
                          \A c \in Creates : f[c] = 0 <=> c \notin Past}
    /\ scan = "closed" /\ offset = 0 /\ rows = {} /\ items = {}
    /\ earlier = [submissions |-> {}, bound |-> {}]

\* Steps of requests that may change a table; a request that fails changes none.
other_requests ==
    /\ \/ \E a \in Assesses : assess_start(a) \/ AssessStep(a)
       \/ \E q \in Quotes : quote_start(q) \/ QuoteStep(q)
       \/ \E b \in Binds : insert_binding(b) \/ bind_commit(b)
    /\ UNCHANGED <<created_at, client>>

InboxNext ==
    \/ \E c \in Creates : intake(c)
    \/ other_requests
    \/ open_inbox \/ select_rows \/ select_bound

InboxSpec == InboxInit /\ [][InboxNext]_inbox_vars

-----------------------------------------------------------------------------
\* The inbox and the guards agree on what a submission's latest decision is: it
\* is listed under an outcome exactly when a quote or a bind that looks now may
\* find that outcome, once unless decisions tie, and never left out.
ListingAgreesWithGuards ==
    \A s \in {row.id : row \in submission} :
        /\ \A o \in Outcome :
              (\E row \in listed(o) : row.submission = s)
                  <=> \E d \in decision : latest_decision(d, s) /\ d.outcome = o
        /\ LET own == {row \in listed("any") : row.submission = s}
           IN  /\ own # {}
               /\ Cardinality(own) > 1 =>
                     \E d, e \in decisions_of(s) : d # e /\ d.decided_at = e.decided_at

\* Two submissions with one created_at, or two latest decisions of one.
tied ==
    \/ \E s, t \in submission : s # t /\ created_at[s.id] = created_at[t.id]
    \/ \E d, e \in decision :
          d # e /\ d.submission_id = e.submission_id /\ d.decided_at = e.decided_at

\* A client that pages to the end is shown every submission that was there when
\* it began, although new ones shift the pages under it, timestamps come out
\* of order and decisions change the rows; only equal timestamps may hide one.
PagingMissesNothing ==
    scan = "read" /\ ~ tied => earlier.submissions \subseteq {i.submission : i \in items}

\* The bound flag, read by the second SELECT, is never ahead of the binding and
\* never behind one that was there when the client began.
BoundFlagTruthful ==
    \A i \in items :
        /\ i.bound => is_bound(i.submission)
        /\ i.submission \in earlier.bound => i.bound
=============================================================================
