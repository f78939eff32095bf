---------------------------- MODULE InboxProofs -----------------------------
(***************************************************************************)
(* Proofs about Inbox: the bound flag of a list item, and what the query      *)
(* lists.                                                                   *)
(***************************************************************************)
EXTENDS Inbox, WorkbenchProofs, FiniteSetTheorems, FunctionTheorems

bound_files == {row.submission_id : row \in binding}

\* The flag is read by the second SELECT: what was bound when the client began
\* is still bound then, and nothing has been listed before the client began.
ListInv ==
    /\ scan = "closed" => items = {}
    /\ earlier.bound \subseteq bound_files
    /\ BoundFlagTruthful

\* A binding is never deleted.
LEMMA BindingsStay ==
    ASSUME \/ other_requests \/ \E c \in Creates : intake(c)
    PROVE  binding \subseteq binding' /\ UNCHANGED client
<1> USE DEF tables
<1>1. CASE \E c \in Creates : intake(c)
  BY <1>1 DEF intake, create_submission
<1>2. CASE other_requests
  <2>1. ASSUME NEW a \in Assesses, assess_start(a) \/ AssessStep(a)
        PROVE  binding' = binding
    BY <2>1 DEF assess_start, guarded, AssessStep, assess_ruleset, read_current,
                flush, assess_commit
  <2>2. ASSUME NEW q \in Quotes, quote_start(q) \/ QuoteStep(q)
        PROVE  binding' = binding
    BY <2>2 DEF quote_start, guarded, QuoteStep, quote_decision, quote_rate_table,
                read_current, flush, quote_commit
  <2>3. ASSUME NEW b \in Binds, insert_binding(b) \/ bind_commit(b)
        PROVE  binding \subseteq binding'
    BY <2>3 DEF insert_binding, bind_commit
  <2> QED
    BY <1>2, <2>1, <2>2, <2>3 DEF other_requests
<1> QED
  BY <1>1, <1>2

\* Nothing is listed before the client begins.
LEMMA FlagInitially == InboxInit => ListInv
BY DEF InboxInit, ListInv, BoundFlagTruthful

\* Every step keeps ListInv.
LEMMA FlagStep == ListInv /\ [InboxNext]_inbox_vars => ListInv'
<1> SUFFICES ASSUME ListInv, [InboxNext]_inbox_vars PROVE ListInv'
  OBVIOUS
<1>1. ASSUME binding \subseteq binding', UNCHANGED client PROVE ListInv'
  BY <1>1 DEF ListInv, BoundFlagTruthful, bound_files, is_bound, client
<1>2. CASE open_inbox
  <2>1. binding' = binding /\ items' = items /\ items = {} /\ scan' # "closed"
    BY <1>2 DEF open_inbox, vars, tables, ListInv
  <2>2. earlier'.bound = bound_files
    BY <1>2 DEF open_inbox, bound_files
  <2> QED
    BY <2>1, <2>2 DEF ListInv, BoundFlagTruthful, bound_files
<1>3. CASE select_rows
  BY <1>1, <1>3 DEF select_rows, vars, tables, ListInv, BoundFlagTruthful,
                    bound_files, is_bound
<1>4. CASE select_bound
  <2>1. binding' = binding /\ earlier' = earlier /\ items' = items \union listing
    BY <1>4 DEF select_bound, vars, tables
  <2>2. scan' # "closed"
    BY <1>4 DEF select_bound
  <2>3. ASSUME NEW i \in listing
        PROVE  /\ i.bound => is_bound(i.submission)
               /\ i.submission \in earlier.bound => i.bound
    <3> DEFINE bound_ids == bound_files \intersect {row.submission : row \in rows}
    <3>1. PICK row \in rows :
             i = [submission |-> row.submission, latest_outcome |-> row.latest_outcome,
                  bound |-> row.submission \in bound_ids]
      BY <2>3 DEF listing, bound_files
    <3>2. i.submission = row.submission /\ (i.bound <=> row.submission \in bound_ids)
      BY <3>1, Zenon
    <3>3. row.submission \in bound_ids <=> is_bound(row.submission)
      BY DEF is_bound, bound_files
    <3>4. row.submission \in earlier.bound => row.submission \in bound_ids
      BY DEF ListInv
    <3> QED
      BY <3>2, <3>3, <3>4
  <2> QED
    BY <2>1, <2>2, <2>3 DEF ListInv, BoundFlagTruthful, bound_files, is_bound
<1>5. CASE UNCHANGED inbox_vars
  BY <1>1, <1>5 DEF inbox_vars, vars, tables
<1> QED
  BY <1>1, <1>2, <1>3, <1>4, <1>5, BindingsStay DEF InboxNext

\* For any number of submissions, any page limit and any number of binds that
\* commit between the two SELECTs: the flag is never ahead of the binding and
\* never behind one that was there when the client began.
THEOREM BoundFlagIsTruthful == InboxSpec => []BoundFlagTruthful
<1>1. ListInv => BoundFlagTruthful
  BY DEF ListInv
<1> QED
  BY <1>1, FlagInitially, FlagStep, PTL DEF InboxSpec

-----------------------------------------------------------------------------
\* Timestamps are numbers, so the latest ones are equal.
TimeInv ==
    /\ clock \in Nat /\ stamp \in [Addressed -> Nat]
    /\ \A d \in decision : d.decided_at \in Nat

\* The decisions of the past were made at instant 0.
LEMMA TimeInitially == InboxInit => TimeInv
<1> SUFFICES ASSUME InboxInit PROVE TimeInv
  OBVIOUS
<1>1. \A d \in decision : d.decided_at = 0
  BY SMT DEF InboxInit, PastFiles
<1>2. clock = 0 /\ stamp = [r \in Addressed |-> 0]
  BY Zenon DEF InboxInit, PastRequests
<1> QED
  BY <1>1, <1>2 DEF TimeInv

\* Every step keeps TimeInv.
LEMMA TimeStep == TimeInv /\ [InboxNext]_inbox_vars => TimeInv'
<1> SUFFICES ASSUME TimeInv, [InboxNext]_inbox_vars PROVE TimeInv'
  OBVIOUS
<1> USE DEF tables, time, locals
<1>1. CASE UNCHANGED <<clock, stamp, decision>>
  BY <1>1 DEF TimeInv
<1>2. ASSUME NEW r \in Addressed, now(r), decision' = decision PROVE TimeInv'
  <2>1. PICK t \in {clock, clock + 1} : clock' = t /\ stamp' = [stamp EXCEPT ![r] = t]
    BY <1>2 DEF now
  <2>2. t \in Nat
    BY <2>1 DEF TimeInv
  <2> QED
    BY <1>2, <2>1, <2>2 DEF TimeInv
<1>3. ASSUME NEW a \in Assesses, assess_commit(a) PROVE TimeInv'
  <2>1. UNCHANGED <<clock, stamp>> /\ stamp[a] \in Nat
    BY <1>3 DEF assess_commit, TimeInv, Addressed
  <2>2. \A d \in decision' : d \in decision \/ d.decided_at = stamp[a]
    BY <1>3 DEF assess_commit
  <2> QED
    BY <2>1, <2>2 DEF TimeInv
<1>4. CASE \E c \in Creates : intake(c)
  BY <1>1, <1>4 DEF intake, create_submission
<1>5. ASSUME NEW a \in Assesses, assess_start(a) \/ AssessStep(a) PROVE TimeInv'
  BY <1>1, <1>2, <1>3, <1>5
     DEF assess_start, guarded, AssessStep, assess_ruleset, read_current, flush, Addressed
<1>6. ASSUME NEW q \in Quotes, quote_start(q) \/ QuoteStep(q) PROVE TimeInv'
  BY <1>1, <1>2, <1>6
     DEF quote_start, guarded, QuoteStep, quote_decision, quote_rate_table,
         read_current, flush, quote_commit, Addressed
<1>7. ASSUME NEW b \in Binds, insert_binding(b) \/ bind_commit(b) PROVE TimeInv'
  BY <1>1, <1>2, <1>7 DEF insert_binding, bind_commit, Addressed
<1>8. CASE open_inbox \/ select_rows \/ select_bound \/ UNCHANGED inbox_vars
  BY <1>1, <1>8 DEF open_inbox, select_rows, select_bound, inbox_vars, vars
<1> QED
  BY <1>4, <1>5, <1>6, <1>7, <1>8 DEF InboxNext, other_requests

\* The subquery and the two joins find the latest decisions and no others.
LEMMA MatchingLatest ==
    ASSUME NEW s, NEW d
    PROVE  d \in matching(s) <=> latest_decision(d, s)
<1>1. ASSUME d \in matching(s) PROVE latest_decision(d, s)
  <2>1. PICK l \in latest : l.submission_id = s /\ l.m = d.decided_at
    BY <1>1 DEF matching
  <2>2. PICK e \in decision :
          /\ latest_decision(e, e.submission_id)
          /\ l = [submission_id |-> e.submission_id, m |-> e.decided_at]
    BY DEF latest
  <2>3. e.submission_id = s /\ e.decided_at = d.decided_at
    BY <2>1, <2>2
  <2> QED
    BY <1>1, <2>2, <2>3 DEF matching, latest_decision, decisions_of
<1>2. ASSUME latest_decision(d, s) PROVE d \in matching(s)
  <2>1. d \in decision /\ d.submission_id = s
    BY <1>2 DEF latest_decision, decisions_of
  <2>2. [submission_id |-> s, m |-> d.decided_at] \in latest
    BY <1>2, <2>1 DEF latest
  <2> QED
    BY <2>1, <2>2 DEF matching
<1> QED
  BY <1>1, <1>2

\* The rows of one submission.
own(s) == {row \in listed("any") : row.submission = s}

priced_as(d) == [submission |-> d.submission_id, decision |-> {d.id}, latest_outcome |-> d.outcome]

\* They are those of its latest decisions, or the one that says it has none.
LEMMA OwnRows ==
    ASSUME NEW s \in {row.id : row \in submission}
    PROVE  own(s) = IF matching(s) = {}
                      THEN {[submission |-> s, decision |-> {}, latest_outcome |-> Unassessed]}
                      ELSE {priced_as(d) : d \in matching(s)}
<1>1. \A t : \A d \in matching(t) : d.submission_id = t
  BY DEF matching
<1>2. PICK row \in submission : row.id = s
  OBVIOUS
<1>3. CASE matching(s) = {}
  BY <1>1, <1>2, <1>3 DEF own, listed, joined
<1>4. CASE matching(s) # {}
  BY <1>1, <1>2, <1>4 DEF own, listed, joined, priced_as
<1> QED
  BY <1>3, <1>4

\* The inbox lists each submission under the outcomes that a guard may find, once
\* unless decisions tie.
LEMMA ListsRightly == TimeInv => ListingAgreesWithGuards
<1> SUFFICES ASSUME TimeInv, NEW s \in {row.id : row \in submission}
             PROVE  /\ \A o \in Outcome :
                          (\E row \in listed(o) : row.submission = s)
                              <=> \E d \in decision : latest_decision(d, s) /\ d.outcome = o
                    /\ own(s) # {}
                    /\ Cardinality(own(s)) > 1 =>
                          \E d, e \in decisions_of(s) :
                              d # e /\ d.decided_at = e.decided_at
  BY DEF ListingAgreesWithGuards, own
<1>1. ASSUME NEW o \in Outcome
      PROVE  (\E row \in listed(o) : row.submission = s)
                 <=> \E d \in decision : latest_decision(d, s) /\ d.outcome = o
  <2>1. o # "any" /\ o # Unassessed
    BY DEF Outcome, Unassessed
  <2>2. (\E row \in listed(o) : row.submission = s)
           <=> \E row \in own(s) : row.latest_outcome = o
    BY <2>1 DEF listed, own
  <2>3. (\E row \in own(s) : row.latest_outcome = o)
           <=> \E d \in matching(s) : d.outcome = o
    <3>1. \A d : priced_as(d).latest_outcome = d.outcome
      BY DEF priced_as
    <3>2. CASE matching(s) = {}
      BY <2>1, <3>2, OwnRows
    <3>3. CASE matching(s) # {}
      <4>1. own(s) = {priced_as(d) : d \in matching(s)}
        BY <3>3, OwnRows
      <4> QED
        BY <3>1, <4>1
    <3> QED
      BY <3>2, <3>3
  <2> QED
    BY <2>2, <2>3, MatchingLatest DEF latest_decision, decisions_of
<1>2. own(s) # {}
  <2>1. CASE matching(s) = {}
    BY <2>1, OwnRows
  <2>2. CASE matching(s) # {}
    <3>1. own(s) = {priced_as(d) : d \in matching(s)}
      BY <2>2, OwnRows
    <3>2. PICK d : d \in matching(s)
      BY <2>2
    <3> QED
      BY <3>1, <3>2
  <2> QED
    BY <2>1, <2>2
<1>3. ASSUME ~ \E d, e \in decisions_of(s) : d # e /\ d.decided_at = e.decided_at
      PROVE  ~ (Cardinality(own(s)) > 1)
  <2>1. \A d, e \in matching(s) : d = e
    <3> SUFFICES ASSUME NEW d \in matching(s), NEW e \in matching(s) PROVE d = e
      OBVIOUS
    <3>1. latest_decision(d, s) /\ latest_decision(e, s)
      BY MatchingLatest
    <3>2. d.decided_at <= e.decided_at /\ e.decided_at <= d.decided_at
      BY <3>1 DEF latest_decision
    <3>3. d.decided_at \in Nat /\ e.decided_at \in Nat
      BY <3>1 DEF latest_decision, decisions_of, TimeInv
    <3> QED
      BY <1>3, <3>1, <3>2, <3>3 DEF latest_decision
  <2>2. \E x : own(s) = {x}
    <3>1. CASE matching(s) = {}
      BY <3>1, OwnRows
    <3>2. CASE matching(s) # {}
      <4>1. PICK d : d \in matching(s)
        BY <3>2
      <4>2. matching(s) = {d}
        BY <2>1, <4>1
      <4>3. own(s) = {priced_as(d)}
        BY <3>2, <4>2, OwnRows
      <4> QED
        BY <4>3
    <3> QED
      BY <3>1, <3>2
  <2> QED
    BY <2>2, FS_Singleton
<1> QED
  BY <1>1, <1>2, <1>3

\* For any set of decisions, tied or not: the inbox and the guards agree on which
\* decision of a submission is the latest, and no submission is left out.
THEOREM InboxAgreesWithGuards == InboxSpec => []ListingAgreesWithGuards
BY TimeInitially, TimeStep, ListsRightly, PTL DEF InboxSpec

-----------------------------------------------------------------------------
\* What the client has been shown, and what is still ahead of it.

ids == {row.id : row \in submission}

\* The submissions listed before s.
newer(s) == {t \in ids : created_at[t] > created_at[s]}

shown == {i.submission : i \in items}

\* A submission that was there when the client began and has not been shown is
\* on the page at hand, or still ahead: as many submissions are newer as the
\* client has passed over.  New ones and their decisions only add to these.
Ahead(s) ==
    /\ s \in ids
    /\ \/ s \in shown
       \/ scan = "select_rows" /\ Cardinality(newer(s)) >= offset
       \/ /\ scan = "select_bound"
          /\ \/ s \in {row.submission : row \in rows}
             \/ /\ Cardinality(rows) = PageLimit
                /\ Cardinality(newer(s)) >= offset + PageLimit

PagingInv ==
    /\ IsFiniteSet(ids) /\ ids \subseteq Creates
    /\ created_at \in [Creates -> Nat]
    /\ offset \in Nat
    /\ scan = "closed" => offset = 0 /\ earlier.submissions = {}
    /\ ~ tied => \A s \in earlier.submissions : Ahead(s)

\* Without ties every submission has one row.
LEMMA OneRowEach ==
    ASSUME TimeInv, ~ tied
    PROVE  /\ listed("any") = joined
           /\ \A row \in joined : row.submission \in ids
           /\ \A row, other \in joined : row.submission = other.submission => row = other
           /\ \A s \in ids : \E row \in joined : row.submission = s
<1>1. listed("any") = joined
  BY DEF listed
<1>2. \A s : \A d \in matching(s) : d.submission_id = s /\ d \in decision
  BY DEF matching
<1>3. ASSUME NEW row \in joined
      PROVE  \/ /\ \E d \in matching(row.submission) : row = priced_as(d)
                /\ row.submission \in ids
             \/ /\ matching(row.submission) = {} /\ row.submission \in ids
                /\ row = [submission |-> row.submission, decision |-> {},
                          latest_outcome |-> Unassessed]
  BY <1>2 DEF joined, priced_as, ids
<1>4. ASSUME NEW s, NEW d \in matching(s), NEW e \in matching(s) PROVE d = e
  <2>1. latest_decision(d, s) /\ latest_decision(e, s)
    BY MatchingLatest
  <2>2. /\ d.decided_at <= e.decided_at /\ e.decided_at <= d.decided_at
        /\ d \in decision /\ e \in decision /\ d.submission_id = e.submission_id
    BY <2>1 DEF latest_decision, decisions_of
  <2>3. d.decided_at \in Nat /\ e.decided_at \in Nat
    BY <2>2 DEF TimeInv
  <2>4. d.decided_at = e.decided_at
    BY <2>2, <2>3
  <2> QED
    BY <2>2, <2>4 DEF tied
<1>5. ASSUME NEW row \in joined, NEW other \in joined, row.submission = other.submission
      PROVE  row = other
  <2>1. CASE matching(row.submission) = {}
    BY <1>3, <1>5, <2>1
  <2>2. CASE matching(row.submission) # {}
    <3>1. PICK d \in matching(row.submission) : row = priced_as(d)
      BY <1>3, <2>2
    <3>2. PICK e \in matching(row.submission) : other = priced_as(e)
      BY <1>3, <1>5, <2>2
    <3>3. d = e
      BY <1>4
    <3> QED
      BY <3>1, <3>2, <3>3
  <2> QED
    BY <2>1, <2>2
<1>6. ASSUME NEW s \in ids PROVE \E row \in joined : row.submission = s
  <2>1. own(s) # {}
    <3>1. CASE matching(s) = {}
      BY <3>1, OwnRows DEF ids
    <3>2. CASE matching(s) # {}
      <4>1. own(s) = {priced_as(d) : d \in matching(s)}
        BY <3>2, OwnRows DEF ids
      <4> QED
        BY <3>2, <4>1
    <3> QED
      BY <3>1, <3>2
  <2> QED
    BY <1>1, <2>1 DEF own
<1> QED
  BY <1>1, <1>3, <1>5, <1>6

\* A sorted listing holds each submission once, after exactly the newer ones.
LEMMA Ranked ==
    ASSUME TimeInv, ~ tied, PagingInv, NEW list \in newest_first(joined), NEW s \in ids
    PROVE  /\ \A i, j \in DOMAIN list : list[i] = list[j] => i = j
           /\ \E n \in Nat : DOMAIN list = 1 .. n
           /\ \E i \in DOMAIN list :
                 list[i].submission = s /\ Cardinality(newer(s)) = i - 1
<1> DEFINE D == 1 .. Cardinality(joined)
           name == [row \in joined |-> row.submission]
<1>1. IsFiniteSet(joined)
  <2>1. name \in Injection(joined, ids)
    <3>1. name \in [joined -> ids]
      BY OneRowEach
    <3>2. \A a, b \in joined : name[a] = name[b] => a = b
      BY OneRowEach
    <3> QED
      BY <3>1, <3>2, Fun_IsInj
  <2> QED
    BY <2>1, FS_Injection DEF PagingInv
<1>2. Cardinality(joined) \in Nat
  BY <1>1, FS_CardinalityType
<1>3. /\ list \in [D -> joined]
      /\ \A i, j \in D : i # j => list[i] # list[j]
      /\ \A i, j \in D : i < j => created_at[list[i].submission] >= created_at[list[j].submission]
  BY DEF newest_first, SetToSeqs
<1>4. \A row \in joined : \E j \in D : list[j] = row
  <2>1. list \in Injection(D, joined)
    BY <1>3, Fun_IsInj
  <2>2. IsFiniteSet(D) /\ Cardinality(D) = Cardinality(joined)
    BY <1>2, FS_Interval
  <2> HIDE DEF D
  <2>3. list \in Surjection(D, joined)
    BY <1>1, <2>1, <2>2, FS_Injection
  <2> QED
    BY <2>3, Fun_SurjectionProperties
<1>5. PICK row \in joined : row.submission = s
  BY OneRowEach
<1>6. PICK i \in D : list[i] = row
  BY <1>4
<1>7. \A j \in D : list[j].submission \in ids
  BY <1>3, OneRowEach
<1>8. \A t \in ids : created_at[t] \in Nat
  BY DEF PagingInv
<1>9. \A t \in ids : t # s => created_at[t] # created_at[s]
  BY DEF tied, ids
<1>10. \A j \in D : j # i => list[j].submission # s
  BY <1>3, <1>5, <1>6, OneRowEach
<1>11. \A j \in D : j < i => created_at[list[j].submission] > created_at[s]
  BY <1>3, <1>5, <1>6, <1>7, <1>8, <1>9, <1>10
<1>12. \A j \in D : i <= j => ~ (created_at[list[j].submission] > created_at[s])
  BY <1>2, <1>3, <1>5, <1>6, <1>7, <1>8
<1> DEFINE place == [j \in 1 .. (i - 1) |-> list[j].submission]
<1>13. i \in Nat /\ i >= 1 /\ 1 .. (i - 1) \subseteq D
  BY <1>2
<1>14. place \in [1 .. (i - 1) -> newer(s)]
  BY <1>7, <1>11, <1>13 DEF newer
<1>15. \A a, b \in 1 .. (i - 1) : place[a] = place[b] => a = b
  BY <1>3, <1>13, OneRowEach
<1>16. ASSUME NEW t \in newer(s) PROVE \E j \in 1 .. (i - 1) : place[j] = t
  <2>1. PICK other \in joined : other.submission = t
    BY OneRowEach DEF newer
  <2>2. PICK j \in D : list[j] = other
    BY <1>4
  <2>3. j < i
    BY <1>2, <1>12, <1>13, <2>1, <2>2 DEF newer
  <2> QED
    BY <1>13, <2>1, <2>2, <2>3
<1>17. Cardinality(newer(s)) = i - 1
  <2>1. place \in Bijection(1 .. (i - 1), newer(s))
    BY <1>14, <1>15, <1>16, Fun_IsBij
  <2>2. IsFiniteSet(1 .. (i - 1)) /\ Cardinality(1 .. (i - 1)) = i - 1
    BY <1>13, FS_Interval
  <2> QED
    BY <2>1, <2>2, FS_Bijection DEF ExistsBijection
<1> QED
  BY <1>2, <1>3, <1>5, <1>6, <1>17

\* Other requests add submissions and decisions, and take nothing away.
LEMMA FilesGrow ==
    ASSUME PagingInv, other_requests \/ \E c \in Creates : intake(c)
    PROVE  /\ decision \subseteq decision' /\ UNCHANGED client
           /\ \/ UNCHANGED <<submission, created_at>>
              \/ \E c \in Creates, t \in Moments, row \in submission' :
                    /\ row.id = c /\ row \notin submission
                    /\ submission' = submission \union {row}
                    /\ created_at' = [created_at EXCEPT ![c] = t]
<1> USE DEF tables
<1>1. CASE other_requests
  <2>1. ASSUME NEW a \in Assesses, assess_start(a) \/ AssessStep(a)
        PROVE  submission' = submission /\ decision \subseteq decision'
    BY <2>1 DEF assess_start, guarded, AssessStep, assess_ruleset, read_current,
                flush, assess_commit
  <2>2. ASSUME NEW q \in Quotes, quote_start(q) \/ QuoteStep(q)
        PROVE  UNCHANGED <<submission, decision>>
    BY <2>2 DEF quote_start, guarded, QuoteStep, quote_decision, quote_rate_table,
                read_current, flush, quote_commit
  <2>3. ASSUME NEW b \in Binds, insert_binding(b) \/ bind_commit(b)
        PROVE  UNCHANGED <<submission, decision>>
    BY <2>3 DEF insert_binding, bind_commit
  <2> QED
    BY <1>1, <2>1, <2>2, <2>3 DEF other_requests
<1>2. ASSUME NEW c \in Creates, intake(c)
      PROVE  /\ decision' = decision /\ UNCHANGED client
             /\ \E t \in Moments, row \in submission' :
                    /\ row.id = c /\ row \notin submission
                    /\ submission' = submission \union {row}
                    /\ created_at' = [created_at EXCEPT ![c] = t]
  <2>1. PICK f \in Bodies : submission' = submission \union {[id |-> c, facts |-> stored(f)]}
    BY <1>2 DEF intake, create_submission
  <2> QED
    BY <1>2, <2>1 DEF intake, create_submission
<1> QED
  BY <1>1, <1>2

\* While they do, ties stay ties, and as many submissions as before are newer.
LEMMA RanksGrow ==
    ASSUME PagingInv, other_requests \/ \E c \in Creates : intake(c)
    PROVE  /\ IsFiniteSet(ids') /\ ids' \subseteq Creates /\ ids \subseteq ids'
           /\ created_at' \in [Creates -> Nat]
           /\ ~ tied' => ~ tied
           /\ ~ tied' => \A s \in ids : Cardinality(newer(s)') >= Cardinality(newer(s))
<1>1. decision \subseteq decision'
  BY FilesGrow
<1>2. CASE UNCHANGED <<submission, created_at>>
  <2>1. ids' = ids /\ (~ tied' => ~ tied)
    BY <1>1, <1>2 DEF ids, tied
  <2>2. \A s : newer(s)' = newer(s) /\ newer(s) \subseteq ids
    BY <1>2, <2>1 DEF newer
  <2>3. \A s : Cardinality(newer(s)) \in Nat
    BY <2>2, FS_Subset, FS_CardinalityType DEF PagingInv
  <2> QED
    BY <1>2, <2>1, <2>2, <2>3 DEF PagingInv
<1>3. CASE ~ UNCHANGED <<submission, created_at>>
  <2>1. PICK c \in Creates, t \in Moments, row \in submission' :
              /\ row.id = c /\ row \notin submission
              /\ submission' = submission \union {row}
              /\ created_at' = [created_at EXCEPT ![c] = t]
    BY <1>3, FilesGrow
  <2>2. ids' = ids \union {c}
    BY <2>1 DEF ids
  <2>3. IsFiniteSet(ids')
    BY <2>2, FS_AddElement DEF PagingInv
  <2>4. created_at' \in [Creates -> Nat] /\ \A x \in Creates \ {c} : created_at'[x] = created_at[x]
    BY <2>1, InboxAssumption DEF PagingInv
  <2>5. ASSUME ~ tied' PROVE c \notin ids
    <3> SUFFICES ASSUME NEW other \in submission, other.id = c PROVE FALSE
      BY DEF ids
    <3>1. other \in submission' /\ other # row /\ other.id = row.id
      BY <2>1
    <3> QED
      BY <2>5, <3>1 DEF tied
  <2>6. ASSUME ~ tied' PROVE ~ tied
    <3>1. \A x \in submission : x \in submission' /\ x.id \in Creates \ {c}
      BY <2>1, <2>5, <2>6 DEF ids, PagingInv
    <3> QED
      BY <1>1, <2>4, <2>6, <3>1 DEF tied
  <2>7. ASSUME ~ tied', NEW s \in ids PROVE Cardinality(newer(s)') >= Cardinality(newer(s))
    <3>1. ids \subseteq Creates \ {c}
      BY <2>5, <2>7 DEF PagingInv
    <3>2. newer(s) \subseteq newer(s)'
      BY <2>2, <2>4, <2>7, <3>1 DEF newer
    <3>3. newer(s)' \subseteq ids'
      BY DEF newer
    <3>4. IsFiniteSet(newer(s)')
      BY <2>3, <3>3, FS_Subset
    <3>5. Cardinality(newer(s)) <= Cardinality(newer(s)')
      BY <3>2, <3>4, FS_Subset
    <3>6. IsFiniteSet(newer(s))
      BY <3>2, <3>4, FS_Subset
    <3> QED
      BY <3>4, <3>5, <3>6, FS_CardinalityType
  <2> QED
    BY <2>2, <2>3, <2>4, <2>6, <2>7 DEF PagingInv
<1> QED
  BY <1>2, <1>3

\* Ranks are numbers.
LEMMA RankIsNumber == ASSUME PagingInv, NEW s PROVE Cardinality(newer(s)) \in Nat
<1>1. newer(s) \subseteq ids
  BY DEF newer
<1> QED
  BY <1>1, FS_Subset, FS_CardinalityType DEF PagingInv

\* The first SELECT takes what is ahead onto the page, or fills the page without
\* reaching it.
LEMMA SelectKeepsAhead ==
    ASSUME TimeInv, PagingInv, ~ tied, select_rows, NEW s, Ahead(s)
    PROVE  Ahead(s)'
<1>1. /\ scan = "select_rows" /\ scan' = "select_bound"
      /\ UNCHANGED <<submission, created_at, offset, items>>
  BY DEF select_rows, vars, tables
<1>2. PICK list \in newest_first(joined) : rows' = page(list)
  BY OneRowEach DEF select_rows
<1>3. ids' = ids /\ shown' = shown /\ newer(s)' = newer(s)
  BY <1>1 DEF ids, shown, newer
<1>4. CASE s \in shown
  BY <1>3, <1>4 DEF Ahead
<1>5. CASE s \notin shown
  <2>1. s \in ids /\ Cardinality(newer(s)) >= offset
    BY <1>1, <1>5 DEF Ahead
  <2>2. /\ \A i, j \in DOMAIN list : list[i] = list[j] => i = j
        /\ \E n \in Nat : DOMAIN list = 1 .. n
        /\ \E i \in DOMAIN list :
              list[i].submission = s /\ Cardinality(newer(s)) = i - 1
    BY <1>2, <2>1, Ranked
  <2>3. PICK n \in Nat : DOMAIN list = 1 .. n
    BY <2>2
  <2>4. PICK i \in 1 .. n : list[i].submission = s /\ Cardinality(newer(s)) = i - 1
    BY <2>2, <2>3
  <2>5. offset \in Nat /\ PageLimit \in Nat
    BY InboxAssumption DEF PagingInv
  <2>6. CASE i <= offset + PageLimit
    <3>1. i \in DOMAIN list \intersect offset + 1 .. offset + PageLimit
      BY <2>1, <2>3, <2>4, <2>5, <2>6
    <3>2. list[i] \in rows'
      BY <1>2, <3>1 DEF page
    <3> QED
      BY <1>1, <1>3, <2>1, <2>4, <3>2 DEF Ahead
  <2>7. CASE i > offset + PageLimit
    <3> DEFINE places == offset + 1 .. offset + PageLimit
               at == [j \in places |-> list[j]]
    <3>1. places \subseteq 1 .. n /\ DOMAIN list \intersect places = places
      BY <2>3, <2>4, <2>5, <2>7
    <3>2. rows' = {list[j] : j \in places}
      BY <1>2, <3>1 DEF page
    <3>3. at \in [places -> rows']
      BY <3>2
    <3>4. at \in Bijection(places, rows')
      <4>1. \A a, b \in places : at[a] = at[b] => a = b
        BY <2>2, <2>3, <3>1
      <4>2. \A row \in rows' : \E j \in places : at[j] = row
        BY <3>2
      <4> HIDE DEF places, at
      <4> QED
        BY <3>3, <4>1, <4>2, Fun_IsBij
    <3>5. IsFiniteSet(places) /\ Cardinality(places) = PageLimit
      BY <2>5, FS_Interval
    <3>6. Cardinality(rows') = PageLimit
      BY <3>4, <3>5, FS_Bijection DEF ExistsBijection
    <3>7. Cardinality(newer(s)) >= offset + PageLimit
      BY <2>4, <2>5, <2>7
    <3> QED
      BY <1>1, <1>3, <2>1, <3>6, <3>7 DEF Ahead
  <2> QED
    BY <2>4, <2>5, <2>6, <2>7
<1> QED
  BY <1>4, <1>5

\* The answer shows what is on the page, and a full page leads to the next.
LEMMA AnswerKeepsAhead ==
    ASSUME PagingInv, select_bound, NEW s, Ahead(s)
    PROVE  Ahead(s)'
<1>1. /\ scan = "select_bound" /\ items' = items \union listing
      /\ UNCHANGED <<submission, created_at>>
  BY DEF select_bound, vars, tables
<1>2. ids' = ids /\ newer(s)' = newer(s) /\ shown \subseteq shown'
  BY <1>1 DEF ids, newer, shown
<1>3. CASE s \in {row.submission : row \in rows}
  <2>1. \E i \in listing : i.submission = s
    <3>1. PICK row \in rows : row.submission = s
      BY <1>3
    <3> DEFINE bound_ids == {b.submission_id : b \in binding}
                               \intersect {r.submission : r \in rows}
               item == [submission |-> row.submission, latest_outcome |-> row.latest_outcome,
                        bound |-> row.submission \in bound_ids]
    <3>2. item \in listing
      BY DEF listing
    <3>3. item.submission = s
      BY <3>1
    <3> QED
      BY <3>2, <3>3
  <2>2. s \in shown'
    BY <1>1, <2>1 DEF shown
  <2> QED
    BY <1>2, <2>2 DEF Ahead
<1>4. CASE Cardinality(rows) = PageLimit /\ Cardinality(newer(s)) >= offset + PageLimit
  BY <1>2, <1>4 DEF Ahead, select_bound
<1> QED
  BY <1>1, <1>2, <1>3, <1>4 DEF Ahead

\* Every step keeps PagingInv.
LEMMA PagingStep == TimeInv /\ PagingInv /\ [InboxNext]_inbox_vars => PagingInv'
<1> SUFFICES ASSUME TimeInv, PagingInv, [InboxNext]_inbox_vars PROVE PagingInv'
  OBVIOUS
<1>1. CASE other_requests \/ \E c \in Creates : intake(c)
  <2>1. UNCHANGED <<scan, offset, rows, items, earlier>>
    BY <1>1, FilesGrow DEF client
  <2>2. ASSUME ~ tied', NEW s \in earlier.submissions PROVE Ahead(s)'
    <3>1. Ahead(s) /\ s \in ids
      BY <1>1, <2>2, RanksGrow DEF PagingInv, Ahead
    <3>2. Cardinality(newer(s)') >= Cardinality(newer(s)) /\ s \in ids'
      BY <1>1, <2>2, <3>1, RanksGrow
    <3>3. Cardinality(newer(s)) \in Nat /\ offset \in Nat /\ PageLimit \in Nat
      BY RankIsNumber, InboxAssumption DEF PagingInv
    <3>4. Cardinality(newer(s)') \in Nat
      <4>1. newer(s)' \subseteq ids' /\ IsFiniteSet(ids')
        BY <1>1, RanksGrow DEF newer
      <4> QED
        BY <4>1, FS_Subset, FS_CardinalityType
    <3>5. shown' = shown
      BY <2>1 DEF shown
    <3> QED
      BY <2>1, <3>1, <3>2, <3>3, <3>4, <3>5 DEF Ahead
  <2> QED
    BY <1>1, <2>1, <2>2, RanksGrow DEF PagingInv
<1>2. CASE open_inbox
  <2>1. /\ scan = "closed" /\ scan' = "select_rows" /\ earlier'.submissions = ids
        /\ UNCHANGED <<submission, decision, created_at, offset, items>>
    BY <1>2 DEF open_inbox, vars, tables, ids
  <2>2. ids' = ids /\ \A s : newer(s)' = newer(s)
    BY <2>1 DEF ids, newer
  <2>3. \A s \in ids : Ahead(s)'
    BY <2>1, <2>2, RankIsNumber DEF Ahead, PagingInv
  <2> QED
    BY <2>1, <2>2, <2>3 DEF PagingInv
<1>3. CASE select_rows
  <2>1. UNCHANGED <<submission, decision, created_at, offset, earlier>> /\ scan' # "closed"
    BY <1>3 DEF select_rows, vars, tables
  <2>2. ids' = ids /\ (tied' <=> tied)
    BY <2>1 DEF ids, tied
  <2> QED
    BY <1>3, <2>1, <2>2, SelectKeepsAhead DEF PagingInv
<1>4. CASE select_bound
  <2>1. UNCHANGED <<submission, decision, created_at, earlier>> /\ scan' # "closed"
    BY <1>4 DEF select_bound, vars, tables
  <2>2. ids' = ids /\ (tied' <=> tied)
    BY <2>1 DEF ids, tied
  <2>3. offset' \in Nat
    BY <1>4, InboxAssumption DEF select_bound, PagingInv
  <2> QED
    BY <1>4, <2>1, <2>2, <2>3, AnswerKeepsAhead DEF PagingInv
<1>5. CASE UNCHANGED inbox_vars
  BY <1>5 DEF inbox_vars, vars, tables, client, PagingInv, Ahead, ids, newer, shown, tied
<1> QED
  BY <1>1, <1>2, <1>3, <1>4, <1>5 DEF InboxNext

\* The requests answered before are finitely many.
LEMMA PagingInitially == InboxInit => PagingInv
<1> SUFFICES ASSUME InboxInit PROVE PagingInv
  OBVIOUS
<1>1. PICK body \in [Past \intersect Creates -> Bodies \intersect SubmissionFacts] :
         submission = {[id |-> c, facts |-> stored(body[c])] : c \in DOMAIN body}
  BY SMT DEF InboxInit, PastFiles
<1>2. ids = Past \intersect Creates
  <2> DEFINE T == {[id |-> c, facts |-> stored(body[c])] : c \in DOMAIN body}
  <2>1. DOMAIN body = Past \intersect Creates
    OBVIOUS
  <2>2. \A c \in DOMAIN body : [id |-> c, facts |-> stored(body[c])] \in T
    OBVIOUS
  <2>3. \A row \in T : row.id \in DOMAIN body
    OBVIOUS
  <2>4. \A c \in DOMAIN body : [id |-> c, facts |-> stored(body[c])].id = c
    OBVIOUS
  <2>5. ids = {row.id : row \in T}
    BY <1>1, Zenon DEF ids
  <2> HIDE DEF T
  <2> QED
    BY <2>1, <2>2, <2>3, <2>4, <2>5
<1>3. IsFiniteSet(ids)
  BY <1>2, FS_Intersection, InboxAssumption
<1>4. created_at \in [Creates -> Nat]
  <2>1. created_at \in [Creates -> Moments \union {0}]
    <3>1. created_at \in {f \in [Creates -> Moments \union {0}] :
                              \A c \in Creates : f[c] = 0 <=> c \notin Past}
      BY Zenon DEF InboxInit
    <3> QED
      BY <3>1
  <2>2. Moments \union {0} \subseteq Nat
    BY InboxAssumption
  <2>3. \A c \in Creates : created_at[c] \in Nat
    BY <2>1, <2>2
  <2> QED
    BY <2>1, <2>3
<1> QED
  BY <1>2, <1>3, <1>4 DEF InboxInit, PagingInv

\* For any number of submissions, any page limit and whatever other requests do
\* meanwhile: a client that pages to the end has been shown every submission that
\* was there when it began, unless equal timestamps hid one.
THEOREM PagingShowsAll == InboxSpec => []PagingMissesNothing
<1>1. PagingInv => PagingMissesNothing
  BY DEF PagingInv, Ahead, PagingMissesNothing, shown
<1> QED
  BY <1>1, TimeInitially, TimeStep, PagingInitially, PagingStep, PTL DEF InboxSpec

-----------------------------------------------------------------------------
\* Behind the inbox.

\* The requests of Past addressed submissions of Past.
LEMMA PastTargets ==
    ASSUME NEW r \in Past, r \notin Creates
    PROVE  target[r] \in Past \intersect Creates
BY InboxAssumption, RequestAssumption DEF Addressed

\* What the requests of Past left on the files.
LEMMA PastTables ==
    ASSUME PastFiles
    PROVE  /\ submission \subseteq Submissions /\ decision \subseteq Decisions
           /\ \A d \in decision :
                 /\ d.appetite_version = 1
                 /\ \E row \in submission :
                       /\ row.id = d.submission_id
                       /\ assess(row.facts, Rulesets[1])
                             = [outcome |-> d.outcome, reason_codes |-> d.reason_codes]
<1>1. PICK body \in [Past \intersect Creates -> Bodies \intersect SubmissionFacts] :
        /\ submission = {[id |-> c, facts |-> stored(body[c])] : c \in DOMAIN body}
        /\ decision =
              {LET verdict == assess(stored(body[target[a]]), Rulesets[1])
               IN  [id |-> a, submission_id |-> target[a],
                    outcome |-> verdict.outcome,
                    reason_codes |-> verdict.reason_codes,
                    appetite_version |-> 1, decided_at |-> 0] :
                  a \in Past \intersect Assesses}
  BY DEF PastFiles
<1>2. \A c \in Past \intersect Creates :
          /\ stored(body[c]) \in SubmissionFacts
          /\ [id |-> c, facts |-> stored(body[c])] \in submission
  BY <1>1, StoredFacts
<1>3. submission \subseteq Submissions
  BY <1>1, <1>2 DEF Submissions
<1>4. ASSUME NEW d \in decision
      PROVE  /\ d \in Decisions /\ d.appetite_version = 1
             /\ \E row \in submission :
                   /\ row.id = d.submission_id
                   /\ assess(row.facts, Rulesets[1])
                         = [outcome |-> d.outcome, reason_codes |-> d.reason_codes]
  <2>1. PICK a \in Past \intersect Assesses :
          LET verdict == assess(stored(body[target[a]]), Rulesets[1])
          IN  d = [id |-> a, submission_id |-> target[a],
                   outcome |-> verdict.outcome,
                   reason_codes |-> verdict.reason_codes,
                   appetite_version |-> 1, decided_at |-> 0]
    BY <1>1
  <2> DEFINE facts == stored(body[target[a]])
             verdict == assess(facts, Rulesets[1])
  <2>2. target[a] \in Past \intersect Creates
    BY PastTargets, RequestAssumption DEF Addressed
  <2>3. verdict \in [outcome : Outcome, reason_codes : Seq(ReasonCode)]
    BY Precedence
  <2>4. [id |-> target[a], facts |-> facts] \in submission
    BY <1>2, <2>2
  <2> HIDE DEF verdict, facts
  <2>5. d = [id |-> a, submission_id |-> target[a], outcome |-> verdict.outcome,
             reason_codes |-> verdict.reason_codes, appetite_version |-> 1,
             decided_at |-> 0]
    BY <2>1 DEF verdict, facts
  <2>6. d \in Decisions /\ d.appetite_version = 1
    BY <2>2, <2>3, <2>5, DataAssumption DEF Decisions
  <2>7. assess(facts, Rulesets[1]) = [outcome |-> d.outcome, reason_codes |-> d.reason_codes]
    BY <2>3, <2>5 DEF verdict
  <2>8. d.submission_id = target[a]
    BY <2>5
  <2> QED
    BY <2>4, <2>6, <2>7, <2>8
<1> QED
  BY <1>3, <1>4

\* A file with past requests, its binds about to insert, is one that the workbench
\* may be in.
LEMMA PastIsSound == InboxInit => IInv
<1> SUFFICES ASSUME InboxInit PROVE IInv
  OBVIOUS
<1>1. PastFiles /\ PastRequests
  BY DEF InboxInit
<1>2. /\ submission \subseteq Submissions /\ decision \subseteq Decisions
      /\ DecisionReplayable
  BY <1>1, PastTables DEF PastRequests, DecisionReplayable
<1>3. quote \subseteq QuoteRows
  <2>1. \A q \in Past \intersect Quotes : q \in Quotes /\ target[q] \in Creates
    BY RequestAssumption DEF Addressed
  <2> QED
    BY <1>1, <2>1, DataAssumption DEF PastRequests, QuoteRows
<1>4. audit_entry \subseteq AuditEntries
  <2>1. \A r \in Past : r \in Requests /\ (r \notin Creates => target[r] \in Creates)
    BY PastTargets, InboxAssumption DEF Requests, Addressed
  <2>2. \A r \in Past \intersect (Assesses \union Quotes) : r \notin Creates
    BY RequestAssumption DEF Addressed
  <2> QED
    BY <1>1, <2>1, <2>2 DEF PastRequests, AuditEntries
<1>5. policy \in [PolicyNumbers -> Policy]
  BY <1>1 DEF PastRequests, Policy, PolicyStatus, NoPolicy
<1>6. /\ pc \in [Requests -> Steps] /\ \A b \in Binds : pc[b] = "insert"
      /\ \A r \in Requests \ Binds : pc[r] \in {"idle", "200", "201"}
  <2>1. pc = [r \in Requests |-> CASE r \in Binds -> "insert"
                                   [] r \in Past \intersect Creates -> "201"
                                   [] r \in Past \ Creates -> "200"
                                   [] OTHER -> "idle"]
    BY <1>1, Zenon DEF PastRequests
  <2>2. \A b \in Binds : b \notin Past /\ b \notin Creates /\ b \in Requests
    BY RequestAssumption, InboxAssumption DEF Requests, Addressed
  <2>3. \A b \in Binds : pc[b] = "insert"
    BY <2>1, <2>2
  <2>4. \A r \in Requests \ Binds : pc[r] \in {"idle", "200", "201"}
    BY <2>1
  <2>5. {"insert", "idle", "200", "201"} \subseteq Steps
    BY DEF Steps, Answers, BindSteps
  <2>6. \A r \in Requests : pc[r] \in Steps
    BY <2>3, <2>4, <2>5
  <2> QED
    BY <2>1, <2>3, <2>4, <2>6
<1>7. version \in [Assesses \union Quotes -> Nat]
  BY <1>1 DEF PastRequests
<1>8. picked \in [Binds -> Quotes]
  BY <1>1 DEF PastRequests
<1>9. TypeOK
  BY <1>1, <1>2, <1>3, <1>4, <1>5, <1>6, <1>7, <1>8, DataAssumption
     DEF PastRequests, TypeOK
<1>10. \A b \in Binds :
          \E q \in quote : /\ q.id = picked[b] /\ q.submission_id = target[b]
                           /\ was_accepted(q.submission_id)
  <2>1. /\ quote = {[id |-> q, submission_id |-> target[q], rate_table_version |-> 2,
                     created_at |-> 0] : q \in Past \intersect Quotes}
        /\ \A q \in quote : was_accepted(q.submission_id)
        /\ picked \in [Binds -> Past \intersect Quotes]
        /\ \A b \in Binds : target[picked[b]] = target[b]
    BY <1>1, Zenon DEF PastRequests
  <2> SUFFICES ASSUME NEW b \in Binds
               PROVE  \E q \in quote : /\ q.id = picked[b] /\ q.submission_id = target[b]
                                       /\ was_accepted(q.submission_id)
    OBVIOUS
  <2> DEFINE row == [id |-> picked[b], submission_id |-> target[picked[b]],
                     rate_table_version |-> 2, created_at |-> 0]
  <2>2. row \in quote
    BY <2>1
  <2>3. row.id = picked[b] /\ row.submission_id = target[b]
    BY <2>1
  <2> QED
    BY <2>1, <2>2, <2>3
<1>11. AssessInv /\ QuoteInv
  BY <1>6, RequestAssumption
     DEF AssessInv, QuoteInv, Answers, Requests, Addressed
<1>12. BindInv
  BY <1>6, <1>10 DEF BindInv, BindSteps, HasDecision, HasQuote, Untouched
<1>13. \A n \in PolicyNumbers :
          policy[n] = IF \E b \in Binds : number(b) = n
                        THEN [status |-> "active", effective_date |-> 0]
                        ELSE NoPolicy
  BY <1>1 DEF PastRequests
<1>14. \A b \in Binds : number(b) \in PolicyNumbers
  BY <1>8, DataAssumption DEF number
<1>15. PolicyInv /\ CancelInv
  BY <1>13, <1>14 DEF PolicyInv, CancelInv, NoPolicy
<1>16. BackedInv
  <2>1. late = {}
    BY <1>1 DEF PastRequests
  <2> QED
    BY <2>1, <1>10, <1>13 DEF BackedInv, Backed, exists, NoPolicy, number
<1>17. RivalInv
  BY <1>6 DEF RivalInv
<1>18. QuotedInv
  BY <1>1 DEF PastRequests, QuotedInv, Undeclined, was_accepted, decisions_of
<1>19. FlagInv /\ BindingBacked /\ UniqueBinding /\ PublishedFlagTruthful
  BY <1>1 DEF PastRequests, FlagInv, BindingBacked, UniqueBinding, PublishedFlagTruthful
<1> QED
  BY <1>2, <1>9, <1>11, <1>12, <1>15, <1>16, <1>17, <1>18, <1>19 DEF IInv, CoreInv

\* Each step of the requests around a client that reads is one of the workbench.
LEMMA BehindTheInbox == ASSUME [InboxNext]_inbox_vars PROVE [Next]_vars
<1>1. CASE \E c \in Creates : intake(c)
  BY <1>1 DEF intake, Next
<1>2. CASE other_requests
  BY <1>2 DEF other_requests, Next, BindStep
<1>3. CASE open_inbox \/ select_rows \/ select_bound
  BY <1>3 DEF open_inbox, select_rows, select_bound
<1> QED
  BY <1>1, <1>2, <1>3 DEF InboxNext, inbox_vars

\* The states that the client reads are states of the workbench: its invariant
\* holds of whatever past InboxInit starts from, and ever after.
THEOREM InboxKeepsInvariant == InboxSpec => []IInv
BY PastIsSound, BehindTheInbox, Inductive, PTL DEF InboxSpec
=============================================================================
