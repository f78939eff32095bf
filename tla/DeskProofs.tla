----------------------------- MODULE DeskProofs -----------------------------
(***************************************************************************)
(* Proofs about Desk: whatever is on record was done for a caller who held   *)
(* the right to do it, behind the desk the workbench keeps its invariant,    *)
(* and the buttons of the page are the actions that the API would carry out. *)
(***************************************************************************)
EXTENDS Desk, WorkbenchProofs

\* Where a request is that has not been let in.
Outside == {"idle", "401", "403"}

Admitted(r) ==
    AuthOn =>
        /\ caller[r].bearer /\ caller[r].sound
        /\ "underwriting:write" \in caller[r].scope
        /\ actor[r] \in {caller[r].identity[i] : i \in DOMAIN caller[r].identity}
                           \union {"unknown"}

\* WritesAreAccountable speaks of the rows and the refused; its induction needs
\* to know of every request under way that it was admitted, and of every
\* request outside that it has done nothing.
AccessInv ==
    /\ caller = [r \in Requests |-> caller[r]] /\ actor = [r \in Requests |-> actor[r]]
    /\ pc = [r \in Requests |-> pc[r]]
    /\ picked = [b \in Binds |-> picked[b]] /\ delivered = [b \in Binds |-> delivered[b]]
    /\ \A r \in Requests : pc[r] \in Outside \/ Admitted(r)
    /\ \A e \in audit_entry : e.id \in Requests /\ pc[e.id] \notin Outside
    /\ \A b \in Binds : pc[b] \in Outside => picked[b] = NoQuote /\ delivered[b] = 0

-----------------------------------------------------------------------------
\* Steps of the workbench.

\* What EXCEPT does to a function.
LEMMA Except ==
    ASSUME NEW S, NEW f, f = [x \in S |-> f[x]], NEW a \in S, NEW v
    PROVE  /\ [f EXCEPT ![a] = v] = [x \in S |-> [f EXCEPT ![a] = v][x]]
           /\ [f EXCEPT ![a] = v][a] = v
           /\ \A x \in S \ {a} : [f EXCEPT ![a] = v][x] = f[x]
OBVIOUS

\* r goes on inside, and puts nothing but its own entry on record.
Inside(r) ==
    /\ \E step : step \notin Outside /\ goto(r, step)
    /\ \A e \in audit_entry' : e \in audit_entry \/ e.id = r

\* A bind changes its own picked and delivered only.
Keeps(b) ==
    /\ picked' = picked \/ \E v : picked' = [picked EXCEPT ![b] = v]
    /\ delivered' = delivered \/ \E v : delivered' = [delivered EXCEPT ![b] = v]

\* The first step of an admitted request.
LEMMA Begins ==
    ASSUME NEW r \in Requests,
           \/ create_submission(r) \/ assess_start(r) \/ quote_start(r) \/ bind_start(r)
    PROVE  Inside(r) /\ UNCHANGED <<picked, delivered>>
BY DEF Inside, Outside, create_submission, assess_start, quote_start, bind_start,
       guarded, committed, audited, tables, locals

\* A later step of an assessment.
LEMMA AssessGoesOn ==
    ASSUME NEW a \in Assesses, AssessStep(a)
    PROVE  pc[a] \notin Outside /\ Inside(a) /\ UNCHANGED <<picked, delivered>>
BY DEF Inside, Outside, AssessStep, assess_ruleset, read_current, flush,
       assess_commit, committed, audited, tables, locals

\* A later step of a quote.
LEMMA QuoteGoesOn ==
    ASSUME NEW q \in Quotes, QuoteStep(q)
    PROVE  pc[q] \notin Outside /\ Inside(q) /\ UNCHANGED <<picked, delivered>>
BY DEF Inside, Outside, QuoteStep, quote_decision, quote_rate_table, read_current,
       flush, quote_commit, committed, audited, tables, locals

\* A later step of a bind.
LEMMA BindGoesOn ==
    ASSUME NEW b \in Binds, BindStep(b) \/ pas_timeout(b)
    PROVE  pc[b] \notin Outside /\ Inside(b) /\ Keeps(b)
<1> USE DEF Inside, Outside, Keeps, tables, locals
<1>1. CASE bind_decision(b) \/ bind_quote(b)
  BY <1>1 DEF bind_decision, bind_quote
<1>2. CASE create_policy(b) \/ resolve_existing(b) \/ submit(b) \/ activate(b)
  BY <1>2 DEF create_policy, resolve_existing, submit, activate
<1>3. CASE publish_best_effort(b)
  BY <1>3 DEF publish_best_effort
<1>4. CASE insert_binding(b)
  BY <1>4 DEF insert_binding
<1>5. CASE bind_commit(b)
  BY <1>5 DEF bind_commit, committed, audited
<1>6. CASE pas_timeout(b)
  BY <1>6 DEF pas_timeout
<1> QED
  BY <1>1, <1>2, <1>3, <1>4, <1>5, <1>6 DEF BindStep

\* A failure.
LEMMA AbortEnds ==
    ASSUME NEW r \in Addressed, abort(r)
    PROVE  pc[r] \notin Outside /\ Inside(r) /\ UNCHANGED <<picked, delivered>>
BY DEF Inside, Outside, abort, Answers, tables, locals

-----------------------------------------------------------------------------
\* Steps of the desk.

\* A step inside keeps the invariant, given who called.
LEMMA StepInside ==
    ASSUME AccessInv, NEW r \in Requests, Inside(r),
           \/ UNCHANGED <<picked, delivered>>
           \/ r \in Binds /\ Keeps(r),
           caller' = [x \in Requests |-> caller'[x]],
           actor' = [x \in Requests |-> actor'[x]],
           \A x \in Requests \ {r} : caller'[x] = caller[x] /\ actor'[x] = actor[x],
           Admitted(r)'
    PROVE  AccessInv'
<1>1. PICK step : step \notin Outside /\ pc' = [pc EXCEPT ![r] = step]
  BY DEF Inside, goto
<1>2. /\ pc' = [x \in Requests |-> pc'[x]]
      /\ pc'[r] = step /\ \A x \in Requests \ {r} : pc'[x] = pc[x]
  BY <1>1, Except DEF AccessInv
<1>3. \A x \in Requests : pc'[x] \in Outside \/ Admitted(x)'
  BY <1>2 DEF AccessInv, Admitted
<1>4. \A e \in audit_entry' : e.id \in Requests /\ pc'[e.id] \notin Outside
  BY <1>1, <1>2 DEF AccessInv, Inside
<1>5. /\ picked' = [b \in Binds |-> picked'[b]]
      /\ \A b \in Binds \ {r} : picked'[b] = picked[b]
  BY Except DEF AccessInv, Keeps
<1>6. /\ delivered' = [b \in Binds |-> delivered'[b]]
      /\ \A b \in Binds \ {r} : delivered'[b] = delivered[b]
  BY Except DEF AccessInv, Keeps
<1>7. \A b \in Binds : pc'[b] \in Outside => picked'[b] = NoQuote /\ delivered'[b] = 0
  BY <1>1, <1>2, <1>5, <1>6 DEF AccessInv, Requests, Addressed
<1> QED
  BY <1>2, <1>3, <1>4, <1>5, <1>6, <1>7 DEF AccessInv

\* The two dependencies let a request in only with the write scope, and name
\* a claim of its token.
LEMMA LetIn ==
    ASSUME AuthOn, NEW c \in Credential, NEW lapsed,
           require_scope(c, "underwriting:write", lapsed) = "ok"
    PROVE  /\ c.bearer /\ c.sound /\ "underwriting:write" \in c.scope
           /\ current_actor(c) \in {c.identity[i] : i \in DOMAIN c.identity}
                                       \union {"unknown"}
<1>1. c.bearer /\ c.sound /\ "underwriting:write" \in c.scope
  BY DEF require_scope, decodes
<1>2. CASE c.identity = <<>>
  BY <1>1, <1>2 DEF current_actor
<1>3. CASE c.identity # <<>>
  <2>1. c.identity \in Seq(Names)
    BY DEF Credential
  <2>2. 1 \in DOMAIN c.identity /\ Head(c.identity) = c.identity[1]
    BY <1>3, <2>1
  <2> QED
    BY <1>1, <1>3, <2>2 DEF current_actor
<1> QED
  BY <1>1, <1>2, <1>3

\* A request that enters is admitted, or refused with nothing done.
LEMMA EnterStep ==
    ASSUME AccessInv, NEW r \in Requests, NEW begin,
           begin => Inside(r) /\ UNCHANGED <<picked, delivered>>,
           enter(r, begin)
    PROVE  AccessInv'
<1>1. PICK c \in credentials[r], lapsed \in BOOLEAN :
        LET verdict == require_scope(c, "underwriting:write", lapsed)
        IN  /\ caller' = [caller EXCEPT ![r] = c]
            /\ IF verdict = "ok"
                 THEN begin /\ actor' = [actor EXCEPT ![r] = current_actor(c)]
                 ELSE /\ goto(r, verdict)
                      /\ UNCHANGED <<tables, versions, pas, delivered, time,
                                      locals, actor>>
  BY DEF enter
<1>2. pc[r] = "idle" /\ c \in Credential
  BY DeskAssumption DEF enter
<1>3. /\ caller' = [x \in Requests |-> caller'[x]]
      /\ caller'[r] = c /\ \A x \in Requests \ {r} : caller'[x] = caller[x]
  BY <1>1, Except DEF AccessInv
<1>4. CASE require_scope(c, "underwriting:write", lapsed) = "ok"
  <2>1. /\ actor' = [x \in Requests |-> actor'[x]]
        /\ actor'[r] = current_actor(c)
        /\ \A x \in Requests \ {r} : actor'[x] = actor[x]
    BY <1>1, <1>4, Except DEF AccessInv
  <2>2. Admitted(r)'
    BY <1>2, <1>3, <1>4, <2>1, LetIn DEF Admitted
  <2> QED
    BY <1>1, <1>3, <1>4, <2>1, <2>2, StepInside
<1>5. CASE require_scope(c, "underwriting:write", lapsed) # "ok"
  <2>1. /\ goto(r, require_scope(c, "underwriting:write", lapsed))
        /\ UNCHANGED <<audit_entry, delivered, picked, actor>>
    BY <1>1, <1>5 DEF tables, locals
  <2>2. require_scope(c, "underwriting:write", lapsed) \in Outside
    BY <1>5 DEF require_scope, Outside
  <2>3. /\ pc' = [x \in Requests |-> pc'[x]]
        /\ pc'[r] \in Outside /\ \A x \in Requests \ {r} : pc'[x] = pc[x]
    BY <2>1, <2>2, Except DEF AccessInv, goto
  <2>4. \A x \in Requests : pc'[x] \in Outside \/ Admitted(x)'
    BY <1>3, <2>1, <2>3 DEF AccessInv, Admitted
  <2>5. \A e \in audit_entry' : e.id \in Requests /\ pc'[e.id] \notin Outside
    BY <1>2, <2>1, <2>3 DEF AccessInv, Outside
  <2>6. \A b \in Binds : pc'[b] \in Outside => picked'[b] = NoQuote /\ delivered'[b] = 0
    BY <1>2, <2>1, <2>3 DEF AccessInv, Outside, Requests, Addressed
  <2> QED
    BY <1>3, <2>1, <2>3, <2>4, <2>5, <2>6 DEF AccessInv
<1> QED
  BY <1>4, <1>5

\* So is every request that is sent.
LEMMA SendStep ==
    ASSUME AccessInv, NEW r \in Requests, send(r)
    PROVE  AccessInv'
BY Begins, EnterStep DEF send

\* Handlers go on only for those admitted.
LEMMA HandleStep ==
    ASSUME AccessInv, Handle
    PROVE  AccessInv'
<1>1. caller' = caller /\ actor' = actor
  BY DEF Handle, callers
<1>2. ASSUME NEW r \in Requests, pc[r] \notin Outside, Inside(r),
             \/ UNCHANGED <<picked, delivered>>
             \/ r \in Binds /\ Keeps(r)
      PROVE  AccessInv'
  <2>1. Admitted(r)'
    BY <1>1, <1>2 DEF AccessInv, Admitted
  <2> QED
    BY <1>1, <1>2, <2>1, StepInside DEF AccessInv
<1>3. CASE \E m \in late : pas_late(m)
  <2>1. UNCHANGED <<pc, picked, delivered, audit_entry>>
    BY <1>3 DEF pas_late, tables, locals
  <2> QED
    BY <1>1, <2>1 DEF AccessInv, Admitted
<1>4. CASE \E a \in Assesses : AssessStep(a)
  BY <1>2, <1>4, AssessGoesOn DEF Requests, Addressed
<1>5. CASE \E q \in Quotes : QuoteStep(q)
  BY <1>2, <1>5, QuoteGoesOn DEF Requests, Addressed
<1>6. CASE \E b \in Binds : BindStep(b) \/ pas_timeout(b)
  BY <1>2, <1>6, BindGoesOn DEF Requests, Addressed
<1>7. CASE \E r \in Addressed : abort(r)
  BY <1>2, <1>7, AbortEnds DEF Requests
<1> QED
  BY <1>3, <1>4, <1>5, <1>6, <1>7 DEF Handle

\* Nobody has called yet.
LEMMA AccessInitially == DeskInit => AccessInv
BY DEF DeskInit, Init, AccessInv, Outside

\* Every step of the desk keeps AccessInv.
LEMMA AccessStep == AccessInv /\ [DeskNext]_all_vars => AccessInv'
<1> SUFFICES ASSUME AccessInv, [DeskNext]_all_vars PROVE AccessInv'
  OBVIOUS
<1>1. CASE elsewhere \/ click
  BY <1>1, SendStep, DeskAssumption DEF elsewhere, click
<1>2. CASE UNCHANGED <<vars, callers>>
  BY <1>2 DEF vars, callers, tables, locals, AccessInv, Admitted
<1>3. CASE \E r \in Own : settle(r)
  BY <1>2, <1>3 DEF settle
<1>4. CASE Load \/ reload
  BY <1>2, <1>4 DEF Load, reload, get_submission, get_latest_decision, get_quote,
                    get_binding, get_audit, done, read_fails
<1>5. CASE Handle
  BY <1>5, HandleStep
<1>6. CASE UNCHANGED all_vars
  BY <1>2, <1>6 DEF all_vars
<1> QED
  BY <1>1, <1>3, <1>4, <1>5, <1>6 DEF DeskNext

\* For every number of callers with any credentials, with authentication on or
\* off: whatever is in the audit log was done for a caller who held the write
\* scope and is named, and a refused request has left nothing behind.
THEOREM RecordsAreAccountable == DeskSpec => []WritesAreAccountable
<1>1. AccessInv => WritesAreAccountable
  BY DEF AccessInv, WritesAreAccountable, Admitted, Outside
<1> QED
  BY <1>1, AccessInitially, AccessStep, PTL DEF DeskSpec
-----------------------------------------------------------------------------
\* Behind the desk.

\* A request that is refused has not begun, and touches nothing.
Refuses(r, status) ==
    /\ pc[r] = "idle" /\ goto(r, status)
    /\ UNCHANGED <<tables, versions, pas, delivered, time, locals>>

\* A refused request leaves the invariant as it was.
LEMMA RefusedKeeps ==
    ASSUME IInv, NEW r \in Requests, NEW status \in {"401", "403"}, Refuses(r, status)
    PROVE  IInv'
<1> USE DEF Refuses, tables, versions, pas, time, locals
<1>1. TypeOK
  BY DEF IInv, CoreInv
<1>2. status \in Steps /\ status \in Answers
  BY DEF Steps, Answers
<1>3. /\ pc' \in [Requests -> Steps] /\ pc'[r] = status
      /\ \A x \in Requests : x # r => pc'[x] = pc[x]
  BY <1>1, <1>2, Goto
<1>4. TypeOK'
  BY <1>1, <1>3 DEF TypeOK
<1>5. AssessInv' /\ QuoteInv'
  BY <1>2, <1>3 DEF IInv, CoreInv, AssessInv, QuoteInv, Requests, Addressed, Undeclined
<1>6. BindInv'
  BY <1>2, <1>3 DEF IInv, CoreInv, BindInv, Requests, Addressed, HasQuote, HasDecision,
                    Untouched, BindSteps, was_accepted, decisions_of, is_bound
<1>7. PolicyInv' /\ CancelInv' /\ BackedInv' /\ QuotedInv'
  <2>1. PolicyInv'
    BY <1>2, <1>3 DEF IInv, CoreInv, PolicyInv, Requests, Addressed, HasPolicy,
                      HasSubmitted, HasActivated, HasQuote, HasDecision, BindSteps, number
  <2>2. CancelInv' /\ BackedInv' /\ QuotedInv'
    BY DEF IInv, CoreInv, CancelInv, BackedInv, QuotedInv, Backed, Undeclined,
           was_accepted, decisions_of
  <2> QED
    BY <2>1, <2>2
<1>8. RivalInv'
  BY <1>2, <1>3 DEF IInv, CoreInv, RivalInv, Requests, Addressed, taken, rivals, number
<1>9. FlagInv'
  <2>1. \A row \in binding : row.id \in Requests
    BY <1>1 DEF TypeOK, Bindings, Requests, Addressed
  <2> QED
    BY <1>2, <1>3, <2>1 DEF IInv, CoreInv, FlagInv, Requests, Addressed
<1>10. DecisionReplayable' /\ BindingBacked' /\ UniqueBinding' /\ PublishedFlagTruthful'
  BY DEF IInv, CoreInv, DecisionReplayable, BindingBacked, UniqueBinding, PublishedFlagTruthful,
         quotes_of, was_accepted, decisions_of
<1> QED
  BY <1>4, <1>5, <1>6, <1>7, <1>8, <1>9, <1>10 DEF IInv, CoreInv

\* A request that is let in takes its handler's first step; one that is not, keeps
\* everything.
LEMMA SendSeen ==
    ASSUME NEW r \in Requests, send(r)
    PROVE  Next \/ \E status \in {"401", "403"} : Refuses(r, status)
<1>1. ASSUME NEW begin, enter(r, begin), begin => Next
      PROVE  Next \/ \E status \in {"401", "403"} : Refuses(r, status)
  <2>1. PICK c \in credentials[r], lapsed \in BOOLEAN :
          LET verdict == require_scope(c, "underwriting:write", lapsed)
          IN  /\ caller' = [caller EXCEPT ![r] = c]
              /\ IF verdict = "ok"
                   THEN begin /\ actor' = [actor EXCEPT ![r] = current_actor(c)]
                   ELSE /\ goto(r, verdict)
                        /\ UNCHANGED <<tables, versions, pas, delivered, time,
                                        locals, actor>>
    BY <1>1 DEF enter
  <2>2. CASE require_scope(c, "underwriting:write", lapsed) = "ok"
    BY <1>1, <2>1, <2>2
  <2>3. CASE require_scope(c, "underwriting:write", lapsed) # "ok"
    <3>1. require_scope(c, "underwriting:write", lapsed) \in {"401", "403"}
      BY <2>3 DEF require_scope
    <3>2. pc[r] = "idle"
      BY <1>1 DEF enter
    <3>3. Refuses(r, require_scope(c, "underwriting:write", lapsed))
      BY <2>1, <2>3, <3>2 DEF Refuses
    <3> QED
      BY <3>1, <3>3
  <2> QED
    BY <2>2, <2>3
<1>2. /\ r \in Creates => (create_submission(r) => Next)
      /\ r \in Assesses => (assess_start(r) => Next)
      /\ r \in Quotes => (quote_start(r) => Next)
      /\ r \in Binds => (bind_start(r) => Next)
  BY DEF Next
<1> QED
  BY <1>1, <1>2 DEF send

\* Every step of the desk is one of the workbench, a refusal, or no concern of it.
LEMMA BehindTheDesk ==
    ASSUME [DeskNext]_all_vars
    PROVE  \/ [Next]_vars
           \/ \E r \in Requests, status \in {"401", "403"} : Refuses(r, status)
<1>1. CASE elsewhere \/ click
  BY <1>1, SendSeen, DeskAssumption DEF elsewhere, click
<1>2. CASE \E r \in Own : settle(r)
  BY <1>2 DEF settle
<1>3. CASE Load \/ reload
  BY <1>3 DEF Load, reload, get_submission, get_latest_decision, get_quote,
              get_binding, get_audit, done, read_fails
<1>4. CASE Handle
  BY <1>4 DEF Handle, Next
<1>5. CASE UNCHANGED all_vars
  BY <1>5 DEF all_vars
<1> QED
  BY <1>1, <1>2, <1>3, <1>4, <1>5 DEF DeskNext

\* Every step at the desk keeps the invariant of the workbench.
LEMMA DeskKeeps == IInv /\ [DeskNext]_all_vars => IInv'
BY BehindTheDesk, RefusedKeeps, Inductive

\* The workbench's invariant holds behind the desk too, whoever calls it with
\* whatever credentials: what a handler relies on does not depend on who is let in.
THEOREM DeskKeepsInvariant == DeskSpec => []IInv
<1>1. DeskInit => IInv
  BY Initially DEF DeskInit
<1> QED
  BY <1>1, DeskKeeps, PTL DEF DeskSpec

\* Nor does a refusal leave an entry, or an entry out: the audit log of the guarded
\* API holds exactly one entry per committed row.
THEOREM DeskAuditIsComplete == DeskSpec => []AuditTrailComplete
<1>1. DeskInit => AuditTrailComplete
  BY DEF DeskInit, Init, AuditTrailComplete
<1>2. ASSUME AuditTrailComplete, [DeskNext]_all_vars
      PROVE  AuditTrailComplete'
  <2>1. CASE UNCHANGED tables
    BY <1>2, <2>1 DEF tables, AuditTrailComplete
  <2> QED
    BY <1>2, <2>1, BehindTheDesk, TrailStep DEF Refuses
<1> QED
  BY <1>1, <1>2, PTL DEF DeskSpec

\* Through the desk, too, a file passes its milestones as UnderwritingFile says,
\* none skipped and none lost, whoever is refused meanwhile.
THEOREM DeskImplementsFile ==
    ASSUME Undisturbed PROVE DeskSpec => ImplementsFile
<1>1. DeskInit => FileInv
  BY Initially DEF DeskInit, Init, FileInv, QuotesPlaced
<1>2. DeskInit => File!Init
  BY DEF DeskInit, Init, File!Init
<1>3. ASSUME FileInv, [DeskNext]_all_vars
      PROVE  FileInv' /\ [File!Next]_(File!milestones)
  <2>1. CASE [Next]_vars
    BY <1>3, <2>1, FileInductive, TrailFrame, FileReceive, FileJudge, FilePrice,
       FileBind, FileCover
  <2>2. CASE \E r \in Requests, status \in {"401", "403"} : Refuses(r, status)
    <3>1. IInv'
      BY <1>3, DeskKeeps DEF FileInv
    <3>2. UNCHANGED <<submission, decision, quote, binding, policy>>
      BY <2>2 DEF Refuses, tables, pas
    <3> QED
      BY <1>3, <3>1, <3>2 DEF FileInv, QuotesPlaced, File!milestones
  <2> QED
    BY <1>3, <2>1, <2>2, BehindTheDesk
<1> QED
  BY <1>1, <1>2, <1>3, PTL DEF DeskSpec, ImplementsFile, File!Spec

-----------------------------------------------------------------------------
\* The page and the tables.

\* A click that was answered, and may have worked, has not yet reached the page.
stale == acting # Nobody /\ pc[acting] \in {"200", "201", "500"}

\* What the page has read of the file is what the tables hold.
Agrees ==
    page \in {"details", "shown"} =>
        /\ \/ decisions_of(file) = {} /\ decided.outcome = "unassessed"
           \/ \E d \in decision : latest_decision(d, file) /\ decided.outcome = d.outcome
        /\ "quote" \notin todo => (quoted = NoQuote <=> quotes_of(file) = {})
        /\ "binding" \notin todo => (bound <=> is_bound(file))

\* One click at a time, on a page that has been read; whatever else goes on, the
\* page may have been read too early for; and a page that was not agrees with the
\* tables, but for the answer to the click.
FreshInv ==
    /\ acting # Nobody => acting \in Own /\ page \in {"form", "shown"}
    /\ under_way \ {acting} \subseteq unseen
    /\ page = "shown" => todo = {}
    /\ unseen = {} /\ ~ stale => Agrees

\* What the page was read from.
file_rows == <<decision, quote, binding>>

\* A handler's later step: it is under way, and changes what a page reads only
\* with its answer.
Works(r) ==
    /\ pc[r] \notin {"idle"} \union Answers
    /\ \E step : /\ step # "idle" /\ goto(r, step)
                 /\ step \in {"200", "500"} \/ UNCHANGED file_rows

\* Every later step of a handler is such a step.
LEMMA HandlersWork ==
    ASSUME NEW r \in Addressed,
           \/ r \in Assesses /\ AssessStep(r)
           \/ r \in Quotes /\ QuoteStep(r)
           \/ r \in Binds /\ (BindStep(r) \/ pas_timeout(r))
           \/ abort(r)
    PROVE  Works(r)
<1> USE DEF Works, file_rows, tables, Answers
<1>1. ASSUME NEW x, assess_ruleset(x) \/ flush(x) \/ assess_commit(x) PROVE Works(x)
  BY <1>1 DEF assess_ruleset, read_current, flush, assess_commit, committed
<1>2. ASSUME NEW x, quote_decision(x) \/ quote_rate_table(x) \/ quote_commit(x)
      PROVE  Works(x)
  BY <1>2 DEF quote_decision, quote_rate_table, read_current, quote_commit, committed
<1>3. ASSUME NEW x, bind_decision(x) \/ bind_quote(x) \/ create_policy(x)
                     \/ resolve_existing(x) \/ submit(x) \/ activate(x)
      PROVE  Works(x)
  BY <1>3 DEF bind_decision, bind_quote, create_policy, resolve_existing, submit, activate
<1>4. ASSUME NEW x, publish_best_effort(x) \/ insert_binding(x) \/ pas_timeout(x) \/ abort(x)
      PROVE  Works(x)
  BY <1>4 DEF publish_best_effort, insert_binding, pas_timeout, abort
<1>5. ASSUME NEW x, bind_commit(x) PROVE Works(x)
  BY <1>5 DEF bind_commit, committed
<1> QED
  BY <1>1, <1>2, <1>3, <1>4, <1>5 DEF AssessStep, QuoteStep, BindStep

\* A later step of the click's own request leaves the page as true as it was, or
\* stale; any other's was under way when the page was read, or since.
LEMMA WorkKeepsFresh ==
    ASSUME TypeOK, FreshInv, NEW r \in Requests, Works(r), UNCHANGED desk_vars
    PROVE  FreshInv'
<1> USE DEF desk_vars, reads
<1>1. PICK step : /\ step # "idle" /\ pc' = [pc EXCEPT ![r] = step]
                  /\ step \in {"200", "500"} \/ UNCHANGED file_rows
  BY DEF Works, goto
<1>2. pc'[r] = step /\ \A x \in Requests \ {r} : pc'[x] = pc[x]
  BY <1>1 DEF TypeOK
<1>3. r \in under_way
  BY DEF Works, under_way
<1>4. under_way' \subseteq under_way
  BY <1>2, <1>3 DEF under_way
<1>5. ASSUME unseen' = {}, ~ stale' PROVE Agrees'
  <2>1. acting = r /\ r # Nobody
    BY <1>3, <1>5, DeskAssumption DEF FreshInv
  <2>2. ~ stale
    BY <2>1 DEF stale, Works, Answers
  <2>3. UNCHANGED file_rows
    BY <1>1, <1>2, <1>5, <2>1 DEF stale
  <2> QED
    BY <1>5, <2>2, <2>3 DEF FreshInv, Agrees, file_rows, decisions_of, latest_decision,
                            quotes_of, is_bound
<1> QED
  BY <1>4, <1>5 DEF FreshInv

\* Sending a request leaves what the page was read from as it is.
LEMMA SendMoves ==
    ASSUME TypeOK, NEW r \in Requests, send(r)
    PROVE  /\ pc[r] = "idle" /\ pc'[r] # "idle"
           /\ \A x \in Requests \ {r} : pc'[x] = pc[x]
           /\ UNCHANGED file_rows
<1> USE DEF tables, file_rows
<1>1. ASSUME NEW begin, enter(r, begin),
             begin => /\ \E step : step # "idle" /\ goto(r, step)
                      /\ UNCHANGED file_rows
      PROVE  /\ pc[r] = "idle" /\ \E step : step # "idle" /\ goto(r, step)
             /\ UNCHANGED file_rows
  <2>1. PICK c \in credentials[r], lapsed \in BOOLEAN :
          LET verdict == require_scope(c, "underwriting:write", lapsed)
          IN  IF verdict = "ok" THEN begin
              ELSE /\ goto(r, verdict)
                   /\ UNCHANGED <<tables, versions, pas, delivered, time, locals, actor>>
    BY <1>1 DEF enter
  <2>2. require_scope(c, "underwriting:write", lapsed) # "idle"
    BY DEF require_scope
  <2> QED
    BY <1>1, <2>1, <2>2 DEF enter
<1>2. create_submission(r) => /\ \E step : step # "idle" /\ goto(r, step)
                              /\ UNCHANGED file_rows
  BY DEF create_submission, committed
<1>3. assess_start(r) \/ quote_start(r) =>
        /\ \E step : step # "idle" /\ goto(r, step)
        /\ UNCHANGED file_rows
  BY DEF assess_start, quote_start, guarded
<1>4. bind_start(r) => /\ \E step : step # "idle" /\ goto(r, step)
                       /\ UNCHANGED file_rows
  BY DEF bind_start
<1>5. /\ pc[r] = "idle" /\ \E step : step # "idle" /\ goto(r, step)
      /\ UNCHANGED file_rows
  BY <1>1, <1>2, <1>3, <1>4 DEF send
<1> QED
  BY <1>5 DEF goto, TypeOK

\* Nothing the page shows changes.
LEMMA SamePage ==
    ASSUME FreshInv, UNCHANGED <<vars, desk_vars>>
    PROVE  FreshInv'
BY DEF vars, tables, locals, desk_vars, reads, FreshInv, under_way, stale, Agrees,
       decisions_of, latest_decision, quotes_of, is_bound

\* A click starts one request, on a page that is as true as it was.
LEMMA ClickKeepsFresh == ASSUME TypeOK, FreshInv, click PROVE FreshInv'
<1>1. PICK r \in Own : offered(r) /\ send(r) /\ acting' = r
  BY DEF click
<1>2. acting = Nobody /\ UNCHANGED <<page, file, todo, reads, unseen>>
  BY DEF click
<1>3. r \in Requests /\ r # Nobody /\ Nobody \notin Requests
  BY DeskAssumption
<1>4. /\ pc[r] = "idle" /\ \A x \in Requests \ {r} : pc'[x] = pc[x]
      /\ UNCHANGED file_rows
  BY <1>1, <1>3, SendMoves
<1>5. page \in {"form", "shown"}
  BY <1>1 DEF offered
<1>6. under_way' \ {r} \subseteq unseen'
  BY <1>2, <1>3, <1>4 DEF FreshInv, under_way
<1>7. ASSUME unseen' = {} PROVE Agrees'
  BY <1>2, <1>4, <1>7 DEF FreshInv, stale, Agrees, reads, file_rows, decisions_of,
                          latest_decision, quotes_of, is_bound
<1> QED
  BY <1>1, <1>2, <1>5, <1>6, <1>7 DEF FreshInv

\* What another client's request will do, the page may have been read too early for.
LEMMA ElsewhereKeepsFresh == ASSUME TypeOK, FreshInv, elsewhere PROVE FreshInv'
<1>1. PICK r \in Requests \ Own :
        send(r) /\ unseen' = unseen \union ({r} \intersect under_way')
  BY DEF elsewhere
<1>2. UNCHANGED <<page, file, todo, reads, acting>>
  BY DEF elsewhere
<1>3. \A x \in Requests \ {r} : pc'[x] = pc[x]
  BY <1>1, SendMoves
<1>4. UNCHANGED file_rows
  BY <1>1, SendMoves
<1>5. under_way' \ {acting'} \subseteq unseen'
  BY <1>1, <1>2, <1>3 DEF FreshInv, under_way
<1>6. acting # Nobody => acting \in Requests \ {r}
  BY <1>1, DeskAssumption DEF FreshInv
<1>7. stale' <=> stale
  BY <1>2, <1>3, <1>6 DEF stale
<1>8. unseen' = {} => unseen = {}
  BY <1>1
<1>9. unseen' = {} /\ ~ stale' => Agrees'
  BY <1>2, <1>4, <1>7, <1>8 DEF FreshInv, Agrees, reads, file_rows, decisions_of,
                                latest_decision, quotes_of, is_bound
<1> QED
  BY <1>2, <1>5, <1>9 DEF FreshInv

\* A page read from the start has read nothing yet, and has everything under way
\* to miss.
LEMMA OpenIsFresh ==
    ASSUME NEW s, open(s), acting' = Nobody, pc' = pc
    PROVE  FreshInv'
BY DEF open, FreshInv, under_way, stale, Agrees

\* An action that worked makes the page read again; one that was refused has
\* changed nothing that it shows; one that failed may have.
LEMMA SettleKeepsFresh ==
    ASSUME FreshInv, NEW r \in Own, settle(r)
    PROVE  FreshInv'
<1> USE DEF settle, vars, tables, locals, reads
<1>1. acting = r /\ acting' = Nobody /\ pc[r] \in Answers /\ pc' = pc
  OBVIOUS
<1>2. CASE pc[r] \in {"200", "201"}
  <2>1. \E s : open(s)
    BY <1>2
  <2> QED
    BY <1>1, <2>1, OpenIsFresh
<1>3. CASE pc[r] \notin {"200", "201"}
  <2>1. UNCHANGED <<page, file, todo, reads, decision, quote, binding>>
    BY <1>3
  <2>2. unseen' = IF pc[r] = "500" THEN unseen \union {r} ELSE unseen
    BY <1>3
  <2>3. under_way' \ {acting'} \subseteq unseen'
    BY <1>1, <2>2 DEF FreshInv, under_way
  <2>4. unseen' = {} => unseen = {} /\ ~ stale
    BY <1>1, <1>3, <2>2 DEF stale
  <2>5. unseen' = {} => Agrees'
    BY <2>1, <2>4 DEF FreshInv, Agrees, decisions_of, latest_decision, quotes_of, is_bound
  <2> QED
    BY <1>1, <2>1, <2>3, <2>5 DEF FreshInv
<1> QED
  BY <1>2, <1>3

\* A page that loads reads what the tables hold.
LEMMA LoadKeepsFresh == ASSUME IInv, FreshInv, Load PROVE FreshInv'
<1> USE DEF vars, tables, locals, reads
<1>1. TypeOK
  BY DEF IInv, CoreInv
<1>2. UNCHANGED <<decision, quote, binding, pc, file, acting, unseen>>
  BY DEF Load, get_submission, get_latest_decision, get_quote, get_binding, get_audit,
         done, read_fails
<1>3. page \notin {"form", "shown"}
  BY DEF Load, get_submission, get_latest_decision, get_quote, get_binding, get_audit,
         done, read_fails
<1>4. acting = Nobody
  BY <1>3 DEF FreshInv
<1>5. unseen = {} => Agrees
  BY <1>4 DEF FreshInv, stale
<1>6. ASSUME (page' = "shown" => todo' = {}), unseen = {} => Agrees'
      PROVE  FreshInv'
  BY <1>2, <1>4, <1>6 DEF FreshInv, under_way
<1>7. CASE get_submission \/ read_fails
  <2>1. page' \in {"decision", "missing", "error"}
    BY <1>7 DEF get_submission, read_fails
  <2> QED
    BY <1>6, <2>1 DEF Agrees
<1>8. CASE get_latest_decision
  <2>1. page' = "details" /\ todo' = {"quote", "binding", "audit"}
    BY <1>8 DEF get_latest_decision
  <2>2. \/ decisions_of(file) = {} /\ decided'.outcome = "unassessed"
        \/ \E d \in decision : latest_decision(d, file) /\ decided'.outcome = d.outcome
    BY <1>8 DEF get_latest_decision, NoDecision
  <2>3. Agrees'
    BY <1>2, <2>1, <2>2 DEF Agrees, decisions_of, latest_decision
  <2> QED
    BY <1>6, <2>1, <2>3
<1>9. ASSUME NEW get, done(get),
             get = "quote" => (quoted' = NoQuote <=> quotes_of(file) = {}),
             get = "binding" => (bound' <=> is_bound(file)),
             get # "quote" => quoted' = quoted, get # "binding" => bound' = bound
      PROVE  FreshInv'
  <2>1. /\ page = "details" /\ todo' = todo \ {get} /\ decided' = decided
        /\ page' = "shown" => todo' = {}
    BY <1>9 DEF done
  <2>2. ASSUME unseen = {} PROVE Agrees'
    BY <1>2, <1>5, <1>9, <2>1, <2>2 DEF Agrees, decisions_of, latest_decision, quotes_of,
                                        is_bound
  <2> QED
    BY <1>6, <2>1, <2>2
<1>10. CASE get_quote
  <2>1. \A q \in quote : q.id # NoQuote
    BY <1>1, RequestAssumption DEF TypeOK, QuoteRows, NoQuote
  <2>2. quoted' = NoQuote <=> quotes_of(file) = {}
    BY <1>10, <2>1 DEF get_quote, latest_quote, quotes_of
  <2> QED
    BY <1>9, <1>10, <2>2 DEF get_quote
<1>11. CASE get_binding
  BY <1>9, <1>11 DEF get_binding
<1>12. CASE get_audit
  BY <1>9, <1>12 DEF get_audit
<1> QED
  BY <1>7, <1>8, <1>10, <1>11, <1>12 DEF Load

\* Every step of the desk keeps FreshInv.
LEMMA FreshStep == IInv /\ FreshInv /\ [DeskNext]_all_vars => FreshInv'
<1> SUFFICES ASSUME IInv, FreshInv, [DeskNext]_all_vars PROVE FreshInv'
  OBVIOUS
<1>0. TypeOK
  BY DEF IInv, CoreInv
<1>1. CASE elsewhere \/ click
  BY <1>0, <1>1, ClickKeepsFresh, ElsewhereKeepsFresh
<1>2. CASE \E r \in Own : settle(r)
  BY <1>2, SettleKeepsFresh
<1>3. CASE Load
  BY <1>3, LoadKeepsFresh
<1>4. CASE reload
  <2>1. acting' = Nobody /\ UNCHANGED <<pc, decision, quote, binding, file>>
    BY <1>4 DEF reload, open, vars, tables, locals
  <2>2. CASE open(file)
    BY <2>1, <2>2, OpenIsFresh
  <2>3. CASE page = "form" /\ unseen' = under_way /\ UNCHANGED <<page, file, todo, reads>>
    BY <2>1, <2>3 DEF FreshInv, Agrees, under_way, reads
  <2> QED
    BY <1>4, <2>2, <2>3 DEF reload
<1>5. CASE Handle
  <2>1. UNCHANGED desk_vars
    BY <1>5 DEF Handle
  <2>2. CASE \E m \in late : pas_late(m)
    BY <2>1, <2>2 DEF pas_late, tables, locals, desk_vars, reads, FreshInv, stale,
                      under_way, Agrees, decisions_of, latest_decision, quotes_of, is_bound
  <2>3. CASE \E r \in Addressed : Works(r)
    BY <1>0, <2>1, <2>3, WorkKeepsFresh DEF Requests
  <2> QED
    BY <1>5, <2>2, <2>3, HandlersWork DEF Handle, Addressed
<1>6. CASE UNCHANGED all_vars
  BY <1>6, SamePage DEF all_vars
<1> QED
  BY <1>1, <1>2, <1>3, <1>4, <1>5, <1>6 DEF DeskNext

\* A page that agrees with the tables offers what the guards allow.
LEMMA FreshButtons == ASSUME TypeOK, FreshInv PROVE ButtonsMatchGuards
<1> SUFFICES ASSUME page = "shown", acting = Nobody, unseen = {}, untied
             PROVE  /\ canAssess <=> ~ is_bound(file)
                    /\ canQuote <=>
                          /\ ~ is_bound(file)
                          /\ \E d \in decision : latest_decision(d, file) /\ d.outcome # "decline"
                    /\ canBind <=>
                          /\ ~ is_bound(file) /\ quotes_of(file) # {}
                          /\ \E d \in decision : latest_decision(d, file) /\ d.outcome = "accept"
  BY DEF ButtonsMatchGuards
<1>1. /\ \/ decisions_of(file) = {} /\ decided.outcome = "unassessed"
         \/ \E d \in decision : latest_decision(d, file) /\ decided.outcome = d.outcome
      /\ quoted = NoQuote <=> quotes_of(file) = {}
      /\ bound <=> is_bound(file)
  BY DEF FreshInv, stale, Agrees
<1>2. \A d \in decision : d.outcome \in Outcome /\ d.decided_at \in Nat
  BY DEF TypeOK, Decisions
<1>3. ASSUME NEW d, NEW e, latest_decision(d, file), latest_decision(e, file)
      PROVE  d = e
  <2>1. d \in decision /\ e \in decision /\ d.submission_id = e.submission_id
    BY <1>3 DEF latest_decision, decisions_of
  <2>2. d.decided_at <= e.decided_at /\ e.decided_at <= d.decided_at
    BY <1>3 DEF latest_decision
  <2>3. d.decided_at = e.decided_at
    BY <1>2, <2>1, <2>2
  <2> QED
    BY <1>3, <2>3 DEF latest_decision, untied
<1>4. ASSUME NEW good, good \in Outcome
      PROVE  decided.outcome = good <=>
                \E d \in decision : latest_decision(d, file) /\ d.outcome = good
  BY <1>1, <1>3, <1>4 DEF latest_decision, Outcome
<1>5. decided.outcome \in {"unassessed", "accept", "refer", "decline"}
  BY <1>1, <1>2 DEF Outcome
<1>6. decided.outcome \notin {"unassessed", "decline"} <=>
        \E d \in decision : latest_decision(d, file) /\ d.outcome # "decline"
  BY <1>2, <1>4, <1>5 DEF Outcome
<1>7. decided.outcome = "accept" <=>
        \E d \in decision : latest_decision(d, file) /\ d.outcome = "accept"
  BY <1>4 DEF Outcome
<1> QED
  BY <1>1, <1>6, <1>7 DEF canAssess, canQuote, canBind

\* For any file, any requests of any clients and every interleaving of reads, clicks,
\* reloads, answers and failures: a page that was read when every request whose end
\* it could not see had been answered offers exactly the actions that the API would
\* carry out.
THEOREM ButtonsAreTruthful == DeskSpec => []ButtonsMatchGuards
<1>1. DeskInit => FreshInv
  BY DEF DeskInit, Init, FreshInv, under_way, Agrees
<1>2. IInv => TypeOK
  BY DEF IInv, CoreInv
<1>3. DeskInit => IInv
  BY Initially DEF DeskInit
<1> QED
  BY <1>1, <1>2, <1>3, DeskKeeps, FreshStep, FreshButtons, PTL DEF DeskSpec
=============================================================================
