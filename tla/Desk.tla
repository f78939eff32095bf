-------------------------------- MODULE Desk --------------------------------
(***************************************************************************)
(* An underwriter's browser, the BFF that serves it and the API behind the   *)
(* BFF, with other API clients at work on the same file.                    *)
(*                                                                         *)
(* The detail page reads the submission, its latest decision, then quote,    *)
(* binding and audit trail side by side; it offers the buttons that what it  *)
(* has read allows, and reads everything again after an action that worked.  *)
(* The user may reload it at any time: whatever action runs then goes on, and *)
(* the new page does not hear of its result.                                *)
(***************************************************************************)
EXTENDS Workbench, Access

CONSTANTS
    Own,         \* the requests that the underwriter's clicks send
    credentials, \* what each request may carry
    bff,         \* the BFF's own credential
    Nobody       \* no request under way, no page open

ASSUME DeskAssumption ==
    /\ Own \subseteq Requests /\ Nobody \notin Requests
    /\ bff \in Credential
    /\ credentials \in [Requests -> SUBSET Credential]
    /\ \A r \in Own : credentials[r] = {bff}

VARIABLES
    caller,  \* what each request carried
    actor,   \* whom its rows name
    page,    \* what the browser is at
    file,    \* the submission whose page it is
    todo,    \* reads under way side by side
    decided, quoted, bound,  \* what the page has read
    acting,  \* the request of the click at hand
    unseen   \* history: requests that the page may have been read too early for

reads == <<decided, quoted, bound>>
desk_vars == <<page, file, todo, reads, acting, unseen>>
callers == <<caller, actor>>
all_vars == <<vars, callers, desk_vars>>

NoDecision == [outcome |-> "unassessed", decided_at |-> 0]

-----------------------------------------------------------------------------
\* The scope dependency, then the actor, then the handler's first step; the
\* token is decoded twice and refused with 401 whenever it lapses.
enter(r, begin) ==
    /\ pc[r] = "idle"
    /\ \E c \in credentials[r], lapsed \in BOOLEAN :
          LET verdict == require_scope(c, "underwriting:write", lapsed)
          IN  /\ caller' = [caller EXCEPT ![r] = c]
              /\ IF verdict = "ok"
                   THEN begin /\ actor' = [actor EXCEPT ![r] = current_actor(c)]
                   ELSE /\ goto(r, verdict)
                        /\ UNCHANGED <<tables, versions, pas, delivered, time,
                                        locals, actor>>

send(r) ==
    \/ r \in Creates /\ enter(r, create_submission(r))
    \/ r \in Assesses /\ enter(r, assess_start(r))
    \/ r \in Quotes /\ enter(r, quote_start(r))
    \/ r \in Binds /\ enter(r, bind_start(r))

\* Let in and not yet answered.
under_way == {r \in Requests : pc[r] \notin {"idle"} \union Answers}

\* A request of another API client, which may go on after the page was read.
elsewhere ==
    /\ \E r \in Requests \ Own :
          send(r) /\ unseen' = unseen \union ({r} \intersect under_way')
    /\ UNCHANGED <<page, file, todo, reads, acting>>

-----------------------------------------------------------------------------
\* The page of submission s is read from the start.
open(s) ==
    /\ page' = "submission" /\ file' = s /\ todo' = {}
    /\ decided' = NoDecision /\ quoted' = NoQuote /\ bound' = FALSE
    /\ unseen' = under_way

\* A GET of the BFF: refused, failed, or answered.
answered ==
    \E lapsed \in BOOLEAN :
        require_scope(bff, "underwriting:read", lapsed) = "ok"

refused ==
    \E lapsed \in BOOLEAN :
        require_scope(bff, "underwriting:read", lapsed) # "ok"

\* GET /submissions/{id}, first half: notFound() on 404.
get_submission ==
    /\ page = "submission" /\ answered
    /\ page' = IF known(file) THEN "decision" ELSE "missing"
    /\ UNCHANGED <<vars, callers, file, todo, reads, acting, unseen>>

\* Second half.
get_latest_decision ==
    /\ page = "decision"
    /\ IF decisions_of(file) = {}
         THEN decided' = NoDecision
         ELSE \E d \in decision :
                 /\ latest_decision(d, file)
                 /\ decided' = [outcome |-> d.outcome, decided_at |-> d.decided_at]
    /\ page' = "details" /\ todo' = {"quote", "binding", "audit"}
    /\ UNCHANGED <<vars, callers, file, quoted, bound, acting, unseen>>

\* One of the three reads that go on side by side is done.
done(get) ==
    /\ page = "details" /\ get \in todo
    /\ todo' = todo \ {get}
    /\ page' = IF todo' = {} THEN "shown" ELSE "details"
    /\ UNCHANGED <<vars, callers, file, decided, acting, unseen>>

\* orNull: 404 counts as none.
get_quote ==
    /\ answered /\ done("quote")
    /\ IF quotes_of(file) = {}
         THEN quoted' = NoQuote
         ELSE \E q \in quote : latest_quote(q, file) /\ quoted' = q.id
    /\ UNCHANGED bound

get_binding ==
    /\ answered /\ done("binding")
    /\ bound' = is_bound(file)
    /\ UNCHANGED quoted

\* The audit trail is shown and nothing depends on it; a failure shows none.
get_audit == done("audit") /\ UNCHANGED <<quoted, bound>>

\* Any other failed read ends on the error page.
read_fails ==
    /\ refused
    /\ \/ page = "submission"
       \/ page = "details" /\ todo \intersect {"quote", "binding"} # {}
    /\ page' = "error" /\ todo' = {}
    /\ UNCHANGED <<vars, callers, file, reads, acting, unseen>>

-----------------------------------------------------------------------------
\* The buttons of the page.
canAssess == ~ bound

canQuote == ~ bound /\ decided.outcome \notin {"unassessed", "decline"}

\* Slip: whatever may be quoted may be bound.
SlipBindQuoted == canQuote /\ quoted # NoQuote

canBind == ~ bound /\ decided.outcome = "accept" /\ quoted # NoQuote

\* The form's action and the three buttons; one action at a time.
offered(r) ==
    \/ page = "form" /\ r \in Creates
    \/ page = "shown" /\ r \in Addressed /\ target[r] = file /\
          \/ r \in Assesses /\ canAssess
          \/ r \in Quotes /\ canQuote
          \/ r \in Binds /\ canBind

click ==
    /\ acting = Nobody
    /\ \E r \in Own : offered(r) /\ send(r) /\ acting' = r
    /\ UNCHANGED <<page, file, todo, reads, unseen>>


\* The server action's result: redirect to the new submission's page, read the
\* page again, or show the error on the page as it is.  A 500 does not tell
\* whether the rows were committed.
settle(r) ==
    /\ acting = r /\ pc[r] \in Answers
    /\ acting' = Nobody
    /\ CASE pc[r] = "201" -> open(r)
         [] pc[r] = "200" -> open(file)
         [] OTHER -> /\ unseen' = IF pc[r] = "500" THEN unseen \union {r} ELSE unseen
                     /\ UNCHANGED <<page, file, todo, reads>>
    /\ UNCHANGED <<vars, callers>>

\* The browser's own reload, which no code holds back: neither while a page is
\* being read nor while an action runs, whose handler goes on without it.
reload ==
    /\ acting' = Nobody
    /\ \/ page # "form" /\ open(file)
       \/ page = "form" /\ unseen' = under_way /\ UNCHANGED <<page, file, todo, reads>>
    /\ UNCHANGED <<vars, callers>>

-----------------------------------------------------------------------------
DeskInit ==
    /\ Init
    /\ caller = [r \in Requests |-> bff]
    /\ actor = [r \in Requests |-> ""]
    /\ page = "form" /\ file = Nobody /\ todo = {}
    /\ decided = NoDecision /\ quoted = NoQuote /\ bound = FALSE
    /\ acting = Nobody /\ unseen = {}

Load ==
    \/ get_submission \/ get_latest_decision
    \/ get_quote \/ get_binding \/ get_audit \/ read_fails

Handle ==
    /\ \/ \E a \in Assesses : AssessStep(a)
       \/ \E q \in Quotes : QuoteStep(q)
       \/ \E b \in Binds : BindStep(b) \/ pas_timeout(b)
       \/ \E r \in Addressed : abort(r)
       \/ \E m \in late : pas_late(m)
    /\ UNCHANGED <<callers, desk_vars>>

DeskNext ==
    \/ elsewhere \/ click \/ \E r \in Own : settle(r)
    \/ Load \/ reload \/ Handle

DeskSpec == DeskInit /\ [][DeskNext]_all_vars

\* A page that loads gets its answers, an action its result.  Nothing makes a
\* user click or reload, nor stop reloading.
DeskFairSpec ==
    /\ DeskSpec
    /\ WF_all_vars(Load)
    /\ \A r \in Own : WF_all_vars(settle(r))

-----------------------------------------------------------------------------
\* The buttons and the API's guards agree: a page that was read when every request
\* whose end it could not see had been answered offers exactly the actions that
\* the API would carry out, whatever was done before, by whom, and however it was
\* interrupted.  One that was read earlier, say by a reload while an action runs,
\* may not.  Decisions that tie have no order (latest_decision).
untied ==
    \A d, e \in decisions_of(file) : d # e => d.decided_at # e.decided_at

ButtonsMatchGuards ==
    page = "shown" /\ acting = Nobody /\ unseen = {} /\ untied =>
        /\ canAssess <=> ~ is_bound(file)
        /\ canQuote <=>
              /\ ~ is_bound(file)
              /\ \E d \in decision : latest_decision(d, file) /\ d.outcome # "decline"
        /\ canBind <=>
              /\ ~ is_bound(file) /\ quotes_of(file) # {}
              /\ \E d \in decision : latest_decision(d, file) /\ d.outcome = "accept"

\* The page is of the file that a request created or is addressed to.
at_file(r) == file = IF r \in Creates THEN r ELSE target[r]

\* The page shows the row that a request made, or a later one.
shows(r) ==
    CASE r \in Assesses -> \A d \in decision : d.id = r => d.decided_at <= decided.decided_at
      [] r \in Quotes -> \A q, p \in quote :
                            q.id = r /\ p.id = quoted => q.created_at <= p.created_at
      [] r \in Binds -> bound
      [] OTHER -> file = r


\* Whatever is in the audit log was done for a caller who held the write scope,
\* and names that caller; a refused request has left nothing, here or in the
\* outside systems.
WritesAreAccountable ==
    /\ \A e \in audit_entry :
          LET c == caller[e.id]
          IN  AuthOn =>
                 /\ c.bearer /\ c.sound /\ "underwriting:write" \in c.scope
                 /\ actor[e.id] \in {c.identity[i] : i \in DOMAIN c.identity} \union {"unknown"}
    /\ \A r \in {x \in Requests : pc[x] \in {"401", "403"}} :
          /\ \A e \in audit_entry : e.id # r
          /\ r \in Binds => picked[r] = NoQuote /\ delivered[r] = 0
=============================================================================
