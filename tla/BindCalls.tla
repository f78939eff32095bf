----------------------------- MODULE BindCalls ------------------------------
(***************************************************************************)
(* The calls that one bind makes, in detail: for each PAS call a token, the  *)
(* request on its way, the PAS's answer on its way back; then the attempts   *)
(* to publish.  Workbench takes each of them as one step; this module shows  *)
(* that the detailed bind implements those steps, whatever else goes on in   *)
(* the PAS meanwhile.                                                       *)
(*                                                                         *)
(* The bind starts where its guards have passed.  Earlier binds of the same  *)
(* quote may have failed at any call and left one on its way.               *)
(***************************************************************************)
EXTENDS Workbench, TokenProvider

CONSTANTS
    self,   \* the bind
    NoRef   \* no policy has been found yet

ASSUME SelfAssumption == Binds = {self} /\ NoRef \notin PolicyNumbers

VARIABLES
    phase,       \* where the PAS call at hand is
    reply, page, \* what the PAS answered; the policies it listed
    ref,         \* PolicyRef: the policy that submit and activate address
    attempt, stage, wire, copies

INSTANCE Publisher

publisher == <<attempt, stage, wire, copies>>
call_vars == <<phase, reply, page, ref>>
calls_vars == <<vars, token_vars, call_vars, publisher>>

Calls == {"create_policy", "resolve", "submit", "activate"}

existing == {n \in PolicyNumbers : exists(policy[n])}

-----------------------------------------------------------------------------
\* _headers(), evaluated before the request goes out.
headers ==
    /\ pc[self] \in Calls /\ phase = "ready"
    /\ \/ token_cached /\ phase' = "sent"
       \/ token_asked /\ phase' = "asking"
    /\ UNCHANGED <<vars, reply, page, ref, publisher>>

token_answered ==
    /\ phase = "asking"
    /\ token_granted
    /\ phase' = "sent"
    /\ UNCHANGED <<vars, reply, page, ref, publisher>>

\* The request arrives, and the PAS verifies its token.
arrives(call) == pc[self] = call /\ phase = "sent" /\ monotonic < bearer

answers(answer) == phase' = "answered" /\ reply' = answer

pas_creates ==
    /\ arrives("create_policy")
    /\ policy' = [policy EXCEPT ![number(self)] = created(@, cover[self])]
    /\ answers(IF exists(policy[number(self)]) THEN "409" ELSE "201")
    /\ UNCHANGED <<tables, versions, late, delivered, time, pc, locals,
                   token_vars, page, ref, publisher>>

\* GET /v1/policies ignores the policy_number parameter and answers one page.
pas_lists ==
    /\ arrives("resolve")
    /\ page' \in {S \in SUBSET existing :
                     \/ Cardinality(S) = PageSize
                     \/ S = existing /\ Cardinality(S) < PageSize}
    /\ answers("200")
    /\ UNCHANGED <<vars, token_vars, ref, publisher>>

pas_moves ==
    /\ \/ /\ arrives("submit")
          /\ policy' = [policy EXCEPT ![ref] = submitted(@)]
       \/ /\ arrives("activate")
          /\ policy' = [policy EXCEPT ![ref] = activated(@)]
    /\ answers(IF policy' = policy THEN "409" ELSE "200")
    /\ UNCHANGED <<tables, versions, late, delivered, time, pc, locals,
                   token_vars, page, ref, publisher>>

\* The call at hand as the PAS may still apply it, once nobody waits for it.
on_its_way ==
    {[call |-> c, policy_number |-> IF c = "create_policy" THEN number(self) ELSE ref,
      day |-> cover[self]] : c \in {pc[self]} \ {"resolve"}}

\* A token past its expiry: the PAS answers 401 and does nothing.
pas_refuses ==
    /\ pc[self] \in Calls /\ phase = "sent" /\ monotonic >= bearer
    /\ answers("401")
    /\ UNCHANGED <<vars, token_vars, page, ref, publisher>>

\* An error status from the PAS or from a gateway that stopped waiting for it.
pas_errs ==
    /\ Faults
    /\ pc[self] \in Calls /\ phase = "sent"
    /\ answers("5xx")
    /\ late' \in {late, late \union on_its_way}
    /\ UNCHANGED <<tables, versions, policy, delivered, time, pc, locals,
                   token_vars, page, ref, publisher>>

-----------------------------------------------------------------------------
\* Where the answer to a call that changes the PAS takes the bind.  A 409 from
\* a transition is taken as success; any other status becomes a 500.
follow(call, answer) ==
    CASE call = "create_policy" /\ answer = "201" -> "submit"
      [] call = "create_policy" /\ answer = "409" -> "resolve"
      [] call = "submit" /\ answer \in {"200", "409"} -> "activate"
      [] call = "activate" /\ answer \in {"200", "409"} -> "publish"
      [] OTHER -> "500"

read_answer ==
    /\ pc[self] \in Calls \ {"resolve"} /\ phase = "answered"
    /\ phase' = "ready"
    /\ goto(self, follow(pc[self], reply))
    /\ ref' = IF reply = "201" THEN number(self) ELSE ref
    /\ UNCHANGED <<tables, versions, pas, delivered, time, locals, token_vars,
                   reply, page, publisher>>

\* Slip: the first item of the list is taken for the one asked for.
SlipFirstItem ==
    /\ pc[self] = "resolve" /\ phase = "answered"
    /\ phase' = "ready"
    /\ IF reply = "200"
         THEN ref' \in page /\ goto(self, "submit")
         ELSE ref' = ref /\ goto(self, "409")
    /\ UNCHANGED <<tables, versions, pas, delivered, time, locals, token_vars,
                   reply, page, publisher>>

\* Slip: the scan stops at the first item of the list.
SlipOneItem ==
    /\ pc[self] = "resolve" /\ phase = "answered"
    /\ phase' = "ready"
    /\ \/ /\ reply = "200" /\ number(self) \in page
          /\ ref' = number(self) /\ goto(self, "submit")
       \/ /\ reply = "200" => page # {number(self)}
          /\ ref' = ref /\ goto(self, "409")
    /\ UNCHANGED <<tables, versions, pas, delivered, time, locals, token_vars,
                   reply, page, publisher>>

\* The listed items are searched for the policy_number; an error status counts
\* as an empty list, and PolicyAlreadyExistsError becomes a 409.
read_list ==
    /\ pc[self] = "resolve" /\ phase = "answered"
    /\ phase' = "ready"
    /\ IF reply = "200" /\ number(self) \in page
         THEN ref' = number(self) /\ goto(self, "submit")
         ELSE ref' = ref /\ goto(self, "409")
    /\ UNCHANGED <<tables, versions, pas, delivered, time, locals, token_vars,
                   reply, page, publisher>>

\* The token endpoint fails or httpx gives up, or the process ends: nobody
\* catches it.  A request not yet applied may be lost or on its way.
call_fails ==
    /\ Faults
    /\ pc[self] \in Calls
    /\ \/ UNCHANGED late
       \/ phase = "sent" /\ late' = late \union on_its_way
    /\ goto(self, "500") /\ phase' = "ready"
    /\ UNCHANGED <<tables, versions, policy, delivered, time, locals,
                   token_vars, reply, page, ref, publisher>>

-----------------------------------------------------------------------------
\* One attempt after another; asyncio.run blocks the handler's thread.
publishing ==
    /\ pc[self] = "publish"
    /\ nats_connect \/ nats_publish \/ nats_receives \/ nats_flush \/ nats_drain
    /\ UNCHANGED <<vars, token_vars, call_vars>>

\* _publish_best_effort returns whether publish() did.
publish_ends ==
    /\ pc[self] = "publish" /\ stage \in {"returned", "raised"}
    /\ published' = [published EXCEPT ![self] = stage = "returned"]
    /\ delivered' = [delivered EXCEPT ![self] = copies]
    /\ goto(self, "insert")
    /\ UNCHANGED <<tables, versions, pas, time, version, picked, cover, stamp,
                   token_vars, call_vars, publisher>>

\* The process ends while it publishes; then the caller's connection breaks.
killed ==
    /\ Faults
    /\ pc[self] = "publish" /\ stage \notin {"returned", "raised"}
    /\ \E n \in copies .. copies + wire :
          delivered' = [delivered EXCEPT ![self] = n]
    /\ goto(self, "killed")
    /\ UNCHANGED <<tables, versions, pas, time, locals, token_vars, call_vars,
                   publisher>>

cut_off ==
    /\ pc[self] = "killed"
    /\ goto(self, "500")
    /\ UNCHANGED <<tables, versions, pas, delivered, time, locals, token_vars,
                   call_vars, publisher>>

\* The database half goes on as in Workbench.
recording ==
    /\ insert_binding(self) \/ bind_commit(self)
    /\ UNCHANGED <<token_vars, call_vars, publisher>>

\* What happens around the bind: time, calls given up earlier, a PAS user.
around ==
    \/ /\ pc[self] \in Calls
       /\ tick(phase # "ready")
       /\ UNCHANGED <<vars, call_vars, publisher>>
    \/ /\ pc[self] \notin Answers
       /\ (\E m \in late : pas_late(m)) \/ (\E n \in Cancellable : pas_cancel(n))
       /\ UNCHANGED <<token_vars, call_vars, publisher>>

-----------------------------------------------------------------------------
\* The call that would take a policy one step further.
pending(n, status) ==
    {[call |-> c, policy_number |-> n, day |-> 0] :
        c \in CASE status = "none" -> {"create_policy"}
                [] status = "draft" -> {"submit"}
                [] status = "submitted" -> {"activate"}
                [] OTHER -> {}}

\* An accepted risk with its quotes.  Earlier binds took the policy of the
\* latest quote to some status; policies of other quotes are active or not.
CallsInit ==
    /\ \E f \in Bodies \intersect SubmissionFacts :
          LET verdict == assess(stored(f), Rulesets[1])
          IN  /\ verdict.outcome = "accept"
              /\ submission = {[id |-> c, facts |-> stored(f)] : c \in Creates}
              /\ decision = {[id |-> a, submission_id |-> target[a],
                              outcome |-> "accept",
                              reason_codes |-> verdict.reason_codes,
                              appetite_version |-> 1, decided_at |-> 0] : a \in Assesses}
    /\ quote = {[id |-> q, submission_id |-> target[q], rate_table_version |-> 2,
                 created_at |-> q] : q \in Quotes}
    /\ \A q \in quote : was_accepted(q.submission_id)
    /\ binding = {}
    /\ audit_entry =
          {[id |-> c, submission_id |-> c, action |-> "submission.created",
            ruleset_version |-> 0] : c \in Creates}
          \union {[id |-> a, submission_id |-> target[a],
                   action |-> "submission.assessed", ruleset_version |-> 1] : a \in Assesses}
          \union {[id |-> q, submission_id |-> target[q], action |-> "quote",
                   ruleset_version |-> 2] : q \in Quotes}
    /\ appetite_ruleset = {1} /\ rate_table = {1, 2}
    /\ delivered = [b \in Binds |-> 0]
    /\ today = 0 /\ clock \in Quotes /\ \A q \in Quotes : q <= clock
    /\ pc = [r \in Requests |-> CASE r \in Creates -> "201"
                                  [] r \in Binds -> "create_policy"
                                  [] OTHER -> "200"]
    /\ version = [r \in Assesses \union Quotes |-> IF r \in Quotes THEN 2 ELSE 1]
    /\ \E q \in quote :
          latest_quote(q, target[self]) /\ picked = [b \in Binds |-> q.id]
    /\ cover = [b \in Binds |-> 0]
    /\ published = [b \in Binds |-> FALSE]
    /\ stamp = [r \in Addressed |-> IF r \in Quotes THEN r ELSE 0]
    /\ \E status \in PolicyStatus, active \in SUBSET PolicyNumbers :
          /\ policy = [n \in PolicyNumbers |->
                [status |-> IF n = number(self) THEN status
                            ELSE IF n \in active THEN "active" ELSE "none",
                 effective_date |-> 0]]
          /\ late \in SUBSET pending(number(self), status)
          /\ status = "terminated" => number(self) \in Cancellable
    /\ TokenInit
    /\ phase = "ready" /\ reply = "none" /\ page = {} /\ ref = NoRef
    /\ PublishInit

BindCallsStep ==
    \/ headers \/ token_answered
    \/ read_answer \/ read_list \/ call_fails
    \/ publishing \/ publish_ends \/ killed \/ cut_off \/ recording

PasAnswers == pas_creates \/ pas_lists \/ pas_moves \/ pas_refuses \/ pas_errs

CallsNext == BindCallsStep \/ PasAnswers \/ around

CallsSpec == CallsInit /\ [][CallsNext]_calls_vars

\* Every HTTP and NATS call of the bind has a timeout, so its thread goes on.
\* Nothing makes the PAS answer.
CallsFairSpec == CallsSpec /\ WF_calls_vars(BindCallsStep)

-----------------------------------------------------------------------------
\* The step of Workbench that the detailed bind is at: a call that changes the
\* PAS is taken when it is applied, a lookup when its answer is read, and a
\* killed publish as one that ended.
abstract_step ==
    IF pc[self] \in Calls \ {"resolve"} /\ phase = "answered"
      THEN follow(pc[self], reply)
    ELSE IF pc[self] = "killed" THEN "insert"
    ELSE pc[self]

Atomic == INSTANCE Workbench WITH pc <- [pc EXCEPT ![self] = abstract_step]

\* Token exchanges, requests and answers in flight, the search of the list and
\* the attempts to publish add up to the atomic steps that Workbench takes, in
\* every order, with every failure: in particular no call moves a policy that
\* is not the bind's own.
ImplementsWorkbenchSteps == [][Atomic!Next]_(Atomic!vars)

\* The skew does what token.py says, "avoid a race on a call that starts near
\* expiry": a call with a cached token that arrives before httpx gives up
\* finds the token still valid.
CachedTokenAccepted == phase = "sent" /\ reused => monotonic < bearer

\* The bind fails on an existing policy only when the lookup failed, or when
\* the PAS holds more policies than it lists on a page.
ConflictOnlyWhenUnlisted ==
    pc[self] = "409" => reply # "200" \/ Cardinality(existing) > PageSize

\* Publishing makes every effort it promises and claims no more: a bind goes on
\* with event_published only if NATS has the event, without it only after all
\* attempts, and no attempt sends the event twice.
EventEffort ==
    /\ copies <= attempt /\ attempt <= MaxAttempts
    /\ pc[self] \in {"insert", "commit", "200"} =>
          IF published[self] THEN delivered[self] > 0 ELSE attempt = MaxAttempts

\* The bind's caller gets an answer, however its calls fail.
BindEnds == <>(pc[self] \in Answers)
=============================================================================
