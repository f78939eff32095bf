--------------------------- MODULE BindCallsProofs --------------------------
(***************************************************************************)
(* Proofs about BindCalls: the token a call carries, the effort that         *)
(* publishing makes, when a bind gives up on an existing policy, that the     *)
(* detailed bind takes Workbench's steps, and that its bindings are backed.   *)
(***************************************************************************)
EXTENDS BindCalls, WorkbenchInv, AppetiteLemmas, FiniteSetTheorems, TLAPS

-----------------------------------------------------------------------------
\* The token.

\* The provider never believes its token to last longer than it does, and a
\* request that carries the cached one began with more than Skew to go.
TokenInv ==
    /\ monotonic \in Nat /\ _cached \in Nat /\ _expires_at \in Nat
    /\ bearer \in Nat /\ since \in Nat
    /\ since <= monotonic
    /\ _expires_at <= _cached
    /\ phase = "sent" => monotonic <= since + CallTimeout
    /\ phase = "sent" /\ reused => since + Skew < bearer

\* Steps that leave the token alone and send no request.
LEMMA TokenFrame ==
    ASSUME TokenInv, UNCHANGED token_vars, phase' = "sent" => phase = "sent"
    PROVE  TokenInv'
BY DEF TokenInv, token_vars, provider, credential

\* A request that carries the cached token begins with more than Skew to go.
LEMMA TokenHeaders == TokenInv /\ headers => TokenInv'
<1> SUFFICES ASSUME TokenInv, headers PROVE TokenInv'
  OBVIOUS
<1>1. CASE token_cached /\ phase' = "sent"
  BY <1>1, TimeAssumption DEF TokenInv, token_cached, fresh, provider
<1>2. CASE token_asked /\ phase' = "asking"
  BY <1>2 DEF TokenInv, token_asked, provider
<1> QED
  BY <1>1, <1>2 DEF headers

\* A granted token lasts at least as long as the provider believes.
LEMMA TokenGranted == TokenInv /\ token_answered => TokenInv'
<1> SUFFICES ASSUME TokenInv, token_answered PROVE TokenInv'
  OBVIOUS
<1>1. PICK life \in Lives, issued \in since .. monotonic :
        /\ _cached' = issued + life
        /\ \E ttl \in {life} \union {t \in {DefaultTtl} : t <= life} :
              _expires_at' = since + ttl
  BY DEF token_answered, token_granted
<1>2. PICK ttl \in {life} \union {t \in {DefaultTtl} : t <= life} :
        _expires_at' = since + ttl
  BY <1>1
<1>3. life \in Nat /\ ttl \in Nat /\ ttl <= life /\ issued \in Nat /\ since <= issued
  BY <1>2, TimeAssumption DEF TokenInv
<1>4. /\ bearer' = _cached' /\ reused' = FALSE /\ since' = monotonic
      /\ monotonic' = monotonic
  BY DEF token_answered, token_granted
<1> QED
  BY <1>1, <1>2, <1>3, <1>4, TimeAssumption DEF TokenInv

\* Time passes only as long as the request at hand may take.
LEMMA TokenTick == TokenInv /\ tick(phase # "ready") /\ phase' = phase => TokenInv'
BY TimeAssumption DEF TokenInv, tick, provider, credential

\* No other step touches the token.
LEMMA TokenStep == TokenInv /\ [CallsNext]_calls_vars => TokenInv'
<1> SUFFICES ASSUME TokenInv, [CallsNext]_calls_vars PROVE TokenInv'
  OBVIOUS
<1>1. CASE headers
  BY <1>1, TokenHeaders
<1>2. CASE token_answered
  BY <1>2, TokenGranted
<1>3. CASE read_answer \/ read_list \/ call_fails
  <2> UNCHANGED token_vars /\ phase' = "ready"
    BY <1>3 DEF read_answer, read_list, call_fails
  <2> QED
    BY TokenFrame
<1>4. CASE publishing \/ publish_ends \/ killed \/ cut_off \/ recording
  <2> UNCHANGED token_vars /\ UNCHANGED phase
    BY <1>4 DEF publishing, publish_ends, killed, cut_off, recording, call_vars
  <2> QED
    BY TokenFrame
<1>5. CASE PasAnswers
  <2> UNCHANGED token_vars /\ phase' = "answered"
    BY <1>5 DEF PasAnswers, pas_creates, pas_lists, pas_moves, pas_refuses,
                pas_errs, answers
  <2> QED
    BY TokenFrame
<1>6. CASE around
  <2>1. CASE tick(phase # "ready") /\ UNCHANGED call_vars
    BY <2>1, TokenTick DEF call_vars
  <2>2. CASE UNCHANGED token_vars /\ UNCHANGED call_vars
    BY <2>2, TokenFrame DEF call_vars
  <2> QED
    BY <1>6, <2>1, <2>2 DEF around
<1>7. CASE UNCHANGED calls_vars
  BY <1>7, TokenFrame DEF calls_vars, call_vars
<1> QED
  BY <1>1, <1>2, <1>3, <1>4, <1>5, <1>6, <1>7 DEF CallsNext, BindCallsStep

\* A call that carries the cached token and arrives before httpx gives up is
\* never refused as expired, for any skew that covers the timeout: the one
\* reader of ClientCredentialsTokenProvider.token can rely on its cache.
THEOREM CachedTokenIsAccepted == CallsSpec => []CachedTokenAccepted
<1>1. CallsInit => TokenInv
  BY DEF CallsInit, TokenInit, TokenInv, NoToken
<1>2. TokenInv => CachedTokenAccepted
  BY TimeAssumption DEF TokenInv, CachedTokenAccepted
<1> QED
  BY <1>1, <1>2, TokenStep, PTL DEF CallsSpec

-----------------------------------------------------------------------------
\* The event.

Positions == Steps \union {"killed"}

\* Each attempt sends the event at most once, and goes on to drain without an
\* exception only after NATS has received it.
PublisherInv ==
    /\ attempt \in 1 .. MaxAttempts /\ copies \in 0 .. attempt
    /\ stage \in Stages /\ wire \in 0 .. 1
    /\ stage \in {"connect", "publish"} => wire = 0 /\ copies < attempt
    /\ wire = 1 => copies < attempt
    /\ stage = "flush" /\ wire = 0 => copies > 0
    /\ stage \in {"drain", "returned"} => copies > 0
    /\ stage = "raised" => attempt = MaxAttempts

\* What the bind tells is what its publisher did.
EventInv ==
    /\ pc \in [Requests -> Positions]
    /\ published \in [Binds -> BOOLEAN] /\ delivered \in [Binds -> Nat]
    /\ PublisherInv
    /\ pc[self] \in {"insert", "commit", "200"} =>
          IF published[self] THEN delivered[self] > 0 ELSE attempt = MaxAttempts

\* The bind is a request.
LEMMA Self == self \in Binds /\ self \in Requests
BY SelfAssumption DEF Requests, Addressed

\* After a failed attempt comes the next one, or the end.
LEMMA AttemptFailed ==
    ASSUME PublisherInv, stage \in {"connect", "drain", "unwind"}, attempt_failed,
           wire' = 0, copies' \in 0 .. attempt
    PROVE  PublisherInv'
<1>1. MaxAttempts \in Nat \ {0}
  BY DataAssumption
<1> QED
  BY <1>1 DEF PublisherInv, attempt_failed, Stages

\* Each step of the publisher keeps count of attempts and copies.
LEMMA PublisherStep ==
    ASSUME PublisherInv,
           nats_connect \/ nats_publish \/ nats_receives \/ nats_flush \/ nats_drain
    PROVE  PublisherInv'
<1>1. CASE nats_connect
  <2>1. CASE attempt_failed
    BY <1>1, <2>1, AttemptFailed DEF nats_connect, PublisherInv
  <2>2. CASE stage' = "publish" /\ UNCHANGED attempt
    BY <1>1, <2>2 DEF nats_connect, PublisherInv, Stages
  <2> QED
    BY <1>1, <2>1, <2>2 DEF nats_connect
<1>2. CASE nats_publish
  BY <1>2 DEF nats_publish, PublisherInv, Stages
<1>3. CASE nats_receives
  BY <1>3 DEF nats_receives, PublisherInv, Stages
<1>4. CASE nats_flush
  BY <1>4 DEF nats_flush, PublisherInv, Stages
<1>5. CASE nats_drain
  <2>1. /\ wire' = 0 /\ copies' \in 0 .. attempt /\ copies <= copies'
        /\ stage = "drain" => copies > 0
    BY <1>5 DEF nats_drain, closed, PublisherInv
  <2>2. CASE attempt_failed
    BY <1>5, <2>1, <2>2, AttemptFailed DEF nats_drain
  <2>3. CASE stage = "drain" /\ stage' = "returned" /\ UNCHANGED attempt
    BY <2>1, <2>3 DEF PublisherInv, Stages
  <2> QED
    BY <1>5, <2>2, <2>3 DEF nats_drain
<1> QED
  BY <1>1, <1>2, <1>3, <1>4, <1>5

\* Steps before the event and after it.
LEMMA EventFrame ==
    ASSUME EventInv, UNCHANGED <<publisher, published, delivered>>,
           pc' \in [Requests -> Positions],
           pc'[self] \in {"insert", "commit", "200"} =>
              pc[self] \in {"insert", "commit", "200"}
    PROVE  EventInv'
BY DEF EventInv, PublisherInv, publisher

\* The bind goes where goto says.
LEMMA Goes ==
    ASSUME EventInv, NEW step \in Positions, goto(self, step)
    PROVE  pc' \in [Requests -> Positions] /\ pc'[self] = step
BY Self DEF EventInv, goto

\* The flag says what publish() did.
LEMMA PublishEnds == EventInv /\ publish_ends => EventInv'
<1> SUFFICES ASSUME EventInv, publish_ends PROVE EventInv'
  OBVIOUS
<1>1. pc' \in [Requests -> Positions]
  BY Goes DEF publish_ends, Positions, Steps, BindSteps
<1>2. PublisherInv'
  BY DEF EventInv, PublisherInv, publish_ends, publisher
<1>3. delivered' \in [Binds -> Nat] /\ delivered'[self] = copies
  BY Self DEF EventInv, PublisherInv, publish_ends
<1>4. CASE stage = "returned"
  <2>1. published' = [published EXCEPT ![self] = TRUE]
    BY <1>4 DEF publish_ends
  <2>2. published' \in [Binds -> BOOLEAN] /\ published'[self] = TRUE
    BY <2>1, Self DEF EventInv
  <2> QED
    BY <1>1, <1>2, <1>3, <1>4, <2>2 DEF EventInv, PublisherInv
<1>5. CASE stage = "raised"
  <2>1. published' = [published EXCEPT ![self] = FALSE]
    BY <1>5 DEF publish_ends
  <2>2. published' \in [Binds -> BOOLEAN] /\ published'[self] = FALSE
    BY <2>1, Self DEF EventInv
  <2>3. attempt' = MaxAttempts
    BY <1>5 DEF EventInv, PublisherInv, publish_ends, publisher
  <2> QED
    BY <1>1, <1>2, <1>3, <2>2, <2>3 DEF EventInv
<1> QED
  BY <1>4, <1>5 DEF publish_ends

\* A killed publish claims nothing.
LEMMA Killed == EventInv /\ killed => EventInv'
<1> SUFFICES ASSUME EventInv, killed PROVE EventInv'
  OBVIOUS
<1>1. pc' \in [Requests -> Positions] /\ pc'[self] = "killed"
  BY Goes DEF killed, Positions
<1>2. PublisherInv'
  BY DEF EventInv, PublisherInv, killed, publisher
<1>3. PICK n \in copies .. copies + wire :
        delivered' = [delivered EXCEPT ![self] = n]
  BY DEF killed
<1>4. n \in Nat
  BY <1>3 DEF EventInv, PublisherInv
<1>5. delivered' \in [Binds -> Nat] /\ published' = published
  BY <1>3, <1>4 DEF EventInv, killed, locals
<1> QED
  BY <1>1, <1>2, <1>5 DEF EventInv

\* Recording the binding leaves the event alone.
LEMMA Recording == EventInv /\ recording => EventInv'
<1> SUFFICES ASSUME EventInv, recording PROVE EventInv'
  OBVIOUS
<1>1. CASE insert_binding(self)
  <2>1. PICK step \in {"500", "commit"} : goto(self, step)
    BY <1>1 DEF insert_binding
  <2>2. pc' \in [Requests -> Positions] /\ pc'[self] = step
    BY <2>1, Goes DEF Positions, Steps, Answers, BindSteps
  <2> QED
    BY <1>1, <2>2, EventFrame DEF insert_binding, recording
<1>2. CASE bind_commit(self)
  <2>1. PICK step \in {"200", "500"} : goto(self, step)
    BY <1>2 DEF bind_commit, committed
  <2>2. pc' \in [Requests -> Positions] /\ pc'[self] = step
    BY <2>1, Goes DEF Positions, Steps, Answers
  <2> QED
    BY <1>2, <2>2, EventFrame DEF bind_commit, recording, locals
<1> QED
  BY <1>1, <1>2 DEF recording

\* Every step of the detailed bind keeps EventInv.
LEMMA EventStep == EventInv /\ [CallsNext]_calls_vars => EventInv'
<1> SUFFICES ASSUME EventInv, [CallsNext]_calls_vars PROVE EventInv'
  OBVIOUS
<1>1. CASE read_answer
  <2>1. PICK step \in {"resolve", "submit", "activate", "publish", "500"} :
          goto(self, step)
    BY <1>1 DEF read_answer, follow
  <2>2. pc' \in [Requests -> Positions] /\ pc'[self] = step
    BY <2>1, Goes DEF Positions, Steps, Answers, BindSteps
  <2> QED
    BY <1>1, <2>2, EventFrame DEF read_answer, locals
<1>2. CASE read_list \/ call_fails \/ cut_off
  <2>1. PICK step \in {"submit", "409", "500"} : goto(self, step)
    BY <1>2 DEF read_list, call_fails, cut_off
  <2>2. pc' \in [Requests -> Positions] /\ pc'[self] = step
    BY <2>1, Goes DEF Positions, Steps, Answers, BindSteps
  <2> QED
    BY <1>2, <2>2, EventFrame DEF read_list, call_fails, cut_off, locals
<1>3. CASE publishing
  BY <1>3, PublisherStep DEF publishing, EventInv, vars, locals
<1>4. CASE publish_ends
  BY <1>4, PublishEnds
<1>5. CASE killed
  BY <1>5, Killed
<1>6. CASE recording
  BY <1>6, Recording
<1>7. CASE headers \/ token_answered \/ PasAnswers \/ around \/ UNCHANGED calls_vars
  <2> UNCHANGED <<publisher, pc, published, delivered>>
    BY <1>7 DEF headers, token_answered, PasAnswers, pas_creates, pas_lists,
                pas_moves, pas_refuses, pas_errs, around, pas_late, pas_cancel,
                calls_vars, vars, locals
  <2> QED
    BY EventFrame DEF EventInv
<1> QED
  BY <1>1, <1>2, <1>3, <1>4, <1>5, <1>6, <1>7 DEF CallsNext, BindCallsStep

\* EventInv holds at the start.
LEMMA EventInit == CallsInit => EventInv
<1> SUFFICES ASSUME CallsInit PROVE EventInv
  OBVIOUS
<1>1. PublisherInv
  BY DataAssumption DEF CallsInit, PublishInit, PublisherInv, Stages
<1>2. pc \in [Requests -> Positions]
  BY DEF CallsInit, Positions, Steps, Answers, BindSteps
<1>3. pc[self] = "create_policy"
  BY Self, RequestAssumption DEF CallsInit, Addressed
<1> QED
  BY <1>1, <1>2, <1>3 DEF CallsInit, EventInv

\* The effort of publishing, for every number of attempts: event_published is
\* TRUE only if NATS has the event and FALSE only after all attempts.
THEOREM PublishingMakesTheEffort == CallsSpec => []EventEffort
<1>1. EventInv => EventEffort
  BY DEF EventInv, PublisherInv, EventEffort
<1> QED
  BY <1>1, EventInit, EventStep, PTL DEF CallsSpec

-----------------------------------------------------------------------------
\* The refinement of Workbench's steps.

\* What the mapping rests on: the policy found is the bind's own, and nothing
\* is claimed of the event before publishing ends.
MapInv ==
    /\ EventInv
    /\ pc[self] \in {"submit", "activate"} => ref = number(self)
    /\ pc[self] \in Calls \union {"publish", "killed"} => published[self] = FALSE

\* Every step of the detailed bind keeps MapInv.
LEMMA MapStep == MapInv /\ [CallsNext]_calls_vars => MapInv'
<1> SUFFICES ASSUME MapInv, [CallsNext]_calls_vars PROVE MapInv'
  OBVIOUS
<1>1. EventInv'
  BY EventStep DEF MapInv
<1>2. pc \in [Requests -> Positions] /\ self \in Requests
  BY Self DEF MapInv, EventInv
<1>3. CASE read_answer
  <2>2. published' = published /\ picked' = picked
    BY <1>3 DEF read_answer, locals
  <2>3. pc'[self] = follow(pc[self], reply)
    BY <1>2, <1>3 DEF read_answer, goto
  <2>4. ref' = IF reply = "201" THEN number(self) ELSE ref
    BY <1>3 DEF read_answer
  <2>5. pc'[self] \in {"submit", "activate"} => ref' = number(self)
    BY <1>3, <2>3, <2>4 DEF MapInv, read_answer, follow, Calls
  <2>6. published[self] = FALSE
    BY <1>3 DEF MapInv, read_answer
  <2> QED
    BY <1>1, <2>2, <2>5, <2>6 DEF MapInv, number
<1>4. CASE read_list
  <2>1. published' = published /\ picked' = picked /\ published[self] = FALSE
    BY <1>4 DEF read_list, locals, MapInv, Calls
  <2>2. (pc'[self] = "submit" /\ ref' = number(self)) \/ pc'[self] = "409"
    BY <1>2, <1>4 DEF read_list, goto
  <2> QED
    BY <1>1, <2>1, <2>2 DEF MapInv, number
<1>5. CASE call_fails \/ cut_off
  <2> pc'[self] = "500"
    BY <1>2, <1>5 DEF call_fails, cut_off, goto
  <2> QED
    BY <1>1 DEF MapInv, Calls
<1>6. CASE publish_ends
  <2> pc'[self] = "insert"
    BY <1>2, <1>6 DEF publish_ends, goto
  <2> QED
    BY <1>1 DEF MapInv, Calls
<1>7. CASE killed
  <2> pc'[self] = "killed" /\ published' = published /\ pc[self] = "publish"
    BY <1>2, <1>7 DEF killed, goto, locals
  <2> QED
    BY <1>1 DEF MapInv, Calls
<1>8. CASE recording
  <2> pc'[self] \in {"commit", "200", "500"}
    BY <1>2, <1>8 DEF recording, insert_binding, bind_commit, committed, goto
  <2> QED
    BY <1>1 DEF MapInv, Calls
<1>9. CASE headers \/ token_answered \/ publishing \/ PasAnswers \/ around
           \/ UNCHANGED calls_vars
  <2> UNCHANGED <<pc, published, picked, ref>>
    BY <1>9 DEF headers, token_answered, publishing, PasAnswers, pas_creates,
                pas_lists, pas_moves, pas_refuses, pas_errs, around, pas_late,
                pas_cancel, calls_vars, call_vars, vars, locals
  <2> QED
    BY <1>1 DEF MapInv, number
<1> QED
  BY <1>3, <1>4, <1>5, <1>6, <1>7, <1>8, <1>9 DEF CallsNext, BindCallsStep

\* pc as Workbench sees it.
LEMMA AbstractGoto ==
    ASSUME MapInv, NEW step, NEW old, goto(self, old),
           abstract_step' = step
    PROVE  Atomic!goto(self, step)
BY Self DEF MapInv, EventInv, goto, Atomic!goto

\* The mapped bind moves where abstract_step moves, if pc stays.
LEMMA AbstractGotoHere ==
    ASSUME MapInv, NEW step, UNCHANGED pc, abstract_step' = step
    PROVE  Atomic!goto(self, step)
BY Self DEF MapInv, EventInv, Atomic!goto

\* The mapped pc at the bind is abstract_step.
LEMMA AbstractPc ==
    ASSUME MapInv
    PROVE  [pc EXCEPT ![self] = abstract_step][self] = abstract_step
BY Self DEF MapInv, EventInv

\* A step that Workbench does not see.
LEMMA Unseen ==
    ASSUME UNCHANGED <<tables, versions, pas, delivered, time, locals>>,
           UNCHANGED [pc EXCEPT ![self] = abstract_step]
    PROVE  UNCHANGED Atomic!vars
BY DEF tables, versions, pas, time, locals, Atomic!vars, Atomic!tables,
       Atomic!versions, Atomic!pas, Atomic!time, Atomic!locals

\* The PAS applies a create.
LEMMA SeenCreates ==
    ASSUME MapInv, pas_creates PROVE Atomic!create_policy(self)
<1>1. abstract_step = "create_policy"
  BY DEF pas_creates, arrives, abstract_step
<1>2. abstract_step' = IF exists(policy[number(self)]) THEN "resolve" ELSE "submit"
  BY DEF pas_creates, arrives, answers, abstract_step, follow, Calls
<1>3. Atomic!goto(self, IF exists(policy[number(self)]) THEN "resolve" ELSE "submit")
  BY <1>2, AbstractGotoHere DEF pas_creates
<1> QED
  BY <1>1, <1>3, AbstractPc DEF pas_creates, Atomic!create_policy, Atomic!number, number,
     exists, created, Atomic!exists, Atomic!created, tables, versions, time, locals,
     Atomic!tables, Atomic!versions, Atomic!time, Atomic!locals, NoPolicy

\* The PAS applies a transition.
LEMMA SeenMoves ==
    ASSUME MapInv, pas_moves PROVE Atomic!submit(self) \/ Atomic!activate(self)
<1>1. reply' \in {"200", "409"} /\ phase' = "answered" /\ UNCHANGED pc
  BY DEF pas_moves, answers
<1>2. CASE pc[self] = "submit" /\ phase = "sent"
  <2>1. abstract_step = "submit" /\ abstract_step' = "activate"
    BY <1>1, <1>2 DEF abstract_step, follow, Calls
  <2>2. ref = number(self)
    BY <1>2 DEF MapInv
  <2>3. policy' = [policy EXCEPT ![ref] = submitted(@)]
    BY <1>2 DEF pas_moves, arrives
  <2>4. Atomic!goto(self, "activate")
    BY <1>1, <2>1, AbstractGotoHere
  <2> QED
    BY <2>1, <2>2, <2>3, <2>4, AbstractPc
       DEF pas_moves, Atomic!submit, Atomic!number, number, submitted,
           Atomic!submitted, moved, Atomic!moved, tables, versions, time, locals,
           Atomic!tables, Atomic!versions, Atomic!time, Atomic!locals
<1>3. CASE pc[self] = "activate" /\ phase = "sent"
  <2>1. abstract_step = "activate" /\ abstract_step' = "publish"
    BY <1>1, <1>3 DEF abstract_step, follow, Calls
  <2>2. ref = number(self)
    BY <1>3 DEF MapInv
  <2>3. policy' = [policy EXCEPT ![ref] = activated(@)]
    BY <1>3 DEF pas_moves, arrives
  <2>4. Atomic!goto(self, "publish")
    BY <1>1, <2>1, AbstractGotoHere
  <2> QED
    BY <2>1, <2>2, <2>3, <2>4, AbstractPc
       DEF pas_moves, Atomic!activate, Atomic!number, number, activated,
           Atomic!activated, moved, Atomic!moved, tables, versions, time, locals,
           Atomic!tables, Atomic!versions, Atomic!time, Atomic!locals
<1> QED
  BY <1>2, <1>3 DEF pas_moves, arrives

\* A failure is Workbench's abort, or its timeout when the request may still
\* be applied.
LEMMA SeenFailure ==
    ASSUME MapInv, Faults,
           abstract_step \notin {"idle"} \union Answers,
           Atomic!goto(self, "500"),
           UNCHANGED <<tables, versions, policy, delivered, time, locals>>,
           \/ late' = late
           \/ /\ abstract_step \in {"create_policy", "submit", "activate"}
              /\ late' = late \union
                    {[call |-> abstract_step, policy_number |-> number(self),
                      day |-> cover[self]]}
    PROVE  Atomic!abort(self) \/ Atomic!pas_timeout(self)
<1>1. CASE late' = late
  BY <1>1, AbstractPc DEF Atomic!abort, Atomic!Answers, Answers, tables, versions,
     time, locals, Atomic!tables, Atomic!versions, Atomic!pas, Atomic!time,
     Atomic!locals
<1>2. CASE late' # late
  BY <1>2, AbstractPc DEF Atomic!pas_timeout, Atomic!number, number, tables,
     versions, time, locals, Atomic!tables, Atomic!versions, Atomic!time,
     Atomic!locals
<1> QED
  BY <1>1, <1>2

\* The record that stands for the call at hand, once nobody waits for it.
LEMMA OnItsWay ==
    ASSUME MapInv, pc[self] \in Calls
    PROVE  on_its_way =
             IF pc[self] = "resolve" THEN {}
             ELSE {[call |-> pc[self], policy_number |-> number(self),
                    day |-> cover[self]]}
<1>1. pc[self] # "resolve" =>
        (IF pc[self] = "create_policy" THEN number(self) ELSE ref) = number(self)
  BY DEF MapInv, Calls
<1> QED
  BY <1>1 DEF on_its_way

\* A refused or failed call ends the bind, or leaves the lookup empty-handed.
LEMMA SeenErrs ==
    ASSUME MapInv, Faults, pas_errs \/ pas_refuses
    PROVE  Atomic!abort(self) \/ Atomic!pas_timeout(self) \/ UNCHANGED Atomic!vars
<1>1. /\ pc[self] \in Calls /\ phase = "sent" /\ UNCHANGED pc
      /\ phase' = "answered" /\ reply' \in {"401", "5xx"}
      /\ UNCHANGED <<tables, versions, policy, delivered, time, locals>>
      /\ late' = late \/ late' = late \union on_its_way
  BY DEF pas_errs, pas_refuses, answers, vars, pas
<1>2. abstract_step = pc[self]
  BY <1>1 DEF abstract_step, Calls
<1>3. CASE pc[self] = "resolve"
  <2>1. abstract_step' = abstract_step
    BY <1>1, <1>2, <1>3 DEF abstract_step, Calls
  <2>2. late' = late
    BY <1>1, <1>3, OnItsWay
  <2> QED
    BY <1>1, <2>1, <2>2, Unseen DEF pas
<1>4. CASE pc[self] # "resolve"
  <2>1. abstract_step' = "500"
    BY <1>1, <1>4 DEF abstract_step, follow, Calls
  <2>2. Atomic!goto(self, "500")
    BY <1>1, <2>1, AbstractGotoHere
  <2>3. abstract_step \in {"create_policy", "submit", "activate"}
    BY <1>1, <1>2, <1>4 DEF Calls
  <2> QED
    BY <1>1, <1>2, <1>4, <2>2, <2>3, OnItsWay, SeenFailure DEF Answers
<1> QED
  BY <1>3, <1>4

\* A call that raises is an abort, a timeout, or seen before.
LEMMA SeenCallFails ==
    ASSUME MapInv, Faults, call_fails
    PROVE  Atomic!abort(self) \/ Atomic!pas_timeout(self) \/ UNCHANGED Atomic!vars
<1>1. /\ pc[self] \in Calls /\ goto(self, "500") /\ phase' = "ready"
      /\ UNCHANGED <<tables, versions, policy, delivered, time, locals>>
      /\ late' = late \/ (phase = "sent" /\ late' = late \union on_its_way)
  BY DEF call_fails
<1>2. abstract_step' = "500"
  BY <1>1, Self DEF goto, MapInv, EventInv, abstract_step, Calls
<1>3. Atomic!goto(self, "500")
  BY <1>1, <1>2, AbstractGoto
<1>4. CASE late' = late /\ abstract_step = "500"
  <2> UNCHANGED [pc EXCEPT ![self] = abstract_step]
    BY <1>1, <1>2, <1>4 DEF goto, MapInv, EventInv
  <2> QED
    BY <1>1, <1>4, Unseen DEF pas
<1>5. CASE late' = late /\ abstract_step # "500"
  <2>1. abstract_step \in Calls \union {"publish"}
    BY <1>1, <1>5 DEF abstract_step, follow, Calls
  <2> QED
    BY <1>1, <1>3, <1>5, <2>1, SeenFailure DEF Answers, Calls
<1>6. CASE late' # late
  <2>1. phase = "sent" /\ late' = late \union on_its_way /\ pc[self] # "resolve"
    BY <1>1, <1>6, OnItsWay
  <2>2. abstract_step = pc[self]
    BY <1>1, <2>1 DEF abstract_step, Calls
  <2> QED
    BY <1>1, <1>3, <2>1, <2>2, OnItsWay, SeenFailure DEF Answers, Calls
<1> QED
  BY <1>4, <1>5, <1>6

\* A lookup is taken when its list is read.
LEMMA SeenReads ==
    ASSUME MapInv, Faults, read_list PROVE Atomic!resolve_existing(self)
<1>1. /\ abstract_step = "resolve" /\ pc \in [Requests -> Positions] /\ self \in Requests
      /\ phase' = "ready"
  BY Self DEF MapInv, EventInv, read_list, abstract_step, Calls
<1>2. CASE goto(self, "submit")
  <2>1. abstract_step' = "submit"
    BY <1>1, <1>2 DEF goto, abstract_step, Calls
  <2>2. Atomic!goto(self, "submit")
    BY <1>2, <2>1, AbstractGoto
  <2> QED
    BY <1>1, <2>2, AbstractPc
       DEF read_list, Atomic!resolve_existing, tables, versions, pas, time, locals,
           Atomic!tables, Atomic!versions, Atomic!pas, Atomic!time, Atomic!locals
<1>3. CASE goto(self, "409")
  <2>1. abstract_step' = "409"
    BY <1>1, <1>3 DEF goto, abstract_step, Calls
  <2>2. Atomic!goto(self, "409")
    BY <1>3, <2>1, AbstractGoto
  <2> QED
    BY <1>1, <2>2, AbstractPc
       DEF read_list, Atomic!resolve_existing, tables, versions, pas, time, locals,
           Atomic!tables, Atomic!versions, Atomic!pas, Atomic!time, Atomic!locals
<1> QED
  BY <1>2, <1>3 DEF read_list

\* The attempts add up to one best-effort publish.
LEMMA SeenPublish ==
    ASSUME MapInv, publish_ends \/ killed PROVE Atomic!publish_best_effort(self)
<1>1. /\ abstract_step = "publish" /\ pc \in [Requests -> Positions] /\ self \in Requests
      /\ pc[self] = "publish"
  BY Self DEF MapInv, EventInv, publish_ends, killed, abstract_step, Calls
<1>2. UNCHANGED <<tables, versions, pas, time, version, picked, cover, stamp>>
  BY DEF publish_ends, killed, locals
<1>3. Atomic!goto(self, "insert")
  <2>1. PICK step \in {"insert", "killed"} : goto(self, step)
    BY DEF publish_ends, killed
  <2>2. abstract_step' = "insert"
    BY <1>1, <2>1 DEF goto, abstract_step, Calls
  <2> QED
    BY <2>1, <2>2, AbstractGoto
<1>4. \E ok \in BOOLEAN, n \in 0 .. MaxAttempts :
         /\ ok => n > 0
         /\ published' = [published EXCEPT ![self] = ok]
         /\ delivered' = [delivered EXCEPT ![self] = n]
  <2>0. PublisherInv /\ MaxAttempts \in Nat
    BY DataAssumption DEF MapInv, EventInv
  <2>1. CASE publish_ends /\ stage = "returned"
    <3>1. copies \in 0 .. MaxAttempts /\ copies > 0
      BY <2>0, <2>1 DEF PublisherInv
    <3>2. published' = [published EXCEPT ![self] = TRUE]
      BY <2>1 DEF publish_ends
    <3> QED
      BY <2>1, <3>1, <3>2 DEF publish_ends
  <2>2. CASE publish_ends /\ stage = "raised"
    <3>1. copies \in 0 .. MaxAttempts
      BY <2>0 DEF PublisherInv
    <3>2. published' = [published EXCEPT ![self] = FALSE]
      BY <2>2 DEF publish_ends
    <3> QED
      BY <2>2, <3>1, <3>2 DEF publish_ends
  <2>3. CASE killed
    <3>1. PICK n \in copies .. copies + wire :
            delivered' = [delivered EXCEPT ![self] = n]
      BY <2>3 DEF killed
    <3>2. n \in 0 .. MaxAttempts
      BY <2>0, <3>1 DEF PublisherInv
    <3>3. published' = [published EXCEPT ![self] = FALSE]
      BY <1>1, <2>3 DEF killed, locals, MapInv, EventInv
    <3> QED
      BY <3>1, <3>2, <3>3
  <2> QED
    BY <2>1, <2>2, <2>3 DEF publish_ends
<1> QED
  BY <1>1, <1>2, <1>3, <1>4, AbstractPc
     DEF Atomic!publish_best_effort, tables, versions, pas, time,
         Atomic!tables, Atomic!versions, Atomic!pas, Atomic!time

\* The broken connection is an abort before the INSERT.
LEMMA SeenCutOff ==
    ASSUME MapInv, Faults, cut_off PROVE Atomic!abort(self)
<1>1. /\ abstract_step = "insert" /\ pc \in [Requests -> Positions] /\ self \in Requests
  BY Self DEF MapInv, EventInv, cut_off, abstract_step, Calls
<1>2. abstract_step' = "500"
  BY <1>1 DEF cut_off, goto, abstract_step, Calls
<1>3. Atomic!goto(self, "500")
  BY <1>2, AbstractGoto DEF cut_off
<1> QED
  BY <1>1, <1>3, AbstractPc
     DEF cut_off, Atomic!abort, Atomic!Answers, tables, versions, pas, time, locals,
         Atomic!tables, Atomic!versions, Atomic!pas, Atomic!time, Atomic!locals

\* INSERT and COMMIT are taken as they are.
LEMMA SeenRecording ==
    ASSUME MapInv, recording
    PROVE  Atomic!insert_binding(self) \/ Atomic!bind_commit(self)
<1>1. pc \in [Requests -> Positions] /\ self \in Requests
  BY Self DEF MapInv, EventInv
<1>2. CASE insert_binding(self)
  <2>1. PICK step \in {"500", "commit"} :
          /\ goto(self, step)
          /\ IF taken(self)
               THEN step = "500" /\ UNCHANGED <<clock, stamp>>
               ELSE now(self) /\ step = "commit"
    BY <1>2 DEF insert_binding
  <2>2. abstract_step = "insert" /\ abstract_step' = step
    BY <1>1, <1>2, <2>1 DEF insert_binding, goto, abstract_step, Calls
  <2>3. Atomic!goto(self, step)
    BY <2>1, <2>2, AbstractGoto
  <2>4. ~ \E c \in Binds \ {self} :
           [pc EXCEPT ![self] = abstract_step][c] = "commit" /\ Atomic!rivals(self, c)
    BY SelfAssumption
  <2>5. Atomic!taken(self) <=> taken(self)
    BY DEF Atomic!taken, taken, Atomic!number, number
  <2>6. now(self) => Atomic!now(self)
    BY DEF Atomic!now, now
  <2> QED
    BY <1>2, <2>1, <2>2, <2>3, <2>4, <2>5, <2>6, AbstractPc
       DEF insert_binding, Atomic!insert_binding, tables, versions, pas,
           Atomic!tables, Atomic!versions, Atomic!pas
<1>3. CASE bind_commit(self)
  <2>1. PICK step \in {"200"} \union (IF Faults THEN {"500"} ELSE {}) : goto(self, step)
    BY <1>3 DEF bind_commit, committed
  <2>2. step \in {"200", "500"}
    BY <2>1
  <2>3. abstract_step = "commit" /\ abstract_step' = step
    BY <1>1, <1>3, <2>1, <2>2 DEF bind_commit, goto, abstract_step, Calls
  <2>4. Atomic!goto(self, step)
    BY <2>1, <2>3, AbstractGoto
  <2>5. Atomic!committed(self, "200")
    BY <2>1, <2>4 DEF Atomic!committed
  <2>6. Atomic!audited(self, target[self], "bind", 0)
    BY <1>3 DEF bind_commit, audited, Atomic!audited
  <2> QED
    BY <1>3, <2>3, <2>5, <2>6, AbstractPc
       DEF bind_commit, Atomic!bind_commit, Atomic!number, number, versions, pas,
           time, locals, Atomic!versions, Atomic!pas, Atomic!time, Atomic!locals
<1> QED
  BY <1>2, <1>3 DEF recording

\* Token exchanges, requests under way, answers read and attempts to publish.
LEMMA SeenNothing ==
    ASSUME MapInv,
           \/ headers \/ token_answered \/ read_answer \/ publishing
           \/ UNCHANGED calls_vars
    PROVE  UNCHANGED Atomic!vars
<1>1. UNCHANGED <<tables, versions, pas, delivered, time, locals>>
  BY DEF headers, token_answered, read_answer, publishing, calls_vars, vars
<1>2. UNCHANGED [pc EXCEPT ![self] = abstract_step]
  <2>1. CASE read_answer
    <3>1. abstract_step = follow(pc[self], reply)
      BY <2>1 DEF read_answer, abstract_step
    <3>2. pc'[self] = follow(pc[self], reply) /\ phase' = "ready" /\ goto(self, follow(pc[self], reply))
      BY <2>1, Self DEF MapInv, EventInv, read_answer, goto
    <3>3. abstract_step' = abstract_step
      BY <3>1, <3>2 DEF abstract_step, follow
    <3> QED
      BY <3>1, <3>2, <3>3 DEF goto, MapInv, EventInv
  <2>2. CASE headers \/ token_answered
    <3>1. UNCHANGED pc /\ phase # "answered" /\ phase' # "answered"
      BY <2>2 DEF headers, token_answered, vars
    <3> QED
      BY <3>1 DEF abstract_step
  <2>3. CASE publishing \/ UNCHANGED calls_vars
    <3>1. UNCHANGED <<pc, phase, reply>>
      BY <2>3 DEF publishing, calls_vars, vars, call_vars
    <3> QED
      BY <3>1 DEF abstract_step
  <2> QED
    BY <2>1, <2>2, <2>3
<1> QED
  BY <1>1, <1>2, Unseen

\* A list that arrives at the bind is not a step of its own.
LEMMA SeenListing == ASSUME MapInv, pas_lists PROVE UNCHANGED Atomic!vars
<1>1. UNCHANGED <<tables, versions, pas, delivered, time, locals, pc>> /\ pc[self] = "resolve"
  BY DEF pas_lists, arrives, vars
<1>2. abstract_step' = abstract_step
  BY <1>1 DEF abstract_step, Calls
<1> QED
  BY <1>1, <1>2, Unseen

\* Time is not seen; earlier calls and the PAS user's cancels are as they are.
LEMMA SeenAround ==
    ASSUME MapInv, around
    PROVE  \/ UNCHANGED Atomic!vars
           \/ \E m \in late : Atomic!pas_late(m)
           \/ \E n \in Cancellable : Atomic!pas_cancel(n)
<1>1. UNCHANGED <<pc, call_vars>>
  BY DEF around, vars, pas_late, pas_cancel
<1>2. UNCHANGED [pc EXCEPT ![self] = abstract_step]
  BY <1>1 DEF abstract_step, call_vars
<1>3. CASE UNCHANGED vars
  BY <1>2, <1>3, Unseen DEF vars
<1>4. ASSUME NEW m \in late, pas_late(m) PROVE Atomic!pas_late(m)
  BY <1>2, <1>4 DEF pas_late, Atomic!pas_late, tables, versions, time, locals,
     Atomic!tables, Atomic!versions, Atomic!time, Atomic!locals, created, submitted,
     activated, exists, moved, Atomic!created, Atomic!submitted, Atomic!activated,
     Atomic!exists, Atomic!moved
<1>5. ASSUME NEW n \in Cancellable, pas_cancel(n) PROVE Atomic!pas_cancel(n)
  BY <1>2, <1>5 DEF pas_cancel, Atomic!pas_cancel, tables, versions, time, locals,
     Atomic!tables, Atomic!versions, Atomic!time, Atomic!locals, cancelled, moved,
     Atomic!cancelled, Atomic!moved
<1> QED
  BY <1>3, <1>4, <1>5 DEF around

\* Every step of the detailed bind is a step of Workbench or none.
LEMMA SeenStep ==
    ASSUME MapInv, Faults, [CallsNext]_calls_vars
    PROVE  [Atomic!Next]_(Atomic!vars)
<1>1. self \in Binds /\ self \in Addressed
  BY SelfAssumption DEF Addressed
<1>2. CASE pas_creates \/ pas_moves \/ read_list \/ publish_ends \/ killed \/ recording
  <2>1. \/ Atomic!create_policy(self) \/ Atomic!submit(self) \/ Atomic!activate(self)
        \/ Atomic!resolve_existing(self) \/ Atomic!publish_best_effort(self)
        \/ Atomic!insert_binding(self) \/ Atomic!bind_commit(self)
    BY <1>2, SeenCreates, SeenMoves, SeenReads, SeenPublish, SeenRecording
  <2>2. Atomic!BindStep(self)
    BY <2>1 DEF Atomic!BindStep
  <2> QED
    BY <1>1, <2>2 DEF Atomic!Next
<1>3. CASE pas_errs \/ pas_refuses \/ call_fails \/ cut_off
  <2>1. \/ Atomic!abort(self) \/ Atomic!pas_timeout(self)
        \/ UNCHANGED Atomic!vars
    BY <1>3, SeenErrs, SeenCallFails, SeenCutOff
  <2> QED
    BY <1>1, <2>1 DEF Atomic!Next, Atomic!Addressed, Addressed
<1>4. CASE \/ headers \/ token_answered \/ read_answer \/ publishing \/ pas_lists
           \/ UNCHANGED calls_vars
  BY <1>4, SeenNothing, SeenListing
<1>5. CASE around
  <2>1. \/ UNCHANGED Atomic!vars
        \/ \E m \in late : Atomic!pas_late(m)
        \/ \E n \in Cancellable : Atomic!pas_cancel(n)
    BY <1>5, SeenAround
  <2> QED
    BY <2>1 DEF Atomic!Next
<1> QED
  BY <1>2, <1>3, <1>4, <1>5 DEF CallsNext, BindCallsStep, PasAnswers

\* MapInv holds at the start.
LEMMA MapInit == CallsInit => MapInv
<1> SUFFICES ASSUME CallsInit PROVE MapInv
  OBVIOUS
<1>1. pc[self] = "create_policy"
  BY Self, RequestAssumption DEF CallsInit, Addressed
<1>2. published[self] = FALSE
  BY Self DEF CallsInit
<1> QED
  BY <1>1, <1>2, EventInit DEF MapInv

\* The detailed bind implements Workbench's atomic steps, for every page size,
\* number of attempts, set of policies and timing, wherever calls may fail.
THEOREM DetailedBindImplementsSteps ==
    ASSUME Faults PROVE CallsSpec => ImplementsWorkbenchSteps
<1>1. MapInv /\ [CallsNext]_calls_vars => [Atomic!Next]_(Atomic!vars)
  BY SeenStep
<1> QED
  BY <1>1, MapInit, MapStep, PTL DEF CallsSpec, ImplementsWorkbenchSteps

-----------------------------------------------------------------------------
\* A bind that gives up on an existing policy.

\* What the lookup rests on: the policy it is for exists, and a page without it
\* was a full one.
LookInv ==
    /\ pc = [r \in Requests |-> pc[r]]
    /\ policy = [n \in PolicyNumbers |-> policy[n]]
    /\ number(self) \in PolicyNumbers
    /\ pc[self] = "create_policy" /\ phase = "answered" /\ reply = "409"
          => number(self) \in existing
    /\ pc[self] = "resolve" => number(self) \in existing
    /\ pc[self] = "resolve" /\ phase = "answered" /\ reply = "200"
       /\ number(self) \notin page
          => Cardinality(existing) > PageSize
    /\ ConflictOnlyWhenUnlisted

\* One step of the PAS on one row.
PasMoves ==
    \/ policy' = policy
    \/ \E n : \E p \in {created(policy[n], cover[self]), submitted(policy[n]),
                        activated(policy[n]), cancelled(policy[n])}
              \union {created(policy[n], m.day) : m \in late} :
          policy' = [policy EXCEPT ![n] = p]

\* No step takes a policy away.
LEMMA PoliciesStay ==
    ASSUME LookInv, PasMoves
    PROVE  /\ policy' = [n \in PolicyNumbers |-> policy'[n]]
           /\ existing \subseteq existing'
<1>1. \A n, day : /\ exists(created(policy[n], day))
                  /\ exists(policy[n]) => /\ exists(submitted(policy[n]))
                                          /\ exists(activated(policy[n]))
                                          /\ exists(cancelled(policy[n]))
  BY DEF exists, created, submitted, activated, cancelled, moved
<1>2. CASE policy' = policy
  BY <1>2 DEF LookInv, existing
<1>3. ASSUME NEW n, NEW p, exists(policy[n]) => exists(p),
             policy' = [policy EXCEPT ![n] = p]
      PROVE  /\ policy' = [k \in PolicyNumbers |-> policy'[k]]
             /\ existing \subseteq existing'
  BY <1>3 DEF LookInv, existing
<1> QED
  BY <1>1, <1>2, <1>3 DEF PasMoves

\* More policies are no fewer than fewer.
LEMMA MoreExist ==
    ASSUME IsFiniteSet(PolicyNumbers), existing \subseteq existing',
           Cardinality(existing) > PageSize
    PROVE  Cardinality(existing') > PageSize
<1>1. IsFiniteSet(existing')
  BY FS_Subset DEF existing
<1>2. /\ IsFiniteSet(existing) /\ Cardinality(existing) <= Cardinality(existing')
      /\ Cardinality(existing) \in Nat /\ Cardinality(existing') \in Nat
  BY <1>1, FS_Subset, FS_CardinalityType
<1> QED
  BY <1>2, DataAssumption

\* A page that misses a policy is full, and there is at least one policy more.
LEMMA FullPage ==
    ASSUME IsFiniteSet(PolicyNumbers), NEW n \in existing, NEW S \in SUBSET existing,
           n \notin S, Cardinality(S) = PageSize
    PROVE  Cardinality(existing) > PageSize
<1>1. IsFiniteSet(existing)
  BY FS_Subset DEF existing
<1>2. IsFiniteSet(S)
  BY <1>1, FS_Subset
<1>3. /\ IsFiniteSet(S \union {n}) /\ Cardinality(S \union {n}) = PageSize + 1
  BY <1>2, FS_AddElement
<1>4. Cardinality(S \union {n}) <= Cardinality(existing)
  BY <1>1, FS_Subset
<1>5. Cardinality(existing) \in Nat
  BY <1>1, FS_CardinalityType
<1> QED
  BY <1>3, <1>4, <1>5, DataAssumption


\* Each step moves the PAS as PasMoves says, and leaves the bind's number alone.
LEMMA PasMove ==
    ASSUME LookInv, [CallsNext]_calls_vars
    PROVE  PasMoves /\ number(self)' = number(self)
<1> USE DEF PasMoves
<1>1. CASE BindCallsStep \/ pas_lists \/ pas_refuses \/ pas_errs \/ UNCHANGED calls_vars
  <2> policy' = policy /\ picked' = picked
    BY <1>1 DEF BindCallsStep, headers, token_answered, read_answer, read_list,
       call_fails, publishing, publish_ends, killed, cut_off, recording,
       insert_binding, bind_commit, pas_lists, pas_refuses, pas_errs, calls_vars,
       vars, pas, locals
  <2> QED
    BY DEF number
<1>2. CASE pas_creates
  BY <1>2 DEF pas_creates, number, locals
<1>3. CASE pas_moves
  BY <1>3 DEF pas_moves, number, locals
<1>4. CASE around
  <2>1. CASE UNCHANGED vars
    BY <2>1 DEF vars, pas, locals, number
  <2>2. ASSUME NEW m \in late, pas_late(m)
        PROVE  PasMoves /\ number(self)' = number(self)
    BY <2>2 DEF pas_late, number, locals
  <2>3. ASSUME NEW n \in Cancellable, pas_cancel(n)
        PROVE  PasMoves /\ number(self)' = number(self)
    BY <2>3 DEF pas_cancel, number, locals
  <2> QED
    BY <1>4, <2>1, <2>2, <2>3 DEF around
<1> QED
  BY <1>1, <1>2, <1>3, <1>4 DEF CallsNext, PasAnswers

\* Every step keeps LookInv.
LEMMA LookStep ==
    ASSUME IsFiniteSet(PolicyNumbers), LookInv, [CallsNext]_calls_vars
    PROVE  LookInv'
<1>1. /\ policy' = [n \in PolicyNumbers |-> policy'[n]]
      /\ existing \subseteq existing' /\ number(self)' = number(self)
  BY PasMove, PoliciesStay
<1>2. Cardinality(existing) > PageSize => Cardinality(existing') > PageSize
  BY <1>1, MoreExist
<1>3. self \in Requests /\ number(self)' \in PolicyNumbers
  BY <1>1, Self DEF LookInv
\* Steps that leave the bind and the answer it has alone.
<1>4. ASSUME UNCHANGED <<pc, phase, reply, page>> PROVE LookInv'
  BY <1>1, <1>2, <1>3, <1>4 DEF LookInv, ConflictOnlyWhenUnlisted
\* Steps after which no answer is at hand.
<1>5. ASSUME pc' = [r \in Requests |-> pc'[r]], phase' # "answered",
             pc'[self] = "resolve" => number(self) \in existing',
             pc'[self] = "409" =>
                reply' # "200" \/ Cardinality(existing') > PageSize
      PROVE  LookInv'
  BY <1>1, <1>3, <1>5 DEF LookInv, ConflictOnlyWhenUnlisted
<1>6. ASSUME NEW step, goto(self, step)
      PROVE  pc' = [r \in Requests |-> pc'[r]] /\ pc'[self] = step
  BY <1>3, <1>6 DEF LookInv, goto
<1>7. CASE headers \/ token_answered
  BY <1>1, <1>2, <1>5, <1>7
     DEF headers, token_answered, vars, LookInv, ConflictOnlyWhenUnlisted
<1>8. CASE read_answer
  <2>1. /\ pc' = [r \in Requests |-> pc'[r]] /\ pc'[self] = follow(pc[self], reply)
        /\ phase' = "ready"
    BY <1>6, <1>8 DEF read_answer
  <2>2. /\ follow(pc[self], reply) # "409"
        /\ follow(pc[self], reply) = "resolve" => pc[self] = "create_policy" /\ reply = "409"
    BY DEF follow
  <2> QED
    BY <1>1, <1>5, <1>8, <2>1, <2>2 DEF read_answer, LookInv
<1>9. CASE read_list
  <2>1. CASE goto(self, "submit")
    BY <1>5, <1>6, <1>9, <2>1 DEF read_list
  <2>2. CASE goto(self, "409") /\ ~ (reply = "200" /\ number(self) \in page)
    BY <1>2, <1>5, <1>6, <1>9, <2>2 DEF read_list, LookInv
  <2> QED
    BY <1>9, <2>1, <2>2 DEF read_list
<1>10. CASE call_fails
  BY <1>5, <1>6, <1>10 DEF call_fails
<1>11. CASE publish_ends \/ killed \/ cut_off \/ recording
  <2>1. UNCHANGED call_vars
    BY <1>11 DEF publish_ends, killed, cut_off, recording
  <2>2. PICK step \in {"insert", "killed", "500", "commit", "200"} : goto(self, step)
    BY <1>11 DEF publish_ends, killed, cut_off, recording, insert_binding,
                 bind_commit, committed
  <2> QED
    BY <1>1, <1>3, <1>6, <2>1, <2>2 DEF call_vars, LookInv, ConflictOnlyWhenUnlisted
<1>12. CASE pas_creates
  <2>1. /\ pc' = pc /\ pc[self] = "create_policy" /\ reply' \in {"201", "409"}
        /\ reply' = "409" => number(self) \in existing
    BY <1>12 DEF pas_creates, arrives, answers, LookInv, existing
  <2> QED
    BY <1>1, <1>3, <2>1 DEF LookInv, ConflictOnlyWhenUnlisted
<1>13. CASE pas_lists
  <2>1. /\ UNCHANGED <<pc, policy>> /\ pc[self] = "resolve"
        /\ page' \in SUBSET existing
        /\ Cardinality(page') = PageSize \/ page' = existing
    BY <1>13 DEF pas_lists, arrives, vars, pas
  <2>2. number(self) \notin page' => Cardinality(existing) > PageSize
    BY <2>1, FullPage DEF LookInv
  <2> QED
    BY <1>1, <1>2, <1>3, <2>1, <2>2 DEF LookInv, ConflictOnlyWhenUnlisted
<1>14. CASE pas_moves
  <2>1. pc' = pc /\ pc[self] \in {"submit", "activate"}
    BY <1>14 DEF pas_moves, arrives
  <2> QED
    BY <1>1, <1>3, <2>1 DEF LookInv, ConflictOnlyWhenUnlisted
<1>15. CASE pas_refuses \/ pas_errs
  <2>1. pc' = pc /\ pc[self] \in Calls /\ reply' \in {"401", "5xx"}
    BY <1>15 DEF pas_refuses, pas_errs, answers, vars
  <2> QED
    BY <1>1, <1>3, <2>1 DEF LookInv, ConflictOnlyWhenUnlisted, Calls
<1>16. CASE publishing \/ around \/ UNCHANGED calls_vars
  <2> UNCHANGED <<pc, phase, reply, page>>
    BY <1>16 DEF publishing, around, pas_late, pas_cancel, calls_vars, call_vars, vars
  <2> QED
    BY <1>4
<1> QED
  BY <1>7, <1>8, <1>9, <1>10, <1>11, <1>12, <1>13, <1>14, <1>15, <1>16
     DEF CallsNext, BindCallsStep, PasAnswers

\* LookInv holds at the start.
LEMMA LookInit == CallsInit => LookInv
<1> SUFFICES ASSUME CallsInit PROVE LookInv
  OBVIOUS
<1>1. pc = [r \in Requests |-> pc[r]] /\ policy = [n \in PolicyNumbers |-> policy[n]]
  BY DEF CallsInit
<1>2. pc[self] = "create_policy" /\ phase = "ready"
  BY Self, RequestAssumption DEF CallsInit, Addressed
<1>3. number(self) \in PolicyNumbers
  <2>1. PICK q \in quote : latest_quote(q, target[self]) /\ picked = [b \in Binds |-> q.id]
    BY DEF CallsInit
  <2>2. q.id \in Quotes
    BY DEF CallsInit
  <2> QED
    BY <2>1, <2>2, Self, DataAssumption DEF number
<1> QED
  BY <1>1, <1>2, <1>3 DEF LookInv, ConflictOnlyWhenUnlisted

\* With any finite number of policies and any page size: a bind answers 409 for an
\* existing policy only when its lookup failed or the page could not hold all.
THEOREM ConflictsAreUnlisted ==
    ASSUME IsFiniteSet(PolicyNumbers)
    PROVE  CallsSpec => []ConflictOnlyWhenUnlisted
<1>1. LookInv /\ [CallsNext]_calls_vars => LookInv'
  BY LookStep
<1>2. LookInv => ConflictOnlyWhenUnlisted
  BY DEF LookInv
<1> QED
  BY <1>1, <1>2, LookInit, PTL DEF CallsSpec

-----------------------------------------------------------------------------
\* What the detailed bind records.

\* Workbench, its invariant and its lemmas, seen through the mapping.
Abstract == INSTANCE WorkbenchProofs WITH pc <- [pc EXCEPT ![self] = abstract_step]

\* The mapping leaves the sets of the assumptions as they are.
LEMMA SameConstants ==
    /\ Abstract!Addressed = Addressed
    /\ Abstract!RulesetSpec = RulesetSpec
BY DEF Addressed, Abstract!Addressed, RulesetSpec, Abstract!RulesetSpec, LineOfBusiness,
       Abstract!LineOfBusiness, Occupancy, Abstract!Occupancy

\* What CoreInductive says holds of the mapped steps.
LEMMA CoreKept ==
    Abstract!CoreInv /\ [Abstract!Next]_(Abstract!vars) => Abstract!CoreInv'
BY SameConstants, Abstract!CoreInductive, RequestAssumption, DataAssumption, UpperAssumption

\* Both instances of Workbench have the same steps: no name below them differs.
LEMMA SameBindSteps == \A r : Atomic!BindStep(r) <=> Abstract!BindStep(r)
<1>1. \A r : Atomic!bind_decision(r) <=> Abstract!bind_decision(r)
  BY DEF Atomic!bind_decision, Abstract!bind_decision, Atomic!locals, Abstract!locals,
         Atomic!time, Abstract!time, Atomic!pas, Abstract!pas, Atomic!versions,
         Abstract!versions, Atomic!tables, Abstract!tables, Atomic!goto, Abstract!goto,
         Atomic!latest_decision, Abstract!latest_decision, Atomic!decisions_of,
         Abstract!decisions_of
<1>2. \A r : Atomic!bind_quote(r) <=> Abstract!bind_quote(r)
  BY DEF Atomic!bind_quote, Abstract!bind_quote, Atomic!time, Abstract!time, Atomic!pas,
         Abstract!pas, Atomic!versions, Abstract!versions, Atomic!tables,
         Abstract!tables, Atomic!goto, Abstract!goto, Atomic!latest_quote,
         Abstract!latest_quote, Atomic!quotes_of, Abstract!quotes_of
<1>3. \A r : Atomic!create_policy(r) <=> Abstract!create_policy(r)
  <2>1. \A p, day : Atomic!created(p, day) = Abstract!created(p, day)
    BY DEF Atomic!created, Abstract!created, Atomic!exists, Abstract!exists
  <2>2. \A r : /\ Atomic!number(r) = Abstract!number(r)
               /\ Atomic!exists(policy[Atomic!number(r)])
                     = Abstract!exists(policy[Abstract!number(r)])
               /\ [policy EXCEPT ![Atomic!number(r)] = Atomic!created(@, cover[r])]
                     = [policy EXCEPT ![Abstract!number(r)] = Abstract!created(@, cover[r])]
    BY <2>1 DEF Atomic!number, Abstract!number, Atomic!exists, Abstract!exists
  <2>3. \A r, step : Atomic!goto(r, step) <=> Abstract!goto(r, step)
    BY DEF Atomic!goto, Abstract!goto
  <2> QED
    BY <2>2, <2>3
       DEF Atomic!create_policy, Abstract!create_policy, Atomic!locals, Abstract!locals,
           Atomic!time, Abstract!time, Atomic!versions, Abstract!versions,
           Atomic!tables, Abstract!tables
<1>4. \A r : Atomic!resolve_existing(r) <=> Abstract!resolve_existing(r)
  <2>1. {n \in PolicyNumbers : Atomic!exists(policy[n])}
            = {n \in PolicyNumbers : Abstract!exists(policy[n])}
    BY DEF Atomic!exists, Abstract!exists
  <2>2. \A r, step : Atomic!goto(r, step) <=> Abstract!goto(r, step)
    BY DEF Atomic!goto, Abstract!goto
  <2>3. \A S : Atomic!Cardinality(S) = Abstract!Cardinality(S)
    BY DEF Atomic!Cardinality, Abstract!Cardinality
  <2> QED
    BY <2>1, <2>2, <2>3
       DEF Atomic!resolve_existing, Abstract!resolve_existing, Atomic!locals,
           Abstract!locals, Atomic!time, Abstract!time, Atomic!pas, Abstract!pas,
           Atomic!versions, Abstract!versions, Atomic!tables, Abstract!tables
<1>5. \A r : Atomic!submit(r) <=> Abstract!submit(r)
  BY DEF Atomic!submit, Abstract!submit, Atomic!locals, Abstract!locals, Atomic!time,
         Abstract!time, Atomic!versions, Abstract!versions, Atomic!tables,
         Abstract!tables, Atomic!goto, Abstract!goto, Atomic!submitted,
         Abstract!submitted, Atomic!moved, Abstract!moved, Atomic!number,
         Abstract!number
<1>6. \A r : Atomic!activate(r) <=> Abstract!activate(r)
  BY DEF Atomic!activate, Abstract!activate, Atomic!locals, Abstract!locals,
         Atomic!time, Abstract!time, Atomic!versions, Abstract!versions, Atomic!tables,
         Abstract!tables, Atomic!goto, Abstract!goto, Atomic!activated,
         Abstract!activated, Atomic!moved, Abstract!moved, Atomic!number,
         Abstract!number
<1>7. \A r : Atomic!publish_best_effort(r) <=> Abstract!publish_best_effort(r)
  BY DEF Atomic!publish_best_effort, Abstract!publish_best_effort, Atomic!time,
         Abstract!time, Atomic!pas, Abstract!pas, Atomic!versions, Abstract!versions,
         Atomic!tables, Abstract!tables, Atomic!goto, Abstract!goto
<1>8. \A r : Atomic!insert_binding(r) <=> Abstract!insert_binding(r)
  BY DEF Atomic!insert_binding, Abstract!insert_binding, Atomic!pas, Abstract!pas,
         Atomic!versions, Abstract!versions, Atomic!tables, Abstract!tables,
         Atomic!goto, Abstract!goto, Atomic!now, Abstract!now, Atomic!taken,
         Abstract!taken, Atomic!number, Abstract!number, Atomic!rivals, Abstract!rivals
<1>9. \A r : Atomic!bind_commit(r) <=> Abstract!bind_commit(r)
  BY DEF Atomic!bind_commit, Abstract!bind_commit, Atomic!locals, Abstract!locals,
         Atomic!time, Abstract!time, Atomic!pas, Abstract!pas, Atomic!versions,
         Abstract!versions, Atomic!committed, Abstract!committed, Atomic!goto,
         Abstract!goto, Atomic!audited, Abstract!audited, Atomic!number, Abstract!number
<1> QED
  BY <1>1, <1>2, <1>3, <1>4, <1>5, <1>6, <1>7, <1>8, <1>9 DEF Atomic!BindStep, Abstract!BindStep

\* So the mapped steps are steps of the instance that has the proofs.
LEMMA SameSteps ==
    [Atomic!Next]_(Atomic!vars) => [Abstract!Next]_(Abstract!vars)
<1>1. \A r : Atomic!create_submission(r) <=> Abstract!create_submission(r)
  BY DEF Atomic!create_submission, Abstract!create_submission, Atomic!locals,
         Abstract!locals, Atomic!time, Abstract!time, Atomic!pas, Abstract!pas,
         Atomic!versions, Abstract!versions, Atomic!goto, Abstract!goto,
         Atomic!committed, Abstract!committed, Atomic!audited, Abstract!audited,
         Atomic!stored, Abstract!stored, Atomic!SubmissionFacts,
         Abstract!SubmissionFacts, Atomic!Occupancy, Abstract!Occupancy,
         Atomic!LineOfBusiness, Abstract!LineOfBusiness
<1>2. \A r : Atomic!assess_start(r) <=> Abstract!assess_start(r)
  BY DEF Atomic!assess_start, Abstract!assess_start, Atomic!guarded, Abstract!guarded,
         Atomic!locals, Abstract!locals, Atomic!time, Abstract!time, Atomic!pas,
         Abstract!pas, Atomic!versions, Abstract!versions, Atomic!tables,
         Abstract!tables, Atomic!known, Abstract!known, Atomic!is_bound,
         Abstract!is_bound, Atomic!goto, Abstract!goto
<1>3. \A r : Atomic!AssessStep(r) <=> Abstract!AssessStep(r)
  BY DEF Atomic!AssessStep, Abstract!AssessStep, Atomic!assess_commit,
         Abstract!assess_commit, Atomic!locals, Abstract!locals, Atomic!time,
         Abstract!time, Atomic!pas, Abstract!pas, Atomic!versions, Abstract!versions,
         Atomic!committed, Abstract!committed, Atomic!goto, Abstract!goto,
         Atomic!audited, Abstract!audited, Atomic!assess, Abstract!assess,
         Atomic!refer_reasons, Abstract!refer_reasons, Atomic!above_authority,
         Abstract!above_authority, Atomic!reason, Abstract!reason,
         Atomic!out_of_appetite, Abstract!out_of_appetite, Atomic!decline_reasons,
         Abstract!decline_reasons, Atomic!excluded, Abstract!excluded,
         Atomic!sanctioned, Abstract!sanctioned, Atomic!flush, Abstract!flush,
         Atomic!tables, Abstract!tables, Atomic!now, Abstract!now,
         Atomic!assess_ruleset, Abstract!assess_ruleset, Atomic!read_current,
         Abstract!read_current, Atomic!current, Abstract!current
<1>4. \A r : Atomic!quote_start(r) <=> Abstract!quote_start(r)
  BY DEF Atomic!quote_start, Abstract!quote_start, Atomic!guarded, Abstract!guarded,
         Atomic!locals, Abstract!locals, Atomic!time, Abstract!time, Atomic!pas,
         Abstract!pas, Atomic!versions, Abstract!versions, Atomic!tables,
         Abstract!tables, Atomic!known, Abstract!known, Atomic!is_bound,
         Abstract!is_bound, Atomic!goto, Abstract!goto
<1>5. \A r : Atomic!QuoteStep(r) <=> Abstract!QuoteStep(r)
  BY DEF Atomic!QuoteStep, Abstract!QuoteStep, Atomic!quote_commit,
         Abstract!quote_commit, Atomic!locals, Abstract!locals, Atomic!time,
         Abstract!time, Atomic!pas, Abstract!pas, Atomic!versions, Abstract!versions,
         Atomic!committed, Abstract!committed, Atomic!goto, Abstract!goto,
         Atomic!audited, Abstract!audited, Atomic!flush, Abstract!flush, Atomic!tables,
         Abstract!tables, Atomic!now, Abstract!now, Atomic!quote_rate_table,
         Abstract!quote_rate_table, Atomic!read_current, Abstract!read_current,
         Atomic!current, Abstract!current, Atomic!quote_decision,
         Abstract!quote_decision, Atomic!latest_decision, Abstract!latest_decision,
         Atomic!decisions_of, Abstract!decisions_of
<1>6. \A r : Atomic!bind_start(r) <=> Abstract!bind_start(r)
  BY DEF Atomic!bind_start, Abstract!bind_start, Atomic!locals, Abstract!locals,
         Atomic!time, Abstract!time, Atomic!pas, Abstract!pas, Atomic!versions,
         Abstract!versions, Atomic!tables, Abstract!tables, Atomic!is_bound,
         Abstract!is_bound, Atomic!known, Abstract!known, Atomic!goto, Abstract!goto
<1>7. \A r : Atomic!pas_timeout(r) <=> Abstract!pas_timeout(r)
  BY DEF Atomic!pas_timeout, Abstract!pas_timeout, Atomic!locals, Abstract!locals,
         Atomic!time, Abstract!time, Atomic!versions, Abstract!versions, Atomic!tables,
         Abstract!tables, Atomic!goto, Abstract!goto, Atomic!number, Abstract!number
<1>8. \A r : Atomic!abort(r) <=> Abstract!abort(r)
  BY DEF Atomic!abort, Abstract!abort, Atomic!locals, Abstract!locals, Atomic!time,
         Abstract!time, Atomic!pas, Abstract!pas, Atomic!versions, Abstract!versions,
         Atomic!tables, Abstract!tables, Atomic!goto, Abstract!goto, Atomic!Answers,
         Abstract!Answers
<1>9. \A r : Atomic!pas_late(r) <=> Abstract!pas_late(r)
  BY DEF Atomic!pas_late, Abstract!pas_late, Atomic!locals, Abstract!locals,
         Atomic!time, Abstract!time, Atomic!versions, Abstract!versions, Atomic!tables,
         Abstract!tables, Atomic!activated, Abstract!activated, Atomic!moved,
         Abstract!moved, Atomic!submitted, Abstract!submitted, Atomic!created,
         Abstract!created, Atomic!exists, Abstract!exists
<1>10. \A r : Atomic!pas_cancel(r) <=> Abstract!pas_cancel(r)
  BY DEF Atomic!pas_cancel, Abstract!pas_cancel, Atomic!locals, Abstract!locals,
         Atomic!time, Abstract!time, Atomic!versions, Abstract!versions, Atomic!tables,
         Abstract!tables, Atomic!cancelled, Abstract!cancelled, Atomic!moved,
         Abstract!moved
<1>11. \A r : Atomic!create_ruleset(r) <=> Abstract!create_ruleset(r)
  BY DEF Atomic!create_ruleset, Abstract!create_ruleset, Atomic!locals, Abstract!locals,
         Atomic!time, Abstract!time, Atomic!pas, Abstract!pas, Atomic!tables,
         Abstract!tables
<1>12. \A r : Atomic!create_rate_table(r) <=> Abstract!create_rate_table(r)
  BY DEF Atomic!create_rate_table, Abstract!create_rate_table, Atomic!locals,
         Abstract!locals, Atomic!time, Abstract!time, Atomic!pas, Abstract!pas,
         Atomic!tables, Abstract!tables
<1>13. Atomic!midnight <=> Abstract!midnight
  BY DEF Atomic!midnight, Abstract!midnight, Atomic!locals, Abstract!locals, Atomic!pas,
         Abstract!pas, Atomic!versions, Abstract!versions, Atomic!tables,
         Abstract!tables
<1>14. UNCHANGED Atomic!vars <=> UNCHANGED Abstract!vars
  BY DEF Atomic!vars, Abstract!vars, Atomic!locals, Abstract!locals, Atomic!time,
         Abstract!time, Atomic!pas, Abstract!pas, Atomic!versions, Abstract!versions,
         Atomic!tables, Abstract!tables
<1>15. Atomic!Addressed = Abstract!Addressed
  BY DEF Atomic!Addressed, Abstract!Addressed
<1>16. Atomic!Next => Abstract!Next
  BY SameBindSteps, <1>1, <1>2, <1>3, <1>4, <1>5, <1>6, <1>7, <1>8, <1>9, <1>10, <1>11, <1>12, <1>13, <1>15
     DEF Atomic!Next, Abstract!Next
<1> QED
  BY <1>14, <1>16

\* Where the detailed bind starts, the mapping changes nothing.
LEMMA CoreSeen == CoreInv /\ [pc EXCEPT ![self] = abstract_step] = pc => Abstract!CoreInv
<1> SUFFICES ASSUME CoreInv, [pc EXCEPT ![self] = abstract_step] = pc
             PROVE  Abstract!CoreInv
  OBVIOUS
<1>1. TypeOK => Abstract!TypeOK
  BY  DEF TypeOK, Abstract!TypeOK, Addressed, Abstract!Addressed, NoQuote,
         Abstract!NoQuote, Steps, Abstract!Steps, BindSteps, Abstract!BindSteps,
         QuoteSteps, Abstract!QuoteSteps, AssessSteps, Abstract!AssessSteps, Answers,
         Abstract!Answers, Requests, Abstract!Requests, RulesetSpec,
         Abstract!RulesetSpec, Occupancy, Abstract!Occupancy, LineOfBusiness,
         Abstract!LineOfBusiness, LateCalls, Abstract!LateCalls, Policy,
         Abstract!Policy, PolicyStatus, Abstract!PolicyStatus, AuditEntries,
         Abstract!AuditEntries, Bindings, Abstract!Bindings, QuoteRows,
         Abstract!QuoteRows, Decisions, Abstract!Decisions, ReasonCode,
         Abstract!ReasonCode, Outcome, Abstract!Outcome, Submissions,
         Abstract!Submissions, SubmissionFacts, Abstract!SubmissionFacts
<1>2. AssessInv => Abstract!AssessInv
  BY  DEF AssessInv, Abstract!AssessInv, AssessSteps, Abstract!AssessSteps, Answers,
         Abstract!Answers
<1>3. QuoteInv => Abstract!QuoteInv
  BY  DEF QuoteInv, Abstract!QuoteInv, Undeclined, Abstract!Undeclined, QuoteSteps,
         Abstract!QuoteSteps, Answers, Abstract!Answers
<1>4. BindInv => Abstract!BindInv
  BY  DEF BindInv, Abstract!BindInv, is_bound, Abstract!is_bound, NoQuote,
         Abstract!NoQuote, Untouched, Abstract!Untouched, HasQuote, Abstract!HasQuote,
         HasDecision, Abstract!HasDecision, BindSteps, Abstract!BindSteps, was_accepted,
         Abstract!was_accepted, decisions_of, Abstract!decisions_of, Answers,
         Abstract!Answers
<1>5. PolicyInv => Abstract!PolicyInv
  BY  DEF PolicyInv, Abstract!PolicyInv, number, Abstract!number, HasActivated,
         Abstract!HasActivated, HasSubmitted, Abstract!HasSubmitted, HasPolicy,
         Abstract!HasPolicy, HasQuote, Abstract!HasQuote, HasDecision,
         Abstract!HasDecision, BindSteps, Abstract!BindSteps
<1>6. CancelInv => Abstract!CancelInv
  BY  DEF CancelInv, Abstract!CancelInv
<1>7. RivalInv => Abstract!RivalInv
  BY  DEF RivalInv, Abstract!RivalInv, rivals, Abstract!rivals, number, Abstract!number,
         taken, Abstract!taken
<1>8. QuotedInv => Abstract!QuotedInv
  BY  DEF QuotedInv, Abstract!QuotedInv, Undeclined, Abstract!Undeclined
<1>9. FlagInv => Abstract!FlagInv
  BY  DEF FlagInv, Abstract!FlagInv
<1>10. DecisionReplayable => Abstract!DecisionReplayable
  BY  DEF DecisionReplayable, Abstract!DecisionReplayable, assess, Abstract!assess,
         refer_reasons, Abstract!refer_reasons, above_authority,
         Abstract!above_authority, reason, Abstract!reason, out_of_appetite,
         Abstract!out_of_appetite, decline_reasons, Abstract!decline_reasons, excluded,
         Abstract!excluded, sanctioned, Abstract!sanctioned
<1>11. BindingBacked => Abstract!BindingBacked
  BY  DEF BindingBacked, Abstract!BindingBacked, was_accepted, Abstract!was_accepted,
         decisions_of, Abstract!decisions_of, quotes_of, Abstract!quotes_of
<1>12. UniqueBinding => Abstract!UniqueBinding
  BY  DEF UniqueBinding, Abstract!UniqueBinding
<1>13. PublishedFlagTruthful => Abstract!PublishedFlagTruthful
  BY  DEF PublishedFlagTruthful, Abstract!PublishedFlagTruthful
<1> QED
  BY <1>1, <1>2, <1>3, <1>4, <1>5, <1>6, <1>7, <1>8, <1>9, <1>10, <1>11, <1>12, <1>13 DEF CoreInv, Abstract!CoreInv

\* The accepted file that the bind starts from, with its decisions.
LEMMA AcceptedFile ==
    ASSUME CallsInit
    PROVE  /\ submission \subseteq Submissions
           /\ decision \subseteq Decisions
           /\ DecisionReplayable
<1>1. PICK f \in Bodies \intersect SubmissionFacts :
        LET verdict == assess(stored(f), Rulesets[1])
        IN  /\ verdict.outcome = "accept"
            /\ submission = {[id |-> c, facts |-> stored(f)] : c \in Creates}
            /\ decision = {[id |-> a, submission_id |-> target[a],
                            outcome |-> "accept",
                            reason_codes |-> verdict.reason_codes,
                            appetite_version |-> 1, decided_at |-> 0] : a \in Assesses}
  BY DEF CallsInit
<1> DEFINE facts == stored(f)
           verdict == assess(facts, Rulesets[1])
<1>2. facts \in SubmissionFacts
  BY StoredFacts
<1>3. verdict \in [outcome : Outcome, reason_codes : Seq(ReasonCode)]
  BY Precedence
<1>4. /\ verdict.outcome = "accept"
      /\ submission = {[id |-> c, facts |-> facts] : c \in Creates}
      /\ decision = {[id |-> a, submission_id |-> target[a], outcome |-> "accept",
                      reason_codes |-> verdict.reason_codes,
                      appetite_version |-> 1, decided_at |-> 0] : a \in Assesses}
  BY <1>1
<1>5. appetite_ruleset = {1}
  BY DEF CallsInit
<1> HIDE DEF facts
<1>6. assess(facts, Rulesets[1]) = verdict
  OBVIOUS
<1> HIDE DEF verdict
<1>7. verdict = [outcome |-> "accept", reason_codes |-> verdict.reason_codes]
  BY <1>3, <1>4
<1>8. submission \subseteq Submissions
  BY <1>2, <1>4 DEF Submissions
<1>9. ASSUME NEW d \in decision
      PROVE  /\ d \in Decisions /\ d.appetite_version = 1
             /\ \E row \in submission :
                   /\ row.id = d.submission_id
                   /\ assess(row.facts, Rulesets[1])
                         = [outcome |-> d.outcome, reason_codes |-> d.reason_codes]
  <2>1. PICK a \in Assesses :
          d = [id |-> a, submission_id |-> target[a], outcome |-> "accept",
               reason_codes |-> verdict.reason_codes, appetite_version |-> 1,
               decided_at |-> 0]
    BY <1>4
  <2>2. target[a] \in Creates
    BY RequestAssumption DEF Addressed
  <2>3. d \in Decisions /\ d.appetite_version = 1
    BY <1>3, <2>1, <2>2, DataAssumption DEF Decisions, Outcome
  <2>4. [id |-> target[a], facts |-> facts] \in submission
    BY <1>4, <2>2
  <2>5. assess(facts, Rulesets[1]) = [outcome |-> d.outcome, reason_codes |-> d.reason_codes]
    BY <1>6, <1>7, <2>1
  <2>6. d.submission_id = target[a]
    BY <2>1
  <2> QED
    BY <2>3, <2>4, <2>5, <2>6
<1>10. DecisionReplayable
  BY <1>5, <1>9 DEF DecisionReplayable
<1> QED
  BY <1>8, <1>9, <1>10

\* The bind has passed its guards: the risk is accepted and the quote its own.
LEMMA GuardsPassed ==
    ASSUME CallsInit
    PROVE  /\ quote \subseteq QuoteRows
           /\ \A q \in quote : was_accepted(q.submission_id)
           /\ picked \in [Binds -> Quotes]
           /\ \E q \in quote : q.id = picked[self] /\ q.submission_id = target[self]
           /\ number(self) \in PolicyNumbers
<1>1. /\ quote = {[id |-> q, submission_id |-> target[q], rate_table_version |-> 2,
                   created_at |-> q] : q \in Quotes}
      /\ \A q \in quote : was_accepted(q.submission_id)
  BY DEF CallsInit
<1>2. quote \subseteq QuoteRows
  <2>1. \A q \in Quotes : target[q] \in Creates /\ q \in Nat
    BY RequestAssumption DEF Addressed
  <2> QED
    BY <1>1, <2>1, DataAssumption DEF QuoteRows
<1>3. PICK q \in quote : latest_quote(q, target[self]) /\ picked = [b \in Binds |-> q.id]
  BY Zenon DEF CallsInit
<1>4. q.id \in Quotes /\ q.submission_id = target[self]
  BY <1>2, <1>3 DEF QuoteRows, latest_quote, quotes_of
<1>5. picked \in [Binds -> Quotes] /\ picked[self] = q.id
  BY <1>3, <1>4, Self
<1>6. number(self) \in PolicyNumbers
  BY <1>4, <1>5, DataAssumption DEF number
<1> QED
  BY <1>1, <1>2, <1>4, <1>5, <1>6

\* What earlier binds left in the PAS.
LEMMA EarlierBinds ==
    ASSUME CallsInit
    PROVE  /\ policy \in [PolicyNumbers -> Policy]
           /\ late \subseteq LateCalls
           /\ CancelInv
<1>1. PICK status \in PolicyStatus, active \in SUBSET PolicyNumbers :
        /\ policy = [n \in PolicyNumbers |->
              [status |-> IF n = number(self) THEN status
                          ELSE IF n \in active THEN "active" ELSE "none",
               effective_date |-> 0]]
        /\ late \in SUBSET pending(number(self), status)
        /\ status = "terminated" => number(self) \in Cancellable
  BY Zenon DEF CallsInit
<1>2. policy \in [PolicyNumbers -> Policy]
  BY <1>1 DEF Policy, PolicyStatus
<1>3. late \subseteq LateCalls
  <2>1. pending(number(self), status) \subseteq
          {[call |-> c, policy_number |-> number(self), day |-> 0] :
              c \in {"create_policy", "submit", "activate"}}
    BY <1>1 DEF pending, PolicyStatus
  <2>2. {[call |-> c, policy_number |-> number(self), day |-> 0] :
              c \in {"create_policy", "submit", "activate"}} \subseteq LateCalls
    BY GuardsPassed DEF LateCalls
  <2> QED
    BY <1>1, <2>1, <2>2
<1>4. CancelInv
  <2> SUFFICES ASSUME NEW n \in PolicyNumbers, policy[n].status = "terminated"
               PROVE  n \in Cancellable
    BY DEF CancelInv
  <2> QED
    BY <1>1
<1> QED
  BY <1>2, <1>3, <1>4

\* Where every request stands at the start.
LEMMA RequestsAtStart ==
    ASSUME CallsInit
    PROVE  /\ pc \in [Requests -> Steps]
           /\ \A b \in Binds : pc[b] = "create_policy"
           /\ \A r \in Requests \ Binds : pc[r] \in {"200", "201"}
<1>1. pc = [r \in Requests |-> CASE r \in Creates -> "201"
                                 [] r \in Binds -> "create_policy"
                                 [] OTHER -> "200"]
  BY Zenon DEF CallsInit
<1>2. \A b \in Binds : b \notin Creates /\ b \in Requests
  BY RequestAssumption DEF Requests, Addressed
<1>3. \A b \in Binds : pc[b] = "create_policy"
  BY <1>1, <1>2
<1>4. \A r \in Requests \ Binds : pc[r] \in {"200", "201"}
  BY <1>1
<1>5. {"create_policy", "200", "201"} \subseteq Steps
  BY DEF Steps, Answers, BindSteps
<1>6. \A r \in Requests : pc[r] \in Steps
  BY <1>3, <1>4, <1>5
<1> QED
  BY <1>1, <1>3, <1>4, <1>6

\* The audit log of the accepted file.
LEMMA AuditAtStart == ASSUME CallsInit PROVE audit_entry \subseteq AuditEntries
<1>1. audit_entry =
        {[id |-> c, submission_id |-> c, action |-> "submission.created",
          ruleset_version |-> 0] : c \in Creates}
        \union {[id |-> a, submission_id |-> target[a],
                 action |-> "submission.assessed", ruleset_version |-> 1] : a \in Assesses}
        \union {[id |-> q, submission_id |-> target[q], action |-> "quote",
                 ruleset_version |-> 2] : q \in Quotes}
  BY Zenon DEF CallsInit
<1>2. \A r \in Addressed : r \in Requests /\ target[r] \in Creates
  BY RequestAssumption DEF Requests
<1> QED
  BY <1>1, <1>2 DEF AuditEntries, Requests, Addressed

\* A bind that has passed its guards, with whatever earlier binds left in the PAS,
\* is where the workbench may be.
LEMMA CallsSound == CallsInit => CoreInv
<1> SUFFICES ASSUME CallsInit PROVE CoreInv
  OBVIOUS
<1>1. /\ binding = {} /\ appetite_ruleset = {1} /\ rate_table = {1, 2}
      /\ delivered = [b \in Binds |-> 0] /\ cover = [b \in Binds |-> 0]
      /\ published = [b \in Binds |-> FALSE]
      /\ today = 0 /\ clock \in Quotes /\ \A q \in Quotes : q <= clock
      /\ version = [r \in Assesses \union Quotes |-> IF r \in Quotes THEN 2 ELSE 1]
      /\ stamp = [r \in Addressed |-> IF r \in Quotes THEN r ELSE 0]
  BY Zenon DEF CallsInit
<1>2. clock \in Nat /\ stamp \in [Addressed -> 0 .. clock]
  <2>1. clock \in Nat /\ \A q \in Quotes : q \in 0 .. clock
    BY <1>1, RequestAssumption
  <2>2. 0 \in 0 .. clock
    BY <2>1
  <2> QED
    BY <1>1, <2>1, <2>2
<1>3. /\ today \in 0 .. MaxDay /\ cover \in [Binds -> 0 .. MaxDay]
      /\ delivered \in [Binds -> 0 .. MaxAttempts] /\ published \in [Binds -> BOOLEAN]
      /\ version \in [Assesses \union Quotes -> Nat]
      /\ appetite_ruleset \subseteq RulesetVersions /\ rate_table \subseteq RateTableVersions
      /\ picked \in [Binds -> Quotes \union {NoQuote}]
  BY <1>1, GuardsPassed, DataAssumption
<1>4. TypeOK
  BY <1>1, <1>2, <1>3, AcceptedFile, GuardsPassed, EarlierBinds, RequestsAtStart,
     AuditAtStart DEF TypeOK
<1>5. AssessInv /\ QuoteInv
  <2> \A r \in Assesses \union Quotes : r \in Requests \ Binds
    BY RequestAssumption DEF Requests, Addressed
  <2> QED
    BY RequestsAtStart DEF AssessInv, QuoteInv, Answers
<1>6. BindInv
  <2>1. was_accepted(target[self])
    BY GuardsPassed
  <2>2. \A b \in Binds : b = self
    BY SelfAssumption
  <2> QED
    BY <2>1, <2>2, GuardsPassed, RequestsAtStart
       DEF BindInv, BindSteps, HasDecision, HasQuote, Untouched
<1>7. PolicyInv
  BY RequestsAtStart DEF PolicyInv, HasPolicy, HasSubmitted, HasActivated
<1>8. RivalInv
  BY RequestsAtStart DEF RivalInv
<1>9. QuotedInv
  BY GuardsPassed DEF QuotedInv, Undeclined, was_accepted, decisions_of
<1>10. FlagInv /\ BindingBacked /\ UniqueBinding /\ PublishedFlagTruthful
  BY <1>1 DEF FlagInv, BindingBacked, UniqueBinding, PublishedFlagTruthful
<1> QED
  BY <1>4, <1>5, <1>6, <1>7, <1>8, <1>9, <1>10, AcceptedFile, EarlierBinds DEF CoreInv

\* At the start the mapping changes nothing.
LEMMA MappedAtStart == CallsInit => Abstract!CoreInv
<1> SUFFICES ASSUME CallsInit PROVE Abstract!CoreInv
  OBVIOUS
<1>1. pc[self] = "create_policy" /\ pc \in [Requests -> Steps]
  BY RequestsAtStart, Self
<1>2. phase = "ready"
  BY DEF CallsInit
<1>3. abstract_step = pc[self]
  BY <1>1, <1>2 DEF abstract_step
<1>4. [pc EXCEPT ![self] = abstract_step] = pc
  BY <1>1, <1>3
<1> QED
  BY <1>4, CallsSound, CoreSeen

\* The tables of the detailed bind are Workbench's own, not mapped.
LEMMA TablesAreTheSame ==
    Abstract!CoreInv => BindingBacked /\ PublishedFlagTruthful
BY DEF Abstract!CoreInv, BindingBacked, Abstract!BindingBacked,
       PublishedFlagTruthful, Abstract!PublishedFlagTruthful, was_accepted,
       Abstract!was_accepted, decisions_of, Abstract!decisions_of, quotes_of,
       Abstract!quotes_of

\* What Workbench promises of a binding holds of the bind as the code carries it
\* out, call by call: tokens asked for, requests and answers in flight, answers
\* lost or late, a lookup in a list that ends after one page, a process killed
\* while it publishes.  A binding that it records has a quote, an accepted risk
\* and an active policy behind it (or one that a PAS user may cancel), and claims
\* no event that NATS has not got.
THEOREM DetailedBindingsAreBacked ==
    ASSUME Faults
    PROVE  CallsSpec => [](BindingBacked /\ PublishedFlagTruthful)
<1> DEFINE Inv == MapInv /\ Abstract!CoreInv
<1>1. CallsInit => Inv
  BY MapInit, MappedAtStart
<1>2. Inv /\ [CallsNext]_calls_vars => Inv'
  <2> SUFFICES ASSUME MapInv, Abstract!CoreInv, [CallsNext]_calls_vars PROVE Inv'
    OBVIOUS
  <2>1. MapInv'
    BY MapStep
  <2>2. [Abstract!Next]_(Abstract!vars)
    BY SeenStep, SameSteps
  <2> QED
    BY <2>1, <2>2, CoreKept
<1>3. Inv => BindingBacked /\ PublishedFlagTruthful
  BY TablesAreTheSame
<1> QED
  BY <1>1, <1>2, <1>3, PTL DEF CallsSpec
=============================================================================
