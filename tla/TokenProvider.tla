--------------------------- MODULE TokenProvider ----------------------------
(***************************************************************************)
(* The client-credentials token that each PAS call of a bind carries        *)
(* (app/bind/token.py).  deps.py builds one provider per request, so the    *)
(* cache serves the few calls of one bind and no other thread.              *)
(*                                                                         *)
(* A token stands for the instant from which the PAS refuses it.  Bounds:   *)
(* Horizon (the clock stops there), Lives.                                  *)
(***************************************************************************)
EXTENDS Naturals

CONSTANTS
    Skew,          \* _EXPIRY_SKEW_SECONDS
    DefaultTtl,    \* _DEFAULT_TTL_SECONDS
    CallTimeout,   \* how long a request may take to arrive before httpx gives up
    Lives,         \* lifetimes the identity provider grants
    Horizon        \* bound on the clock

\* 30 s of skew against 10 s to connect and 10 s to write.
ASSUME TimeAssumption ==
    /\ Skew \in Nat /\ DefaultTtl \in Nat /\ CallTimeout \in Nat
    /\ CallTimeout <= Skew
    /\ Lives \subseteq Nat \ {0} /\ Horizon \in Nat

VARIABLES
    monotonic,             \* time.monotonic()
    _cached, _expires_at,  \* the provider's fields
    bearer, reused,        \* the token of the call at hand; was it cached?
    since                  \* when the HTTP request at hand began

provider == <<_cached, _expires_at>>
credential == <<bearer, reused, since>>
token_vars == <<monotonic, provider, credential>>

NoToken == 0

TokenInit ==
    /\ monotonic = 0
    /\ _cached = NoToken /\ _expires_at = 0
    /\ bearer = NoToken /\ reused = FALSE /\ since = 0

\* Slip: a token is used to its very end.
SlipNoSkew == _cached # NoToken /\ monotonic < _expires_at

fresh == _cached # NoToken /\ monotonic + Skew < _expires_at

token_cached ==
    /\ fresh
    /\ bearer' = _cached /\ reused' = TRUE /\ since' = monotonic
    /\ UNCHANGED <<monotonic, provider>>

\* POST to the token endpoint; "now" was read before it.
token_asked ==
    /\ ~ fresh
    /\ since' = monotonic
    /\ UNCHANGED <<monotonic, provider, bearer, reused>>

\* The identity provider issues the token at some moment of the exchange.  Its
\* expires_in is the life it grants; one that omits the field grants no less
\* than the default.
token_granted ==
    /\ \E life \in Lives, issued \in since .. monotonic :
          /\ _cached' = issued + life
          /\ \E ttl \in {life} \union {t \in {DefaultTtl} : t <= life} :
                _expires_at' = since + ttl
    /\ bearer' = _cached' /\ reused' = FALSE /\ since' = monotonic
    /\ UNCHANGED monotonic

\* Time passes, but no request waits longer than its timeout.
tick(waiting) ==
    /\ monotonic < Horizon
    /\ waiting => monotonic < since + CallTimeout
    /\ monotonic' = monotonic + 1
    /\ UNCHANGED <<provider, credential>>
=============================================================================
