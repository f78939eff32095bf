------------------------------- MODULE Access -------------------------------
(***************************************************************************)
(* Who may call an endpoint, and who is recorded as its caller              *)
(* (app/api/auth.py): pure functions of the Authorization header, the JWKS   *)
(* and the required scope.                                                   *)
(***************************************************************************)
EXTENDS Sequences

CONSTANTS
    AuthOn,  \* AUTHENTIK_JWKS_URL is set
    Names    \* what identity claims hold

Scopes == {"underwriting:read", "underwriting:write"}

\* What a caller sends.  A scope claim that is no string counts as empty.
Credential ==
    [bearer : BOOLEAN,              \* the header starts with "Bearer "
     sound : BOOLEAN,               \* the signature verifies against the JWKS
     scope : SUBSET Scopes,
     identity : Seq(Names)]         \* preferred_username, email, sub, if present

DEV_ACTOR == "underwriter@ktayl"

\* exp has passed, or the JWKS cannot be fetched: both are PyJWTErrors.
decodes(c, lapsed) == c.bearer /\ c.sound /\ ~ lapsed

\* Slip: a route without dependencies=[_WRITE]; its actor is all that is checked.
SlipNoScope(c, required, lapsed) ==
    IF AuthOn /\ ~ decodes(c, lapsed) THEN "401" ELSE "ok"

\* "ok", or the status of the refusal.
require_scope(c, required, lapsed) ==
    IF ~ AuthOn THEN "ok"
    ELSE IF ~ decodes(c, lapsed) THEN "401"
    ELSE IF required \notin c.scope THEN "403"
    ELSE "ok"

current_actor(c) ==
    IF ~ AuthOn THEN DEV_ACTOR
    ELSE IF c.identity = <<>> THEN "unknown"
    ELSE Head(c.identity)
=============================================================================
