----------------------------- MODULE Publisher ------------------------------
(***************************************************************************)
(* NatsBoundRiskPublisher.publish: up to MaxAttempts times connect, publish, *)
(* flush and drain, each of which may raise; the last failure is re-raised. *)
(***************************************************************************)
EXTENDS Naturals

CONSTANT MaxAttempts   \* max(1, max_attempts)

VARIABLES
    attempt,  \* number of the attempt at hand
    stage,    \* what it does next, or how publish() ended
    wire,     \* messages buffered or sent, and not received: 0 or 1
    copies    \* copies NATS received

\* "unwind" is the drain of the finally block while an exception is raised.
Stages == {"connect", "publish", "flush", "drain", "unwind", "returned", "raised"}

PublishInit == attempt = 1 /\ stage = "connect" /\ wire = 0 /\ copies = 0

\* Slip: the loop forgets which attempt it is on.
SlipNotCounted == attempt' = attempt /\ stage' = "connect"

\* Slip: the first failure is final.
SlipNoRetry == attempt' = attempt /\ stage' = "raised"

\* except Exception: try again, or re-raise after the last attempt.
attempt_failed ==
    IF attempt < MaxAttempts
      THEN attempt' = attempt + 1 /\ stage' = "connect"
      ELSE attempt' = attempt /\ stage' = "raised"

\* A connection that cannot be made needs no drain.
nats_connect ==
    /\ stage = "connect"
    /\ \/ stage' = "publish" /\ UNCHANGED attempt
       \/ attempt_failed
    /\ UNCHANGED <<wire, copies>>

nats_publish ==
    /\ stage = "publish"
    /\ \/ stage' = "flush" /\ wire' = 1
       \/ stage' = "unwind" /\ UNCHANGED wire
    /\ UNCHANGED <<attempt, copies>>

nats_receives ==
    /\ wire = 1
    /\ wire' = 0 /\ copies' = copies + 1
    /\ UNCHANGED <<attempt, stage>>

\* The PONG comes after the message; without it flush raises in the end.
nats_flush ==
    /\ stage = "flush"
    /\ \/ stage' = "drain" /\ wire = 0
       \/ stage' = "unwind"
    /\ UNCHANGED <<attempt, wire, copies>>

\* A message still buffered when its connection closes may be lost or not.
closed == wire' = 0 /\ copies' \in copies .. copies + wire

\* finally: drain, which may raise as well.
nats_drain ==
    /\ stage \in {"drain", "unwind"}
    /\ closed
    /\ \/ stage = "drain" /\ stage' = "returned" /\ UNCHANGED attempt
       \/ attempt_failed
=============================================================================
