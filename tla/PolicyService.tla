--------------------------- MODULE PolicyService ----------------------------
(***************************************************************************)
(* The live policy administration service (PAS), a separate Go service that *)
(* the workbench calls over HTTP and does not own.  It is modelled from how *)
(* app/bind/policy_client.py uses it and from the vendored contract         *)
(* tests/contract/policy_service_openapi.yaml: one row per policy_number,   *)
(* a lifecycle draft -> submitted -> active, and a cancel that soft-deletes *)
(* a draft.  A call that finds the row in another status answers 409 and    *)
(* leaves it alone.                                                         *)
(***************************************************************************)
EXTENDS Naturals

PolicyStatus == {"none", "draft", "submitted", "active", "terminated"}

\* The row of a policy_number; effective_date is a day number.
Policy == [status : PolicyStatus, effective_date : Nat]

NoPolicy == [status |-> "none", effective_date |-> 0]

exists(p) == p.status # "none"

\* POST /v1/policies: 201 with a draft, or 409 when the number is taken.
created(p, day) ==
    IF exists(p) THEN p ELSE [status |-> "draft", effective_date |-> day]

moved(p, status) == [status |-> status, effective_date |-> p.effective_date]

\* POST /v1/policies/{id}/submit and /activate: one step forward, or 409.
submitted(p) == IF p.status = "draft" THEN moved(p, "submitted") ELSE p

activated(p) == IF p.status = "submitted" THEN moved(p, "active") ELSE p

\* DELETE /v1/policies/{id}: cancel a draft, or refuse.
cancelled(p) == IF p.status = "draft" THEN moved(p, "terminated") ELSE p
=============================================================================
