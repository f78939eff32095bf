-------------------------- MODULE UnderwritingFile --------------------------
(***************************************************************************)
(* What the workbench promises of each submission's file, with no requests, *)
(* threads, faults or policy service in sight: a file gains its milestones  *)
(* one at a time, in this order, and never loses one.                       *)
(***************************************************************************)
CONSTANT Files

VARIABLES
    received,  \* taken in
    judged,    \* has a decision
    accepted,  \* has an accepting decision
    priced,    \* has a quote
    covered,   \* has an active policy
    bound      \* has a binding

milestones == <<received, judged, accepted, priced, covered, bound>>

Init ==
    /\ received = {} /\ judged = {} /\ accepted = {}
    /\ priced = {} /\ covered = {} /\ bound = {}

Receive(s) ==
    /\ received' = received \union {s}
    /\ UNCHANGED <<judged, accepted, priced, covered, bound>>

\* A decision may accept or not; a file once accepted stays so marked.
Judge(s) ==
    /\ s \in received
    /\ judged' = judged \union {s}
    /\ accepted' \in {accepted, accepted \union {s}}
    /\ UNCHANGED <<received, priced, covered, bound>>

Price(s) ==
    /\ s \in judged
    /\ priced' = priced \union {s}
    /\ UNCHANGED <<received, judged, accepted, covered, bound>>

\* No cover without an acceptance and a price.
Cover(s) ==
    /\ s \in accepted \intersect priced
    /\ covered' = covered \union {s}
    /\ UNCHANGED <<received, judged, accepted, priced, bound>>

\* No binding without cover, and only one.
Bind(s) ==
    /\ s \in covered \ bound
    /\ bound' = bound \union {s}
    /\ UNCHANGED <<received, judged, accepted, priced, covered>>

Next ==
    \E s \in Files :
        Receive(s) \/ Judge(s) \/ Price(s) \/ Cover(s) \/ Bind(s)

Spec == Init /\ [][Next]_milestones
=============================================================================
