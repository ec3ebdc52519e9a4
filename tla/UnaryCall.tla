----------------------------- MODULE UnaryCall -----------------------------
(***************************************************************************)
(* What one gRPC call promises its caller, and all the rest of the system  *)
(* relies on: it is carried out at most once and only if it was made, an   *)
(* answer means that it was, an error means nothing, and it ends only once.*)
(***************************************************************************)
EXTENDS Naturals

VARIABLES
    outcome,    \* what the caller knows: "unsent", "waiting", "answered", "error"
    ran         \* how often a handler was started

cvars == <<outcome, ran>>

Init == outcome = "unsent" /\ ran = 0

Send   == outcome = "unsent" /\ outcome' = "waiting" /\ UNCHANGED ran

\* Also when the caller has given up.
Run    == outcome # "unsent" /\ ran = 0 /\ ran' = 1 /\ UNCHANGED outcome

Answer == outcome = "waiting" /\ ran = 1 /\ outcome' = "answered" /\ UNCHANGED ran

Fail   == outcome = "waiting" /\ outcome' = "error" /\ UNCHANGED ran

Next == Send \/ Run \/ Answer \/ Fail

Spec == Init /\ [][Next]_cvars

=============================================================================
