---------------------------- MODULE AbstractRequest ----------------------------
(***************************************************************************)
(* What one request to an isolated helper promises its caller: the call    *)
(* runs at most one helper process at a time, launches it a bounded number *)
(* of times, and gives its answer only when no process is left.  It says   *)
(* "cancelled" only of a session that is revoked.                          *)
(***************************************************************************)
EXTENDS Naturals

CONSTANT Restarts  \* SupervisorLimits::maximum_restarts

Answers == {"prepared", "refused", "failed", "cancelled"}

VARIABLES
  working,    \* a call is under way
  launches,   \* times it tried to start a helper
  live,       \* a helper process exists, running or not yet waited for
  cancelled,  \* the session is revoked: never taken back
  reply       \* the last answer, "none" while the call is under way

avars == <<working, launches, live, cancelled, reply>>

Init ==
  /\ ~working /\ ~live /\ ~cancelled
  /\ launches = 0
  /\ reply = "none"

Call ==
  /\ ~working /\ ~cancelled
  /\ working' = TRUE
  /\ launches' = 0
  /\ reply' = "none"
  /\ UNCHANGED <<live, cancelled>>

\* A revoked session answers without a helper.
Decline ==
  /\ ~working /\ cancelled
  /\ launches' = 0
  /\ reply' = "cancelled"
  /\ UNCHANGED <<working, live, cancelled>>

Launch ==
  /\ working /\ ~live /\ launches <= Restarts
  /\ launches' = launches + 1
  /\ live' \in BOOLEAN
  /\ UNCHANGED <<working, cancelled, reply>>

Stop ==
  /\ live
  /\ live' = FALSE
  /\ UNCHANGED <<working, launches, cancelled, reply>>

Revoke ==
  /\ ~cancelled
  /\ cancelled' = TRUE
  /\ UNCHANGED <<working, launches, live, reply>>

Answer ==
  /\ working /\ ~live /\ launches > 0
  /\ working' = FALSE
  /\ reply' \in Answers
  /\ reply' = "cancelled" => cancelled
  /\ UNCHANGED <<launches, live, cancelled>>

Next == Call \/ Decline \/ Launch \/ Stop \/ Revoke \/ Answer
Spec == Init /\ [][Next]_avars
=============================================================================
