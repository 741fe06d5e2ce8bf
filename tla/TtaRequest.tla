----------------------------- MODULE TtaRequest -----------------------------
(***************************************************************************)
(* What a caller of tta_request may rely on: a call ends, either with the  *)
(* answer to that very request or with a failure.                          *)
(***************************************************************************)
EXTENDS Naturals

VARIABLES
  req,     \* the number of the last request
  busy,    \* whether its call has not returned yet
  answer   \* the request answered by what it returned, 0 for none

vars == <<req, busy, answer>>

Init == req = 0 /\ busy = FALSE /\ answer = 0

Begin ==
  /\ ~busy
  /\ busy' = TRUE
  /\ req' = req + 1
  /\ answer' = 0

Succeed ==
  /\ busy
  /\ busy' = FALSE
  /\ answer' = req
  /\ UNCHANGED req

Fail ==
  /\ busy
  /\ busy' = FALSE
  /\ UNCHANGED <<req, answer>>

Next == Begin \/ Succeed \/ Fail

Spec == Init /\ [][Next]_vars /\ WF_vars(Succeed \/ Fail)

=============================================================================
