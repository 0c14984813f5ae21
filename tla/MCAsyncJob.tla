----------------------------- MODULE MCAsyncJob -----------------------------
(* Two overlapping calls and three jobs, the third of which can be started  *)
(* while a call still holds what it learned about the first.                *)
EXTENDS AsyncJob, TLC

=============================================================================
