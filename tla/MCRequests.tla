----------------------------- MODULE MCRequests -----------------------------
(* The instance of Requests for TLC. *)
EXTENDS Requests
=============================================================================
