--------------------------- MODULE MCRegistration ---------------------------
(* A small instance of Registration for TLC. *)
EXTENDS Registration

CONSTANTS m, r      \* the manager's goroutine and a request's

=============================================================================
