-------------------------- MODULE MCTemporaryAccess --------------------------
(* TemporaryAccess with one local request and one guest session.             *)
EXTENDS TemporaryAccess

=============================================================================
