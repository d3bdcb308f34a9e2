--------------------------- MODULE MCAuthHandshake ---------------------------
(***************************************************************************)
(* AuthHandshake for TLC: two registrations with two invitations and two   *)
(* passwords race, and two finishes of one handshake.                      *)
(***************************************************************************)
EXTENDS AuthHandshake
=============================================================================
