------------------------------ MODULE MCInvite ------------------------------
(***************************************************************************)
(* The instance of Invite that TLC checks.                                 *)
(***************************************************************************)
EXTENDS Invite

MCCodes == {180, 200, 401, 487}

=============================================================================
