----------------------------- MODULE MCRegister -----------------------------
(***************************************************************************)
(* The instance of Register that TLC checks.                               *)
(***************************************************************************)
EXTENDS Register

MCCodes == {100, 200, 401, 407}
MCExpires == {0, 3600}

=============================================================================
