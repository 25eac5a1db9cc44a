---------------------------- MODULE MCSubscribe ----------------------------
(***************************************************************************)
(* The instance of Subscribe that TLC checks.                              *)
(***************************************************************************)
EXTENDS Subscribe

MCCodes == {100, 200, 401, 407, 408}

=============================================================================
