----------------------------- MODULE MCPublish -----------------------------
(***************************************************************************)
(* The instance of Publish that TLC checks.                                *)
(***************************************************************************)
EXTENDS Publish

MCCodes == {100, 200, 401, 407}

=============================================================================
