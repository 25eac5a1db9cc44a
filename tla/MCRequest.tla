----------------------------- MODULE MCRequest -----------------------------
(***************************************************************************)
(* The instance of Request that TLC checks: one code of each kind the      *)
(* callbacks tell apart, and both challenges.                              *)
(***************************************************************************)
EXTENDS Request

MCCodes == {100, 200, 401, 404, 407}

=============================================================================
