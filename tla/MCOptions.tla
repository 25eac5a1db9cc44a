----------------------------- MODULE MCOptions -----------------------------
(***************************************************************************)
(* The instance of Options that TLC checks: two of each list, so that a    *)
(* command line of five options can pass both limits.                      *)
(***************************************************************************)
EXTENDS Options

MCGarbage == 1000

=============================================================================
