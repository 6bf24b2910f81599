-------------------------- MODULE MCListOwnership --------------------------
(***************************************************************************)
(* The instance of ListOwnership that TLC checks.                          *)
(***************************************************************************)
EXTENDS ListOwnership

CONSTANTS a, b

MCInput == <<a, b>>
=============================================================================
