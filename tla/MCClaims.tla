------------------------------ MODULE MCClaims ------------------------------
(***************************************************************************)
(* Instances of JobControl on which TLC refutes Claims.                    *)
(***************************************************************************)
EXTENDS Claims, MCJobControl

None == {}
=============================================================================
