----------------------------- MODULE MCOperator -----------------------------
(* Model-checking instance of Operator. *)
EXTENDS Operator
=============================================================================
