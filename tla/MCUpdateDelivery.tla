-------------------------- MODULE MCUpdateDelivery --------------------------
(* Model-checking instance of UpdateDelivery. *)
EXTENDS UpdateDelivery, TLC
=============================================================================
