----------------------- MODULE MCPaymentNotification -----------------------
(* Model-checking instance of PaymentNotification. *)
EXTENDS PaymentNotification, TLC

Symmetry == Permutations(Calls)
=============================================================================
