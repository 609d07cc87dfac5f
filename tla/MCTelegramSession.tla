------------------------- MODULE MCTelegramSession -------------------------
(* Model-checking instances of TelegramSession. *)
EXTENDS TelegramSession, TLC

CONSTANTS p1, p2

Button(a) == [action |-> a, typed |-> FALSE]
Typed(a)  == [action |-> a, typed |-> TRUE]
Add(p)    == [action |-> "add_item", typed |-> FALSE, productId |-> p,
              quantity |-> 1]
Remove(p) == [action |-> "remove_item", typed |-> FALSE, productId |-> p]

(* Orders placed with the button only. *)
ButtonMessages ==
    {Button("confirm_order"), Button("cancel"), Button("checkout"),
     Remove(p1), Add(p1)}

(* Leaving the review for the profile questions before confirming, with   *)
(* one typed word that the handler cannot take.                            *)
ProfileMessages ==
    {Button("confirm_order"), Button("update_profile"), Button("cancel"),
     Typed("add_item")}

(* The shortest life of an order. *)
OrderMessages == {Button("confirm_order"), Button("cancel")}

Stock1 == p1 :> 1
Stock11 == (p1 :> 1) @@ (p2 :> 1)
Stock10 == (p1 :> 1) @@ (p2 :> 0)

(* The session starts where earlier updates left a named customer with a   *)
(* reviewed cart.                                                          *)
Reviewed(cart) ==
    [FreshConversation EXCEPT !.state = "CONFIRMING",
                              !.cart = cart, !.bill = cart]

SomeCarts == {cart \in [Products -> 0 .. 1] : cart # EmptyCart}

MCInit ==
    /\ conv \in [Customers -> {Reviewed(cart) : cart \in SomeCarts}]
    /\ named = [c \in Customers |-> TRUE]
    /\ orders = [o \in OrderIds |-> UnusedOrder]
    /\ SessionInit

MCSpec == MCInit /\ [][Next]_vars

MCFairSpec == MCSpec /\ Fairness

Symmetry == Permutations(Updates) \cup Permutations(OrderIds)
                \cup Permutations(Workers) \cup Permutations(Customers)

=============================================================================
