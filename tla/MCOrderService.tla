--------------------------- MODULE MCOrderService ---------------------------
(* Model-checking instance of OrderService. *)
EXTENDS OrderService, TLC

Button(a)   == [action |-> a, typed |-> FALSE]
Typed(a)    == [action |-> a, typed |-> TRUE]

MCMessages ==
         {Button(a) : a \in PlainActions \ {"skip"}}
    \cup {Typed(a) : a \in {"show", "skip", "update_profile", "confirm_order",
                         "add_item"}}
    \cup [action: {"add_item"}, typed: {FALSE}, productId: Products,
          quantity: {1}]
    \cup [action: {"decrease_item", "remove_item"}, typed: {FALSE},
          productId: Products]

Symmetry == Permutations(Customers) \cup Permutations(Products)
                \cup Permutations(OrderIds)
=============================================================================
