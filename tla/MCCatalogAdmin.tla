--------------------------- MODULE MCCatalogAdmin ---------------------------
(* Model-checking instance of CatalogAdmin. *)
EXTENDS CatalogAdmin, TLC

CONSTANTS p1, n1, n2

Message(kind, p, n, q) ==
    [kind |-> kind, product |-> p, name |-> n, quantity |-> q]

(* Adding a product, and cancelling. *)
Adding == {Message("add", None, None, 1), Message("text", None, n2, 0),
           Message("category", None, None, 1), Message("cancel", None, None, 1)}

(* Editing one, keeping its value or not. *)
Editing == {Message("edit", p1, None, 1), Message("text", None, None, 1)}

(* Its stock, and whether it is sold. *)
Stocking == {Message("stock", p1, None, 1), Message("off", p1, None, 1)}

AllMessages == Adding \cup Editing \cup Stocking
=============================================================================
