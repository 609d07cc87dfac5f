--------------------------- MODULE OrderLifecycle ---------------------------
(***************************************************************************)
(* What the ordering core promises about orders, with no conversations,    *)
(* carts or messages: an order is placed by one customer who has no other  *)
(* order awaiting payment, its items are fixed from then on, and it is     *)
(* decided once, for ever.                                                 *)
(***************************************************************************)
CONSTANTS Customers, OrderIds, NoCustomer, Baskets, NoItems

VARIABLES
    status,   \* status[o], "NONE" while o is not in use
    owner,    \* owner[o], the customer who placed o
    items     \* items[o], what was ordered

vars == <<status, owner, items>>

Init ==
    /\ status = [o \in OrderIds |-> "NONE"]
    /\ owner = [o \in OrderIds |-> NoCustomer]
    /\ items = [o \in OrderIds |-> NoItems]

Place(c, o, b) ==
    /\ status[o] = "NONE"
    /\ \A x \in OrderIds : owner[x] = c => status[x] # "AWAITING_PAYMENT"
    /\ b # NoItems
    /\ status' = [status EXCEPT ![o] = "AWAITING_PAYMENT"]
    /\ owner' = [owner EXCEPT ![o] = c]
    /\ items' = [items EXCEPT ![o] = b]

Decide(o, outcome) ==
    /\ status[o] = "AWAITING_PAYMENT"
    /\ status' = [status EXCEPT ![o] = outcome]
    /\ UNCHANGED <<owner, items>>

Next ==
    \E o \in OrderIds :
        \/ \E c \in Customers, b \in Baskets : Place(c, o, b)
        \/ \E outcome \in {"PAID", "CANCELLED", "EXPIRED"} : Decide(o, outcome)

Spec == Init /\ [][Next]_vars
=============================================================================
