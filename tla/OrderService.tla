---------------------------- MODULE OrderService ----------------------------
(***************************************************************************)
(* The platform-neutral ordering core: src/src/core/orderService.js driven *)
(* by the transition table of src/src/core/stateMachine.js.  A customer    *)
(* has one conversation (state plus contextData) and any number of orders; *)
(* an inbound message or a staff/expiry decision is handled as one atomic  *)
(* step, which is what dependencies.withLock and, in the Durable Object,   *)
(* transactionSync give the callers.                                       *)
(*                                                                         *)
(* Abstracted data: a cart is the quantity of each product (names, prices, *)
(* the order of its lines are left out); a bill is the cart it was         *)
(* computed from, and EmptyCart stands for a missing or null bill; what    *)
(* the bot answers is left out, so every message that only answers is      *)
(* one Reply step.                                                         *)
(***************************************************************************)
EXTENDS Naturals, FiniteSets

CONSTANTS
    Customers,    \* customerId values
    Products,     \* productId values
    OrderIds,     \* what dependencies.createId() can return for an order
    NoOrder,      \* contextData.orderId of a conversation without an order
    NoCustomer,   \* owner of an order id that is not in use
    MaxQuantity,  \* bound: largest quantity of one product in a cart
    Messages      \* the inbound messages of this instance

PlainActions ==
    {"catalog", "new_order", "checkout", "confirm_order", "cancel",
     "update_profile",
     "skip",      \* the typed answer of the profile questions, "bo qua"
     "show"}      \* start, help, cart, status, view_product, resend_qr, ...

(* An InboundMessage.  typed: text with a null payload; otherwise a button.*)
AllMessages ==
         [action: PlainActions, typed: BOOLEAN]
    \cup [action: {"add_item"}, typed: {TRUE}]
    \cup [action: {"decrease_item", "remove_item"}, typed: {FALSE},
          productId: Products]
    \cup [action: {"add_item"}, typed: {FALSE},
          productId: Products, quantity: 1 .. MaxQuantity]

ASSUME OrderServiceAssumption ==
    /\ MaxQuantity \in Nat \ {0}
    /\ NoOrder \notin OrderIds
    /\ NoCustomer \notin Customers
    /\ Messages \subseteq AllMessages

VARIABLES
    conv,     \* conv[c]: ConversationState of customer c
    named,    \* named[c]: the customer record has a displayName
    orders    \* orders[o]: the order stored under id o

serviceVars == <<conv, named, orders>>

States == {"IDLE", "BROWSING", "CART", "CONFIRMING", "AWAITING_PAYMENT",
           "PAID", "DONE", "CANCELLED", "EXPIRED"}

OrderStatuses == {"NONE", "AWAITING_PAYMENT", "PAID", "CANCELLED", "EXPIRED"}
Terminal      == {"PAID", "CANCELLED", "EXPIRED"}

Carts     == [Products -> 0 .. MaxQuantity]
EmptyCart == [p \in Products |-> 0]

Conversation ==
    [state: States,                    \* currentState
     cart: Carts,                      \* contextData.cart
     bill: Carts,                      \* contextData.bill
     orderId: OrderIds \cup {NoOrder}, \* contextData.orderId
     step: {"none", "awaiting_name", "awaiting_phone"}] \* profileStep

Order == [status: OrderStatuses, customerId: Customers \cup {NoCustomer},
          items: Carts]

ServiceTypeOK ==
    /\ conv \in [Customers -> Conversation]
    /\ named \in [Customers -> BOOLEAN]
    /\ orders \in [OrderIds -> Order]

(* loadState: a customer without a stored row is IDLE with an empty cart. *)
FreshConversation ==
    [state |-> "IDLE", cart |-> EmptyCart, bill |-> EmptyCart,
     orderId |-> NoOrder, step |-> "none"]

UnusedOrder ==
    [status |-> "NONE", customerId |-> NoCustomer, items |-> EmptyCart]

ServiceInit ==
    /\ conv = [c \in Customers |-> FreshConversation]
    /\ named = [c \in Customers |-> FALSE]
    /\ orders = [o \in OrderIds |-> UnusedOrder]

-----------------------------------------------------------------------------
(* stateMachine.js: the triples <<state, event, next state>>.             *)

TRANSITIONS ==
    { <<"IDLE", "START_BROWSING", "BROWSING">>,
      <<"BROWSING", "START_BROWSING", "BROWSING">>,
      <<"BROWSING", "ADD_TO_CART", "CART">>,
      <<"BROWSING", "CANCEL", "CANCELLED">>,
      <<"CART", "ADD_TO_CART", "CART">>,
      <<"CART", "UPDATE_CART", "CART">>,
      <<"CART", "REVIEW_CART", "CONFIRMING">>,
      <<"CART", "CANCEL", "CANCELLED">>,
      <<"CONFIRMING", "ADD_TO_CART", "CART">>,
      <<"CONFIRMING", "UPDATE_CART", "CART">>,
      <<"CONFIRMING", "CONFIRM_ORDER", "AWAITING_PAYMENT">>,
      <<"CONFIRMING", "CANCEL", "CANCELLED">>,
      <<"AWAITING_PAYMENT", "PAYMENT_CONFIRMED", "PAID">>,
      <<"AWAITING_PAYMENT", "CANCEL", "CANCELLED">>,
      <<"AWAITING_PAYMENT", "PAYMENT_EXPIRED", "EXPIRED">>,
      <<"PAID", "COMPLETE", "DONE">>,
      <<"PAID", "START_NEW_ORDER", "BROWSING">>,
      <<"DONE", "START_NEW_ORDER", "BROWSING">>,
      <<"CANCELLED", "START_NEW_ORDER", "BROWSING">>,
      <<"EXPIRED", "START_NEW_ORDER", "BROWSING">> }

(* persistTransition: take the transition of event and write the context. *)
Transition(c, event, context) ==
    \E next \in States :
        /\ <<conv[c].state, event, next>> \in TRANSITIONS
        /\ conv' = [conv EXCEPT ![c] = [context EXCEPT !.state = next]]

-----------------------------------------------------------------------------
(* What the handlers read.                                                 *)

AwaitingOrders(c) ==
    {o \in OrderIds : /\ orders[o].customerId = c
                      /\ orders[o].status = "AWAITING_PAYMENT"}

(* pendingOrder() returns an order: the one of the context or, failing     *)
(* that, any awaiting order of the customer.                               *)
HasPending(c) == AwaitingOrders(c) # {}

(* profileGateResponse() returned null.                                    *)
Admitted(c) == named[c] /\ conv[c].step = "none"

-----------------------------------------------------------------------------
(* The profile questions.                                                  *)

SetProfileStep(c, step) == conv' = [conv EXCEPT ![c].step = step]

CanStartProfile(c, m) ==
    /\ conv[c].step = "none"
    /\ m.action = "update_profile" \/ ~named[c]

(* /thongtin, or any first message of a customer without a name.           *)
StartProfile(c, m) ==
    /\ CanStartProfile(c, m)
    /\ SetProfileStep(c, "awaiting_name")
    /\ UNCHANGED <<named, orders>>

CanAnswerName(c, m) ==
    /\ conv[c].step = "awaiting_name"
    /\ m.typed
    /\ m.action = "skip" => named[c]     \* nothing to keep the first time

AnswerName(c, m) ==
    /\ CanAnswerName(c, m)
    /\ SetProfileStep(c, "awaiting_phone")
    /\ named' = [named EXCEPT ![c] = TRUE]
    /\ UNCHANGED orders

CanAnswerPhone(c, m) == conv[c].step = "awaiting_phone" /\ m.typed

AnswerPhone(c, m) ==
    /\ CanAnswerPhone(c, m)
    /\ SetProfileStep(c, "none")
    /\ UNCHANGED <<named, orders>>

-----------------------------------------------------------------------------
(* Browsing and the cart.                                                  *)

CanStartFresh(c, m) ==
    /\ Admitted(c)
    /\ ~HasPending(c)
    /\ \/ /\ m.action = "catalog"
          /\ conv[c].state \in {"IDLE", "PAID", "DONE", "CANCELLED", "EXPIRED"}
       \/ /\ m.action = "new_order"
          /\ conv[c].state \in {"PAID", "DONE", "CANCELLED", "EXPIRED"}

(* Mutant: the context of the closed order is kept. *)
StartOnOldContext(c, m) ==
    /\ CanStartFresh(c, m)
    /\ Transition(c,
                  IF conv[c].state = "IDLE" THEN "START_BROWSING"
                                            ELSE "START_NEW_ORDER",
                  conv[c])
    /\ UNCHANGED <<named, orders>>

StartFreshOrder(c, m) ==
    /\ CanStartFresh(c, m)
    /\ Transition(c,
                  IF conv[c].state = "IDLE" THEN "START_BROWSING"
                                            ELSE "START_NEW_ORDER",
                  FreshConversation)
    /\ UNCHANGED <<named, orders>>

CanAddItem(c, m) ==
    /\ Admitted(c)
    /\ m.action = "add_item" /\ ~m.typed
    /\ conv[c].state \in {"BROWSING", "CART", "CONFIRMING"}

(* Mutant: a product is added without leaving the review. *)
AddDuringReview(c, m) ==
    /\ CanAddItem(c, m)
    /\ conv[c].cart[m.productId] + m.quantity <= MaxQuantity
    /\ conv' = [conv EXCEPT
           ![c].cart[m.productId] = @ + m.quantity,
           ![c].state = IF @ = "CONFIRMING" THEN @ ELSE "CART"]
    /\ UNCHANGED <<named, orders>>

AddItem(c, m) ==
    /\ CanAddItem(c, m)
    /\ conv[c].cart[m.productId] + m.quantity <= MaxQuantity   \* bound
    /\ Transition(c, "ADD_TO_CART",
                  [conv[c] EXCEPT !.cart[m.productId] = @ + m.quantity])
    /\ UNCHANGED <<named, orders>>

CanEditCart(c, m) ==
    /\ Admitted(c)
    /\ m.action \in {"decrease_item", "remove_item"}
    /\ conv[c].state \in {"CART", "CONFIRMING"}
    /\ conv[c].cart[m.productId] > 0

EditCart(c, m) ==
    /\ CanEditCart(c, m)
    /\ Transition(c, "UPDATE_CART",
                  [conv[c] EXCEPT
                      !.cart[m.productId] =
                          IF m.action = "remove_item" THEN 0 ELSE @ - 1,
                      !.bill = EmptyCart])
    /\ UNCHANGED <<named, orders>>

CanCheckout(c, m) ==
    /\ Admitted(c)
    /\ m.action = "checkout"
    /\ conv[c].cart # EmptyCart
    /\ conv[c].state = "CART"

Checkout(c, m) ==
    /\ CanCheckout(c, m)
    /\ Transition(c, "REVIEW_CART", [conv[c] EXCEPT !.bill = conv[c].cart])
    /\ UNCHANGED <<named, orders>>

-----------------------------------------------------------------------------
(* Placing and cancelling an order.                                        *)

CanConfirmOrder(c, m) ==
    /\ Admitted(c)
    /\ m.action = "confirm_order"
    /\ ~HasPending(c)
    /\ conv[c].state = "CONFIRMING"

ConfirmOrder(c, m) ==
    /\ CanConfirmOrder(c, m)
    /\ conv[c].cart # EmptyCart
    /\ \E o \in OrderIds :
        /\ orders[o].status = "NONE"                 \* createId() is fresh
        /\ orders' = [orders EXCEPT ![o] =
               [status |-> "AWAITING_PAYMENT", customerId |-> c,
                items |-> conv[c].cart]]
        /\ Transition(c, "CONFIRM_ORDER",
                      [conv[c] EXCEPT !.orderId = o, !.bill = conv[c].cart])
    /\ UNCHANGED named

CanCancel(c, m) ==
    /\ Admitted(c)
    /\ m.action = "cancel"
    /\ conv[c].state \notin {"CANCELLED", "IDLE", "PAID", "DONE", "EXPIRED"}

(* The order named by the context is set to CANCELLED whatever its status. *)
Cancel(c, m) ==
    /\ CanCancel(c, m)
    /\ Transition(c, "CANCEL", conv[c])
    /\ IF conv[c].orderId = NoOrder
       THEN UNCHANGED orders
       ELSE orders' = [orders EXCEPT ![conv[c].orderId].status = "CANCELLED"]
    /\ UNCHANGED named

-----------------------------------------------------------------------------
(* The messages below change the session; the others are only answered.   *)
(* Adding a product is also refused, with an answer, while it is not       *)
(* available.                                                              *)

Effective(c, m) ==
    \/ CanStartProfile(c, m) \/ CanAnswerName(c, m) \/ CanAnswerPhone(c, m)
    \/ CanStartFresh(c, m)   \/ CanAddItem(c, m)    \/ CanEditCart(c, m)
    \/ CanCheckout(c, m)     \/ CanConfirmOrder(c, m) \/ CanCancel(c, m)

(* add_item reads the quantity of the payload, and typed text has none: a  *)
(* TypeError, which is not an answer and leaves nothing changed.           *)
Throws(c, m) == Admitted(c) /\ m.action = "add_item" /\ m.typed

Reply(c, m) ==
    /\ ~Effective(c, m) \/ CanAddItem(c, m)
    /\ ~Throws(c, m)
    /\ UNCHANGED serviceVars

(* handleMessage(m) for customer c.                                        *)
HandleMessage(c, m) ==
    \/ StartProfile(c, m)
    \/ AnswerName(c, m)
    \/ AnswerPhone(c, m)
    \/ StartFreshOrder(c, m)
    \/ AddItem(c, m)
    \/ EditCart(c, m)
    \/ Checkout(c, m)
    \/ ConfirmOrder(c, m)
    \/ Cancel(c, m)
    \/ Reply(c, m)

-----------------------------------------------------------------------------
(* Staff confirmation and expiry of an order.                              *)

(* The order's status decides (requireAwaitingPayment); the conversation   *)
(* follows only while it still refers to this order.                       *)
(* Mutant: the order's own status is not looked at. *)
ResolveByConversation(o, status, event) ==
    LET c == orders[o].customerId IN
    /\ orders[o].status # "NONE"
    /\ orders' = [orders EXCEPT ![o].status = status]
    /\ \/ /\ conv[c].state = "AWAITING_PAYMENT"
          /\ Transition(c, event, conv[c])
       \/ /\ conv[c].state # "AWAITING_PAYMENT"
          /\ UNCHANGED conv
    /\ UNCHANGED named

Resolve(o, status, event) ==
    LET c == orders[o].customerId IN
    /\ orders[o].status = "AWAITING_PAYMENT"
    /\ orders' = [orders EXCEPT ![o].status = status]
    /\ \/ /\ conv[c].state = "AWAITING_PAYMENT" /\ conv[c].orderId = o
          /\ Transition(c, event, conv[c])
       \/ /\ ~(conv[c].state = "AWAITING_PAYMENT" /\ conv[c].orderId = o)
          /\ UNCHANGED conv
    /\ UNCHANGED named

ConfirmPayment(o) == Resolve(o, "PAID", "PAYMENT_CONFIRMED")
ExpireOrder(o)    == Resolve(o, "EXPIRED", "PAYMENT_EXPIRED")

-----------------------------------------------------------------------------
ServiceNext ==
    \/ \E c \in Customers, m \in Messages : HandleMessage(c, m)
    \/ \E o \in OrderIds : ConfirmPayment(o) \/ ExpireOrder(o)

ServiceSpec == ServiceInit /\ [][ServiceNext]_serviceVars

-----------------------------------------------------------------------------
(* Properties.                                                             *)

(* A customer's conversation is AWAITING_PAYMENT exactly when one of their *)
(* orders awaits payment, and then contextData.orderId names that order.   *)
(* It is what lets the handlers decide from the conversation alone, and    *)
(* what makes cancel hit the awaiting order and nothing else.              *)
ConversationFollowsOrder ==
    \A c \in Customers :
        AwaitingOrders(c) =
            IF conv[c].state = "AWAITING_PAYMENT" THEN {conv[c].orderId}
                                                  ELSE {}

(* A cart waiting for confirmation is not empty and is the cart the        *)
(* customer was shown the bill of: an edit always leads back to checkout.  *)
ConfirmingIsReviewed ==
    \A c \in Customers :
        conv[c].state = "CONFIRMING" =>
            conv[c].cart # EmptyCart /\ conv[c].bill = conv[c].cart

(* Nobody shops without having given a name: the profile questions cannot  *)
(* be left half-way by buttons, skips or commands.                         *)
ShoppersAreNamed ==
    \A c \in Customers : conv[c].state # "IDLE" => named[c]

(* An order in use has an owner, and a conversation that has not reached   *)
(* payment refers to no order: startFreshOrder dropped the reference, so   *)
(* cancelling a cart cannot touch the order bought before it.              *)
OrdersAreOwned ==
    \A o \in OrderIds :
        orders[o].status # "NONE" <=> orders[o].customerId \in Customers

CartsNameNoOrder ==
    \A c \in Customers :
        conv[c].state \in {"IDLE", "BROWSING", "CART", "CONFIRMING"} =>
            conv[c].orderId = NoOrder

(* The inductive invariant: the properties above hold because these six    *)
(* do together.                                                            *)
ServiceInv ==
    /\ ServiceTypeOK
    /\ OrdersAreOwned
    /\ CartsNameNoOrder
    /\ ConversationFollowsOrder
    /\ ConfirmingIsReviewed
    /\ ShoppersAreNamed

(* An order belongs to its customer for ever, its items never change, and  *)
(* once PAID, CANCELLED or EXPIRED it is never touched again (the audit of *)
(* the state machine: a resolved order stays final).                       *)
ResolvedIsFinal ==
    [][\A o \in OrderIds :
          orders[o].status # "NONE" =>
              /\ orders'[o].items = orders[o].items
              /\ orders'[o].customerId = orders[o].customerId
              /\ orders[o].status \in Terminal => orders'[o] = orders[o]
      ]_serviceVars

(* A new order is exactly what its customer was last shown the bill of,    *)
(* even when the cart was edited after an earlier checkout.                *)
PlacedAsReviewed ==
    [][\A o \in OrderIds :
          orders[o].status = "NONE" /\ orders'[o].status # "NONE" =>
              orders'[o].items = conv[orders'[o].customerId].bill
      ]_serviceVars

-----------------------------------------------------------------------------
(* The orders of this core behave as OrderLifecycle promises.              *)
Lifecycle ==
    INSTANCE OrderLifecycle
        WITH Baskets <- Carts,
             NoItems <- EmptyCart,
             status <- [o \in OrderIds |-> orders[o].status],
             owner <- [o \in OrderIds |-> orders[o].customerId],
             items <- [o \in OrderIds |-> orders[o].items]

(* Every step of the core is one the promise allows: a placement while the *)
(* customer has no awaiting order, one decision about an awaiting order,   *)
(* or no change to orders at all.                                          *)
RefinesLifecycle == Lifecycle!Spec
=============================================================================
