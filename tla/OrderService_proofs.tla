------------------------ MODULE OrderService_proofs ------------------------
(***************************************************************************)
(* Theorems about OrderService for every set of customers, products,       *)
(* orders and messages: its types, the invariant that ties conversations   *)
(* to orders, and the refinement of OrderLifecycle.                        *)
(***************************************************************************)
EXTENDS OrderService, TLAPS

-----------------------------------------------------------------------------
(* The transition table.                                                   *)

(* An event leads to one state, from wherever it is allowed.               *)
LEMMA EventTargets ==
    ASSUME NEW s, NEW e, NEW n, <<s, e, n>> \in TRANSITIONS
    PROVE  /\ e \in {"START_BROWSING", "START_NEW_ORDER"} => n = "BROWSING"
           /\ e \in {"ADD_TO_CART", "UPDATE_CART"} => n = "CART"
           /\ e = "REVIEW_CART" => n = "CONFIRMING"
           /\ e = "CONFIRM_ORDER" => n = "AWAITING_PAYMENT"
           /\ e = "CANCEL" => n = "CANCELLED"
           /\ e = "PAYMENT_CONFIRMED" => n = "PAID"
           /\ e = "PAYMENT_EXPIRED" => n = "EXPIRED"
  BY DEF TRANSITIONS

(* A transition writes one conversation: the context, in the new state.    *)
LEMMA TransitionWrites ==
    ASSUME ServiceTypeOK, NEW c \in Customers, NEW e,
           NEW context \in Conversation, Transition(c, e, context)
    PROVE  /\ conv' \in [Customers -> Conversation]
           /\ \A d \in Customers \ {c} : conv'[d] = conv[d]
           /\ \E n \in States : /\ <<conv[c].state, e, n>> \in TRANSITIONS
                                /\ conv'[c] = [context EXCEPT !.state = n]
  <1>1. PICK n \in States :
            /\ <<conv[c].state, e, n>> \in TRANSITIONS
            /\ conv' = [conv EXCEPT ![c] = [context EXCEPT !.state = n]]
    BY DEF Transition
  <1>2. [context EXCEPT !.state = n] \in Conversation
    BY DEF Conversation
  <1> QED
    BY <1>1, <1>2 DEF ServiceTypeOK

(* A message with an operand has it in range.                              *)
LEMMA MessageOperands ==
    ASSUME NEW m \in Messages
    PROVE  /\ m.action \in {"decrease_item", "remove_item"}
                 => m.productId \in Products
           /\ m.action = "add_item" /\ ~m.typed =>
                 m.productId \in Products /\ m.quantity \in 1 .. MaxQuantity
  BY OrderServiceAssumption DEF OrderServiceAssumption, AllMessages,
     PlainActions

LEMMA FreshTypes ==
    FreshConversation \in Conversation /\ UnusedOrder \in Order
  BY OrderServiceAssumption
  DEF FreshConversation, Conversation, UnusedOrder, Order, EmptyCart, Carts,
      States, OrderStatuses, OrderServiceAssumption

-----------------------------------------------------------------------------
(* Types.                                                                  *)

LEMMA MessageStepTypes ==
    ASSUME ServiceTypeOK, NEW c \in Customers, NEW m \in Messages,
           HandleMessage(c, m)
    PROVE  ServiceTypeOK'
  <1> USE DEF ServiceTypeOK
  <1>0. conv[c] \in Conversation
    OBVIOUS
  <1>1. CASE StartProfile(c, m)
    BY <1>1 DEF StartProfile, SetProfileStep, Conversation
  <1>2. CASE AnswerName(c, m)
    BY <1>2 DEF AnswerName, SetProfileStep, Conversation
  <1>3. CASE AnswerPhone(c, m)
    BY <1>3 DEF AnswerPhone, SetProfileStep, Conversation
  <1>4. CASE StartFreshOrder(c, m)
    BY <1>4, FreshTypes, TransitionWrites DEF StartFreshOrder
  <1>5. CASE AddItem(c, m)
    <2> DEFINE context ==
            [conv[c] EXCEPT !.cart[m.productId] = @ + m.quantity]
    <2>1. m.productId \in Products /\ m.quantity \in 1 .. MaxQuantity
      BY <1>5, MessageOperands DEF AddItem, CanAddItem
    <2>2. context.cart \in Carts
      BY <1>0, <1>5, <2>1, OrderServiceAssumption
      DEF AddItem, Conversation, Carts, OrderServiceAssumption
    <2>3. context \in Conversation
      BY <1>0, <2>2 DEF Conversation
    <2> QED
      BY <1>5, <2>3, TransitionWrites DEF AddItem
  <1>6. CASE EditCart(c, m)
    <2> DEFINE edited == IF m.action = "remove_item" THEN 0
                         ELSE conv[c].cart[m.productId] - 1
               context ==
                   [conv[c] EXCEPT
                      !.cart[m.productId] =
                          IF m.action = "remove_item" THEN 0 ELSE @ - 1,
                      !.bill = EmptyCart]
    <2>1. m.productId \in Products
      BY <1>6, MessageOperands DEF EditCart, CanEditCart
    <2>2. edited \in 0 .. MaxQuantity
      BY <1>0, <1>6, <2>1, OrderServiceAssumption
      DEF EditCart, CanEditCart, Conversation, Carts, OrderServiceAssumption
    <2>3. context.cart \in Carts /\ context.bill \in Carts
      BY <1>0, <2>1, <2>2, OrderServiceAssumption
      DEF Conversation, Carts, EmptyCart, OrderServiceAssumption
    <2>4. context \in Conversation
      BY <1>0, <2>3 DEF Conversation
    <2> QED
      BY <1>6, <2>4, TransitionWrites DEF EditCart
  <1>7. CASE Checkout(c, m)
    <2>1. [conv[c] EXCEPT !.bill = conv[c].cart] \in Conversation
      BY <1>0 DEF Conversation
    <2> QED
      BY <1>7, <2>1, TransitionWrites DEF Checkout
  <1>8. CASE ConfirmOrder(c, m)
    <2>1. PICK o \in OrderIds :
              /\ orders' = [orders EXCEPT ![o] =
                     [status |-> "AWAITING_PAYMENT", customerId |-> c,
                      items |-> conv[c].cart]]
              /\ Transition(c, "CONFIRM_ORDER",
                     [conv[c] EXCEPT !.orderId = o, !.bill = conv[c].cart])
      BY <1>8 DEF ConfirmOrder
    <2>2. [conv[c] EXCEPT !.orderId = o, !.bill = conv[c].cart]
              \in Conversation
      BY <1>0 DEF Conversation
    <2>3. conv' \in [Customers -> Conversation]
      BY <2>1, <2>2, TransitionWrites
    <2>4. orders' \in [OrderIds -> Order]
      BY <1>0, <2>1 DEF Order, OrderStatuses, Conversation
    <2> QED
      BY <1>8, <2>3, <2>4 DEF ConfirmOrder
  <1>9. CASE Cancel(c, m)
    <2>1. conv' \in [Customers -> Conversation]
      BY <1>0, <1>9, TransitionWrites DEF Cancel
    <2>2. orders' \in [OrderIds -> Order]
      <3>1. CASE conv[c].orderId = NoOrder
        BY <1>9, <3>1 DEF Cancel
      <3>2. CASE conv[c].orderId # NoOrder
        <4> DEFINE o == conv[c].orderId
        <4>1. o \in OrderIds
          BY <1>0, <3>2 DEF Conversation
        <4>2. orders' = [orders EXCEPT ![o].status = "CANCELLED"]
          BY <1>9, <3>2 DEF Cancel
        <4>3. [orders[o] EXCEPT !.status = "CANCELLED"] \in Order
          BY <4>1 DEF Order, OrderStatuses
        <4> QED
          BY <4>1, <4>2, <4>3
      <3> QED
        BY <3>1, <3>2
    <2> QED
      BY <1>9, <2>1, <2>2 DEF Cancel
  <1>10. CASE Reply(c, m)
    BY <1>10 DEF Reply, serviceVars
  <1> QED
    BY <1>1, <1>2, <1>3, <1>4, <1>5, <1>6, <1>7, <1>8, <1>9, <1>10
    DEF HandleMessage

LEMMA ResolveStepTypes ==
    ASSUME ServiceTypeOK, OrdersAreOwned, NEW o \in OrderIds,
           NEW s \in {"PAID", "EXPIRED"}, NEW e, Resolve(o, s, e)
    PROVE  ServiceTypeOK'
  <1>1. orders[o].customerId \in Customers
    BY DEF Resolve, OrdersAreOwned
  <1>2. conv' \in [Customers -> Conversation]
    BY <1>1, TransitionWrites DEF Resolve, ServiceTypeOK
  <1>3. orders' \in [OrderIds -> Order]
    BY DEF Resolve, ServiceTypeOK, Order, OrderStatuses
  <1> QED
    BY <1>2, <1>3 DEF Resolve, ServiceTypeOK
-----------------------------------------------------------------------------
(* The invariant, one customer at a time.                                  *)

CustomerInv(c) ==
    /\ AwaitingOrders(c) =
           IF conv[c].state = "AWAITING_PAYMENT" THEN {conv[c].orderId} ELSE {}
    /\ conv[c].state \in {"IDLE", "BROWSING", "CART", "CONFIRMING"} =>
           conv[c].orderId = NoOrder
    /\ conv[c].state = "CONFIRMING" =>
           conv[c].cart # EmptyCart /\ conv[c].bill = conv[c].cart
    /\ conv[c].state # "IDLE" => named[c]

LEMMA InvByCustomer ==
    ServiceInv <=> /\ ServiceTypeOK
                   /\ OrdersAreOwned
                   /\ \A c \in Customers : CustomerInv(c)
  BY DEF ServiceInv, CartsNameNoOrder, ConversationFollowsOrder,
         ConfirmingIsReviewed, ShoppersAreNamed, CustomerInv

(* The order a cancellation writes to is the customer's awaiting order.    *)
LEMMA CancelHitsAwaiting ==
    ASSUME ServiceInv, NEW c \in Customers, NEW m, CanCancel(c, m),
           conv[c].orderId # NoOrder
    PROVE  /\ conv[c].state = "AWAITING_PAYMENT"
           /\ conv[c].orderId \in OrderIds
           /\ orders[conv[c].orderId].status = "AWAITING_PAYMENT"
           /\ orders[conv[c].orderId].customerId = c
  <1>1. conv[c].state \in States
    BY DEF ServiceInv, ServiceTypeOK, Conversation
  <1>2. conv[c].state = "AWAITING_PAYMENT"
    BY <1>1 DEF ServiceInv, CartsNameNoOrder, CanCancel, States
  <1>3. conv[c].orderId \in AwaitingOrders(c)
    BY <1>2 DEF ServiceInv, ConversationFollowsOrder
  <1> QED
    BY <1>2, <1>3 DEF AwaitingOrders

(* A message concerns its own customer only.                               *)
Untouched(d) ==
    /\ conv'[d] = conv[d] /\ named'[d] = named[d]
    /\ \A o \in OrderIds :
          orders[o].customerId = d \/ orders'[o].customerId = d
              => orders'[o] = orders[o]

LEMMA UntouchedKeepsInv ==
    ASSUME NEW d \in Customers, CustomerInv(d), Untouched(d)
    PROVE  CustomerInv(d)'
  <1>1. AwaitingOrders(d)' = AwaitingOrders(d)
    BY DEF Untouched, AwaitingOrders
  <1> QED
    BY <1>1 DEF Untouched, CustomerInv

LEMMA MessageKeepsOthers ==
    ASSUME ServiceInv, NEW c \in Customers, NEW m \in Messages,
           HandleMessage(c, m), NEW d \in Customers \ {c}
    PROVE  Untouched(d)
  <1> USE DEF ServiceInv
  <1>1. conv[c] \in Conversation /\ FreshConversation \in Conversation
    BY FreshTypes DEF ServiceTypeOK
  <1>2. CASE StartProfile(c, m) \/ AnswerName(c, m) \/ AnswerPhone(c, m)
    BY <1>2 DEF StartProfile, AnswerName, AnswerPhone, SetProfileStep,
       Untouched, ServiceTypeOK
  <1>3. CASE StartFreshOrder(c, m) \/ AddItem(c, m) \/ EditCart(c, m)
                \/ Checkout(c, m)
    <2>1. conv'[d] = conv[d]
      BY <1>3 DEF StartFreshOrder, AddItem, EditCart, Checkout, Transition,
         ServiceTypeOK
    <2> QED
      BY <1>3, <2>1 DEF StartFreshOrder, AddItem, EditCart, Checkout,
         Untouched
  <1>4. CASE ConfirmOrder(c, m)
    <2>1. PICK o \in OrderIds :
              /\ orders[o].status = "NONE"
              /\ orders' = [orders EXCEPT ![o] =
                     [status |-> "AWAITING_PAYMENT", customerId |-> c,
                      items |-> conv[c].cart]]
      BY <1>4 DEF ConfirmOrder
    <2>2. conv'[d] = conv[d] /\ named' = named
      BY <1>4 DEF ConfirmOrder, Transition, ServiceTypeOK
    <2>3. orders[o].customerId # d
      BY <2>1 DEF OrdersAreOwned
    <2>4. \A x \in OrderIds \ {o} : orders'[x] = orders[x]
      BY <2>1 DEF ServiceTypeOK
    <2>5. orders'[o].customerId = c
      BY <2>1 DEF ServiceTypeOK
    <2> QED
      BY <2>2, <2>3, <2>4, <2>5 DEF Untouched
  <1>5. CASE Cancel(c, m)
    <2>1. conv'[d] = conv[d] /\ named' = named
      BY <1>5 DEF Cancel, Transition, ServiceTypeOK
    <2>2. CASE conv[c].orderId = NoOrder
      BY <1>5, <2>1, <2>2 DEF Cancel, Untouched
    <2>3. CASE conv[c].orderId # NoOrder
      <3> DEFINE o == conv[c].orderId
      <3>1. o \in OrderIds /\ orders[o].customerId = c
        BY <1>5, <2>3, CancelHitsAwaiting DEF Cancel
      <3>2. orders' = [orders EXCEPT ![o].status = "CANCELLED"]
        BY <1>5, <2>3 DEF Cancel
      <3>3. orders'[o].customerId = c
        BY <3>1, <3>2 DEF ServiceTypeOK, Order
      <3>4. \A x \in OrderIds \ {o} : orders'[x] = orders[x]
        BY <3>2 DEF ServiceTypeOK
      <3> QED
        BY <2>1, <3>1, <3>3, <3>4 DEF Untouched
    <2> QED
      BY <2>2, <2>3
  <1>6. CASE Reply(c, m)
    BY <1>6 DEF Reply, serviceVars, Untouched
  <1> QED
    BY <1>2, <1>3, <1>4, <1>5, <1>6 DEF HandleMessage

LEMMA MessageKeepsOwn ==
    ASSUME ServiceInv, NEW c \in Customers, NEW m \in Messages,
           HandleMessage(c, m)
    PROVE  CustomerInv(c)'
  <1>1. conv \in [Customers -> Conversation] /\ conv[c] \in Conversation
           /\ FreshConversation \in Conversation
           /\ named \in [Customers -> BOOLEAN]
           /\ orders \in [OrderIds -> Order]
    BY FreshTypes DEF ServiceInv, ServiceTypeOK
  <1>2. CustomerInv(c)
    BY InvByCustomer
  <1>3. ASSUME UNCHANGED orders
        PROVE  AwaitingOrders(c)' = AwaitingOrders(c)
    BY <1>3 DEF AwaitingOrders
  <1>4. CASE StartProfile(c, m) \/ AnswerName(c, m) \/ AnswerPhone(c, m)
    <2>1. /\ UNCHANGED orders
          /\ named'[c] \in {named[c], TRUE}
          /\ \E s : conv'[c] = [conv[c] EXCEPT !.step = s]
      BY <1>1, <1>4 DEF StartProfile, AnswerName, AnswerPhone, SetProfileStep
    <2>2. /\ conv'[c].state = conv[c].state
          /\ conv'[c].orderId = conv[c].orderId
          /\ conv'[c].cart = conv[c].cart /\ conv'[c].bill = conv[c].bill
      BY <1>1, <2>1 DEF Conversation
    <2> QED
      BY <1>2, <1>3, <2>1, <2>2 DEF CustomerInv
  <1>5. CASE StartFreshOrder(c, m)
    <2>1. AwaitingOrders(c)' = {} /\ named'[c]
      BY <1>3, <1>5 DEF StartFreshOrder, CanStartFresh, HasPending, Admitted
    <2>2. PICK n : /\ n = "BROWSING"
                   /\ conv'[c] = [FreshConversation EXCEPT !.state = n]
      BY <1>1, <1>5, EventTargets DEF StartFreshOrder, Transition
    <2>3. conv'[c].state = "BROWSING" /\ conv'[c].orderId = NoOrder
      BY <2>2 DEF FreshConversation
    <2> QED
      BY <2>1, <2>3 DEF CustomerInv
  <1>6. CASE AddItem(c, m) \/ EditCart(c, m)
    <2>1. UNCHANGED orders /\ named'[c]
      BY <1>6 DEF AddItem, EditCart, CanAddItem, CanEditCart, Admitted
    <2>2. conv[c].state \in {"BROWSING", "CART", "CONFIRMING"}
      BY <1>6 DEF AddItem, EditCart, CanAddItem, CanEditCart
    <2>3. conv'[c].state = "CART" /\ conv'[c].orderId = conv[c].orderId
      <3>1. CASE AddItem(c, m)
        BY <1>1, <3>1, EventTargets DEF AddItem, Transition, Conversation
      <3>2. CASE EditCart(c, m)
        BY <1>1, <3>2, EventTargets DEF EditCart, Transition, Conversation
      <3> QED
        BY <1>6, <3>1, <3>2
    <2> QED
      BY <1>2, <1>3, <2>1, <2>2, <2>3 DEF CustomerInv
  <1>7. CASE Checkout(c, m)
    <2>1. /\ UNCHANGED orders /\ named'[c]
          /\ conv[c].state = "CART" /\ conv[c].cart # EmptyCart
      BY <1>7 DEF Checkout, CanCheckout, Admitted
    <2>2. /\ conv'[c].state = "CONFIRMING"
          /\ conv'[c].orderId = conv[c].orderId
          /\ conv'[c].cart = conv[c].cart
          /\ conv'[c].bill = conv[c].cart
      BY <1>1, <1>7, EventTargets DEF Checkout, Transition, Conversation
    <2> QED
      BY <1>2, <1>3, <2>1, <2>2 DEF CustomerInv
  <1>8. CASE ConfirmOrder(c, m)
    <2>1. AwaitingOrders(c) = {} /\ named'[c]
      BY <1>8 DEF ConfirmOrder, CanConfirmOrder, HasPending, Admitted
    <2>2. PICK o \in OrderIds :
              /\ orders' = [orders EXCEPT ![o] =
                     [status |-> "AWAITING_PAYMENT", customerId |-> c,
                      items |-> conv[c].cart]]
              /\ Transition(c, "CONFIRM_ORDER",
                     [conv[c] EXCEPT !.orderId = o, !.bill = conv[c].cart])
      BY <1>8 DEF ConfirmOrder
    <2>3. conv'[c].state = "AWAITING_PAYMENT" /\ conv'[c].orderId = o
      BY <1>1, <2>2, EventTargets DEF Transition, Conversation
    <2>4. AwaitingOrders(c)' = {o}
      BY <1>1, <2>1, <2>2 DEF AwaitingOrders
    <2> QED
      BY <2>1, <2>3, <2>4 DEF CustomerInv
  <1>9. CASE Cancel(c, m)
    <2>1. conv'[c].state = "CANCELLED" /\ named'[c]
      BY <1>1, <1>9, EventTargets
      DEF Cancel, CanCancel, Admitted, Transition, Conversation
    <2>2. AwaitingOrders(c)' = {}
      <3>1. CASE conv[c].orderId = NoOrder
        <4>1. UNCHANGED orders
          BY <1>9, <3>1 DEF Cancel
        <4>2. NoOrder \notin AwaitingOrders(c)
          BY OrderServiceAssumption
          DEF AwaitingOrders, OrderServiceAssumption
        <4>3. AwaitingOrders(c) = {}
          BY <1>2, <3>1, <4>2 DEF CustomerInv
        <4> QED
          BY <1>3, <4>1, <4>3
      <3>2. CASE conv[c].orderId # NoOrder
        <4> DEFINE o == conv[c].orderId
        <4>1. o \in OrderIds /\ AwaitingOrders(c) = {o}
          BY <1>2, <1>9, <3>2, CancelHitsAwaiting DEF Cancel, CustomerInv
        <4>2. orders' = [orders EXCEPT ![o].status = "CANCELLED"]
          BY <1>9, <3>2 DEF Cancel
        <4>3. orders'[o].status = "CANCELLED"
          BY <1>1, <4>1, <4>2 DEF Order
        <4>4. \A x \in OrderIds \ {o} : orders'[x] = orders[x]
          BY <1>1, <4>2
        <4> QED
          BY <4>1, <4>3, <4>4 DEF AwaitingOrders
      <3> QED
        BY <3>1, <3>2
    <2> QED
      BY <2>1, <2>2 DEF CustomerInv
  <1>10. CASE Reply(c, m)
    BY <1>2, <1>3, <1>10 DEF Reply, serviceVars, CustomerInv
  <1> QED
    BY <1>4, <1>5, <1>6, <1>7, <1>8, <1>9, <1>10 DEF HandleMessage

LEMMA MessageKeepsOwners ==
    ASSUME ServiceInv, NEW c \in Customers, NEW m \in Messages,
           HandleMessage(c, m)
    PROVE  OrdersAreOwned'
  <1>1. orders \in [OrderIds -> Order] /\ OrdersAreOwned
    BY DEF ServiceInv, ServiceTypeOK
  <1>2. CASE UNCHANGED orders
    BY <1>1, <1>2 DEF OrdersAreOwned
  <1>3. CASE ConfirmOrder(c, m)
    BY <1>1, <1>3 DEF ConfirmOrder, OrdersAreOwned
  <1>4. CASE Cancel(c, m) /\ conv[c].orderId # NoOrder
    <2> DEFINE o == conv[c].orderId
    <2>1. o \in OrderIds /\ orders[o].status = "AWAITING_PAYMENT"
      BY <1>4, CancelHitsAwaiting DEF Cancel
    <2>2. orders' = [orders EXCEPT ![o].status = "CANCELLED"]
      BY <1>4 DEF Cancel
    <2>3. /\ orders'[o].status = "CANCELLED"
          /\ orders'[o].customerId = orders[o].customerId
          /\ \A x \in OrderIds \ {o} : orders'[x] = orders[x]
      BY <1>1, <2>1, <2>2 DEF Order
    <2> QED
      BY <1>1, <2>1, <2>3 DEF OrdersAreOwned
  <1> QED
    BY <1>2, <1>3, <1>4
    DEF HandleMessage, StartProfile, AnswerName, AnswerPhone,
        StartFreshOrder, AddItem, EditCart, Checkout, Cancel, Reply,
        serviceVars

(* A staff or expiry decision finds the conversation at its order, so the  *)
(* disjunct of Resolve that leaves the conversation alone is never taken   *)
(* by this core on its own.                                                *)
LEMMA ResolveKeepsInv ==
    ASSUME ServiceInv, NEW o \in OrderIds,
           ConfirmPayment(o) \/ ExpireOrder(o)
    PROVE  ServiceInv'
  <1>1. PICK s \in {"PAID", "EXPIRED"},
             e \in {"PAYMENT_CONFIRMED", "PAYMENT_EXPIRED"} : Resolve(o, s, e)
    BY DEF ConfirmPayment, ExpireOrder
  <1>2. /\ conv \in [Customers -> Conversation]
        /\ orders \in [OrderIds -> Order]
        /\ OrdersAreOwned
    BY DEF ServiceInv, ServiceTypeOK
  <1>3. ServiceTypeOK'
    BY <1>1, ResolveStepTypes DEF ServiceInv
  <1>4. PICK c \in Customers :
            orders[o].customerId = c /\ o \in AwaitingOrders(c)
    BY <1>1, <1>2 DEF Resolve, OrdersAreOwned, AwaitingOrders
  <1>5. AwaitingOrders(c) = {o} /\ conv[c].state = "AWAITING_PAYMENT"
           /\ conv[c].orderId = o
    BY <1>4 DEF ServiceInv, ConversationFollowsOrder
  <1>6. /\ orders'[o].status = s
        /\ orders'[o].customerId = c
        /\ \A x \in OrderIds \ {o} : orders'[x] = orders[x]
    BY <1>1, <1>2, <1>4 DEF Resolve, Order
  <1>7. OrdersAreOwned'
    BY <1>1, <1>2, <1>4, <1>6 DEF OrdersAreOwned, Resolve
  <1>8. CustomerInv(c)'
    <2>1. conv'[c].state \in {"PAID", "EXPIRED"}
      <3>1. Transition(c, e, conv[c])
        BY <1>1, <1>4, <1>5 DEF Resolve
      <3>2. PICK n \in States :
                /\ <<conv[c].state, e, n>> \in TRANSITIONS
                /\ conv' = [conv EXCEPT ![c] = [conv[c] EXCEPT !.state = n]]
        BY <3>1 DEF Transition
      <3>3. n \in {"PAID", "EXPIRED"}
        BY <3>2, EventTargets
      <3> QED
        BY <1>2, <3>2, <3>3 DEF Conversation
    <2>2. AwaitingOrders(c)' = {}
      BY <1>5, <1>6 DEF AwaitingOrders
    <2>3. named'[c]
      BY <1>1, <1>4, <1>5 DEF Resolve, ServiceInv, ShoppersAreNamed
    <2> QED
      BY <2>1, <2>2, <2>3 DEF CustomerInv
  <1>9. ASSUME NEW d \in Customers \ {c}
        PROVE  CustomerInv(d)'
    <2>1. conv'[d] = conv[d] /\ named' = named
      BY <1>1, <1>2, <1>4 DEF Resolve, Transition
    <2>2. Untouched(d)
      BY <1>4, <1>6, <2>1 DEF Untouched
    <2> QED
      BY <2>2, InvByCustomer, UntouchedKeepsInv
  <1>10. /\ ServiceTypeOK'
         /\ OrdersAreOwned'
         /\ (\A d \in Customers : CustomerInv(d))'
    BY <1>3, <1>7, <1>8, <1>9
  <1> QED
    BY <1>10
    DEF ServiceInv, CartsNameNoOrder, ConversationFollowsOrder,
        ConfirmingIsReviewed, ShoppersAreNamed, CustomerInv

LEMMA MessageKeepsInv ==
    ASSUME ServiceInv, NEW c \in Customers, NEW m \in Messages,
           HandleMessage(c, m)
    PROVE  ServiceInv'
  <1>1. ServiceTypeOK' /\ OrdersAreOwned'
    BY MessageStepTypes, MessageKeepsOwners DEF ServiceInv
  <1>2. \A d \in Customers \ {c} : CustomerInv(d)'
    BY InvByCustomer, MessageKeepsOthers, UntouchedKeepsInv
  <1>3. CustomerInv(c)'
    BY MessageKeepsOwn
  <1>4. (\A d \in Customers : CustomerInv(d))'
    BY <1>2, <1>3
  <1> QED
    BY <1>1, <1>4
    DEF ServiceInv, CartsNameNoOrder, ConversationFollowsOrder,
        ConfirmingIsReviewed, ShoppersAreNamed, CustomerInv

LEMMA InitInv == ServiceInit => ServiceInv
  <1> SUFFICES ASSUME ServiceInit PROVE ServiceInv
    OBVIOUS
  <1>1. ServiceTypeOK
    BY FreshTypes DEF ServiceInit, ServiceTypeOK
  <1>2. OrdersAreOwned
    BY OrderServiceAssumption
    DEF ServiceInit, OrdersAreOwned, UnusedOrder, OrderServiceAssumption
  <1>3. \A c \in Customers : CustomerInv(c)
    BY DEF ServiceInit, CustomerInv, AwaitingOrders, FreshConversation,
           UnusedOrder
  <1> QED
    BY <1>1, <1>2, <1>3, InvByCustomer

LEMMA NextKeepsInv == ServiceInv /\ [ServiceNext]_serviceVars => ServiceInv'
  <1> SUFFICES ASSUME ServiceInv, [ServiceNext]_serviceVars PROVE ServiceInv'
    OBVIOUS
  <1>1. CASE UNCHANGED serviceVars
    BY <1>1
    DEF serviceVars, ServiceInv, ServiceTypeOK, OrdersAreOwned,
        CartsNameNoOrder, ConversationFollowsOrder, ConfirmingIsReviewed,
        ShoppersAreNamed, AwaitingOrders
  <1>2. CASE ServiceNext
    BY <1>2, MessageKeepsInv, ResolveKeepsInv DEF ServiceNext
  <1> QED
    BY <1>1, <1>2

-----------------------------------------------------------------------------
(* The theorems.                                                           *)

(* The inductive invariant holds in every reachable state.                 *)
THEOREM Invariant == ServiceSpec => []ServiceInv
  <1> QED
    BY InitInv, NextKeepsInv, PTL DEF ServiceSpec

(* Types, for any customers, products, orders and messages.                *)
THEOREM TypeCorrect == ServiceSpec => []ServiceTypeOK
  <1>1. ServiceInv => ServiceTypeOK
    BY DEF ServiceInv
  <1> QED
    BY <1>1, Invariant, PTL

(* The conversation always agrees with the orders.                         *)
THEOREM ConversationAgrees == ServiceSpec => []ConversationFollowsOrder
  <1>1. ServiceInv => ConversationFollowsOrder
    BY DEF ServiceInv
  <1> QED
    BY <1>1, Invariant, PTL

(* Only a reviewed, non-empty cart waits for confirmation.                 *)
THEOREM ReviewedBeforeConfirming == ServiceSpec => []ConfirmingIsReviewed
  <1>1. ServiceInv => ConfirmingIsReviewed
    BY DEF ServiceInv
  <1> QED
    BY <1>1, Invariant, PTL

(* Nobody shops without a name.                                            *)
THEOREM NamedBeforeShopping == ServiceSpec => []ShoppersAreNamed
  <1>1. ServiceInv => ShoppersAreNamed
    BY DEF ServiceInv
  <1> QED
    BY <1>1, Invariant, PTL

(* An order keeps its owner and its items, and a resolved order is final.  *)
THEOREM ResolvedStaysFinal == ServiceSpec => ResolvedIsFinal
  <1> DEFINE Final ==
          \A o \in OrderIds :
             orders[o].status # "NONE" =>
                 /\ orders'[o].items = orders[o].items
                 /\ orders'[o].customerId = orders[o].customerId
                 /\ orders[o].status \in Terminal => orders'[o] = orders[o]
  <1>1. ServiceInv /\ [ServiceNext]_serviceVars => [Final]_serviceVars
    <2> SUFFICES ASSUME ServiceInv, ServiceNext, NEW o \in OrderIds,
                        orders[o].status # "NONE"
                 PROVE  /\ orders'[o].items = orders[o].items
                        /\ orders'[o].customerId = orders[o].customerId
                        /\ orders[o].status \in Terminal
                              => orders'[o] = orders[o]
      OBVIOUS
    <2>1. orders \in [OrderIds -> Order]
      BY DEF ServiceInv, ServiceTypeOK
    <2>2. CASE orders'[o] = orders[o]
      BY <2>2
    <2>3. ASSUME NEW c \in Customers, NEW m \in Messages,
                 Cancel(c, m), orders'[o] # orders[o]
          PROVE  /\ orders[o].status = "AWAITING_PAYMENT"
                 /\ orders'[o].items = orders[o].items
                 /\ orders'[o].customerId = orders[o].customerId
      <3>1. conv[c].orderId # NoOrder
        BY <2>3 DEF Cancel
      <3>2. /\ conv[c].orderId \in OrderIds
            /\ orders[conv[c].orderId].status = "AWAITING_PAYMENT"
        BY <2>3, <3>1, CancelHitsAwaiting DEF Cancel
      <3>3. orders' = [orders EXCEPT ![conv[c].orderId].status = "CANCELLED"]
        BY <2>3, <3>1 DEF Cancel
      <3>4. conv[c].orderId = o
        BY <2>1, <2>3, <3>3
      <3> QED
        BY <2>1, <3>2, <3>3, <3>4 DEF Order
    <2>4. ASSUME NEW x \in OrderIds, NEW s, NEW e, Resolve(x, s, e),
                 orders'[o] # orders[o]
          PROVE  /\ orders[o].status = "AWAITING_PAYMENT"
                 /\ orders'[o].items = orders[o].items
                 /\ orders'[o].customerId = orders[o].customerId
      BY <2>1, <2>4 DEF Resolve, Order
    <2>5. ASSUME NEW c \in Customers, NEW m \in Messages,
                 HandleMessage(c, m), ~Cancel(c, m)
          PROVE  orders'[o] = orders[o]
      BY <2>1, <2>5
      DEF HandleMessage, StartProfile, AnswerName, AnswerPhone,
          StartFreshOrder, AddItem, EditCart, Checkout, ConfirmOrder, Reply,
          serviceVars
    <2> QED
      BY <2>2, <2>3, <2>4, <2>5
      DEF ServiceNext, ConfirmPayment, ExpireOrder, Terminal
  <1> QED
    BY <1>1, Invariant, PTL DEF ServiceSpec, ResolvedIsFinal

(* An order is placed exactly as its customer was shown it.                *)
THEOREM OrdersPlacedAsReviewed == ServiceSpec => PlacedAsReviewed
  <1> DEFINE AsReviewed ==
          \A o \in OrderIds :
             orders[o].status = "NONE" /\ orders'[o].status # "NONE" =>
                 orders'[o].items = conv[orders'[o].customerId].bill
  <1>1. ServiceInv /\ [ServiceNext]_serviceVars => [AsReviewed]_serviceVars
    <2> SUFFICES ASSUME ServiceInv, ServiceNext, NEW o \in OrderIds,
                        orders[o].status = "NONE",
                        orders'[o].status # "NONE"
                 PROVE  orders'[o].items = conv[orders'[o].customerId].bill
      OBVIOUS
    <2>1. orders \in [OrderIds -> Order] /\ ConfirmingIsReviewed
      BY DEF ServiceInv, ServiceTypeOK
    <2>2. ASSUME NEW x \in OrderIds, NEW s, NEW e, Resolve(x, s, e)
          PROVE  FALSE
      BY <2>1, <2>2 DEF Resolve
    <2>3. PICK c \in Customers, m \in Messages : HandleMessage(c, m)
      BY <2>2 DEF ServiceNext, ConfirmPayment, ExpireOrder
    <2>4. ~Cancel(c, m)
      <3> SUFFICES ASSUME Cancel(c, m) PROVE FALSE
        OBVIOUS
      <3>1. conv[c].orderId # NoOrder
        BY DEF Cancel
      <3>2. /\ conv[c].orderId \in OrderIds
            /\ orders[conv[c].orderId].status = "AWAITING_PAYMENT"
        BY <3>1, CancelHitsAwaiting DEF Cancel
      <3>3. orders' = [orders EXCEPT ![conv[c].orderId].status = "CANCELLED"]
        BY <3>1 DEF Cancel
      <3> QED
        BY <2>1, <3>2, <3>3
    <2>5. ConfirmOrder(c, m)
      BY <2>3, <2>4
      DEF HandleMessage, StartProfile, AnswerName, AnswerPhone,
          StartFreshOrder, AddItem, EditCart, Checkout, Reply, serviceVars
    <2>6. orders'[o].customerId = c /\ orders'[o].items = conv[c].cart
      BY <2>1, <2>5 DEF ConfirmOrder
    <2>7. conv[c].bill = conv[c].cart
      BY <2>1, <2>5 DEF ConfirmOrder, CanConfirmOrder, ConfirmingIsReviewed
    <2> QED
      BY <2>6, <2>7
  <1> QED
    BY <1>1, Invariant, PTL DEF ServiceSpec, PlacedAsReviewed

-----------------------------------------------------------------------------
(* The refinement of OrderLifecycle.                                       *)

LEMMA LifecycleInit == ServiceInit => Lifecycle!Init
  BY DEF ServiceInit, Lifecycle!Init, UnusedOrder

(* A message places an order, cancels the awaiting one, or leaves all be.  *)
LEMMA MessageStepsLifecycle ==
    ASSUME ServiceInv, NEW c \in Customers, NEW m \in Messages,
           HandleMessage(c, m)
    PROVE  [Lifecycle!Next]_(Lifecycle!vars)
  <1>1. orders \in [OrderIds -> Order] /\ conv[c].cart \in Carts
    BY DEF ServiceInv, ServiceTypeOK, Conversation
  <1>2. CASE UNCHANGED orders
    BY <1>2 DEF Lifecycle!vars
  <1>3. CASE ConfirmOrder(c, m)
    <2>1. /\ conv[c].cart # EmptyCart
          /\ AwaitingOrders(c) = {}
      BY <1>3 DEF ConfirmOrder, CanConfirmOrder, HasPending
    <2>2. PICK b \in Carts : b = conv[c].cart
      BY <1>1
    <2>3. PICK o \in OrderIds :
              /\ orders[o].status = "NONE"
              /\ orders' = [orders EXCEPT ![o] =
                     [status |-> "AWAITING_PAYMENT", customerId |-> c,
                      items |-> b]]
      BY <1>3, <2>2 DEF ConfirmOrder
    <2>4. Lifecycle!Place(c, o, b)
      BY <1>1, <2>1, <2>2, <2>3 DEF Lifecycle!Place, AwaitingOrders
    <2> QED
      BY <2>4 DEF Lifecycle!Next
  <1>4. CASE Cancel(c, m) /\ conv[c].orderId # NoOrder
    <2> DEFINE o == conv[c].orderId
    <2>1. o \in OrderIds /\ orders[o].status = "AWAITING_PAYMENT"
      BY <1>4, CancelHitsAwaiting DEF Cancel
    <2>2. orders' = [orders EXCEPT ![o].status = "CANCELLED"]
      BY <1>4 DEF Cancel
    <2>3. /\ orders'[o].status = "CANCELLED"
          /\ orders'[o].customerId = orders[o].customerId
          /\ orders'[o].items = orders[o].items
          /\ \A x \in OrderIds \ {o} : orders'[x] = orders[x]
      BY <1>1, <2>1, <2>2 DEF Order
    <2>4. Lifecycle!Decide(o, "CANCELLED")
      BY <2>1, <2>3 DEF Lifecycle!Decide
    <2> QED
      BY <2>1, <2>4 DEF Lifecycle!Next
  <1> QED
    BY <1>2, <1>3, <1>4
    DEF HandleMessage, StartProfile, AnswerName, AnswerPhone,
        StartFreshOrder, AddItem, EditCart, Checkout, Cancel, Reply,
        serviceVars

LEMMA ResolveStepsLifecycle ==
    ASSUME ServiceInv, NEW o \in OrderIds,
           ConfirmPayment(o) \/ ExpireOrder(o)
    PROVE  Lifecycle!Next
  <1>1. orders \in [OrderIds -> Order]
    BY DEF ServiceInv, ServiceTypeOK
  <1>2. PICK s \in {"PAID", "EXPIRED"},
            e \in {"PAYMENT_CONFIRMED", "PAYMENT_EXPIRED"} : Resolve(o, s, e)
    BY DEF ConfirmPayment, ExpireOrder
  <1>3. /\ orders[o].status = "AWAITING_PAYMENT"
        /\ orders'[o].status = s
        /\ orders'[o].customerId = orders[o].customerId
        /\ orders'[o].items = orders[o].items
        /\ \A x \in OrderIds \ {o} : orders'[x] = orders[x]
    BY <1>1, <1>2 DEF Resolve, Order
  <1>4. Lifecycle!Decide(o, s)
    BY <1>3 DEF Lifecycle!Decide
  <1> QED
    BY <1>4 DEF Lifecycle!Next

(* The ordering core implements the promise about orders.                  *)
THEOREM ImplementsLifecycle == ServiceSpec => RefinesLifecycle
  <1>1. ServiceInv /\ [ServiceNext]_serviceVars
            => [Lifecycle!Next]_(Lifecycle!vars)
    <2> SUFFICES ASSUME ServiceInv, [ServiceNext]_serviceVars
                 PROVE  [Lifecycle!Next]_(Lifecycle!vars)
      OBVIOUS
    <2>1. CASE UNCHANGED serviceVars
      BY <2>1 DEF serviceVars, Lifecycle!vars
    <2>2. CASE ServiceNext
      BY <2>2, MessageStepsLifecycle, ResolveStepsLifecycle DEF ServiceNext
    <2> QED
      BY <2>1, <2>2
  <1> QED
    BY <1>1, LifecycleInit, Invariant, PTL
    DEF ServiceSpec, RefinesLifecycle, Lifecycle!Spec

=============================================================================
