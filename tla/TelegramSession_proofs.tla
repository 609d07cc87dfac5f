----------------------- MODULE TelegramSession_proofs -----------------------
(***************************************************************************)
(* Theorems about TelegramSession for every set of chats, products, orders *)
(* and updates, any number of drains and any number of faults: the         *)
(* sessions implement OrderService, so what is proved of the ordering core *)
(* holds in the sessions whatever interleaves, fails or is evicted.        *)
(***************************************************************************)
EXTENDS TelegramSession, OrderService_proofs, SumTheorems

-----------------------------------------------------------------------------
(* A handler at work has an update that was delivered to it.               *)
Delivered ==
    /\ inbox \in [Updates ->
           [customer: Customers, message: Messages] \cup {NoUpdate}]
    /\ handler \in [Customers -> Handler]
    /\ \A c \in Customers :
          handler[c].step # "idle" =>
              /\ handler[c].update \in Updates
              /\ inbox[handler[c].update] # NoUpdate

SessionInv == ServiceInv /\ Delivered

LEMMA IdleHandlerType == IdleHandler \in Handler
  <1>1. EmptyCart \in Carts
    BY OrderServiceAssumption DEF EmptyCart, Carts, OrderServiceAssumption
  <1> QED
    BY <1>1 DEF IdleHandler, Handler, HandlerSteps

(* Going on with the same update, and returning, keep Delivered.           *)
LEMMA GotoKeepsDelivered ==
    ASSUME Delivered, NEW c \in Customers, NEW s \in HandlerSteps,
           handler[c].step # "idle", Goto(c, s), UNCHANGED inbox
    PROVE  Delivered'
  BY DEF Delivered, Goto, Handler

LEMMA ReturnKeepsDelivered ==
    ASSUME Delivered, NEW c \in Customers, Return(c), UNCHANGED inbox
    PROVE  Delivered'
  BY IdleHandlerType DEF Delivered, Return, IdleHandler

LEMMA ReceiveKeepsDelivered ==
    ASSUME SessionInv, NEW c \in Customers, NEW u \in Updates,
           NEW m \in Messages, Receive(c, u, m)
    PROVE  Delivered'
  <1> DEFINE delivery == [customer |-> c, message |-> m]
  <1>1. /\ delivery \in [customer: Customers, message: Messages]
        /\ delivery # NoUpdate
    BY TelegramSessionAssumption DEF TelegramSessionAssumption
  <1>2. /\ inbox' = [inbox EXCEPT ![u] = delivery]
        /\ inbox' \in [Updates ->
               [customer: Customers, message: Messages] \cup {NoUpdate}]
    BY <1>1 DEF Receive, SessionInv, Delivered
  <1>3. conv[c].cart \in Carts /\ EmptyCart \in Carts
    BY OrderServiceAssumption
    DEF SessionInv, ServiceInv, ServiceTypeOK, Conversation, EmptyCart,
        Carts, OrderServiceAssumption
  <1>4. PICK h \in Handler :
            h.update = u /\ handler' = [handler EXCEPT ![c] = h]
    <2> DEFINE reserves == /\ m.action = "confirm_order" /\ ~m.typed
                           /\ conv[c].state = "CONFIRMING"
                           /\ conv[c].cart # EmptyCart
               h == [step |-> IF reserves THEN "exists" ELSE "transact",
                     update |-> u,
                     cart |-> IF reserves THEN conv[c].cart ELSE EmptyCart,
                     reserved |-> reserves]
    <2>1. reserves \in BOOLEAN
      OBVIOUS
    <2>2. h.update = u /\ handler' = [handler EXCEPT ![c] = h]
      BY DEF Receive
    <2> HIDE DEF reserves
    <2>3. h \in Handler
      BY <1>3, <2>1 DEF Handler, HandlerSteps
    <2> QED
      BY <2>2, <2>3
  <1>5. handler' \in [Customers -> Handler]
    BY <1>4 DEF SessionInv, Delivered
  <1>6. ASSUME NEW d \in Customers, handler'[d].step # "idle"
        PROVE  /\ handler'[d].update \in Updates
               /\ inbox'[handler'[d].update] # NoUpdate
    <2>1. CASE d = c
      BY <1>1, <1>2, <1>4, <2>1 DEF SessionInv, Delivered
    <2>2. CASE d # c
      <3>1. handler'[d] = handler[d]
        BY <1>4, <2>2 DEF SessionInv, Delivered
      <3> QED
        BY <1>1, <1>2, <1>6, <3>1 DEF SessionInv, Delivered
    <2> QED
      BY <2>1, <2>2
  <1> QED
    BY <1>2, <1>5, <1>6 DEF Delivered

(* Each step of a handler keeps Delivered and is a step of the core.       *)
LEMMA HandlerStepsAllowed ==
    ASSUME SessionInv, NEW c \in Customers,
           Process(c) \/ ReserveFails(c) \/ Abort(c) \/ Crash(c)
    PROVE  Delivered' /\ [ServiceNext]_serviceVars
  <1> USE DEF SessionInv
  <1>1. CASE FindReservation(c) \/ Reserve(c) \/ UndoReserve(c)
                \/ ReserveFails(c) \/ Refuse(c)
    <2>1. /\ handler[c].step # "idle" /\ UNCHANGED <<inbox, serviceVars>>
          /\ \E s \in HandlerSteps : Goto(c, s)
      BY <1>1
      DEF FindReservation, Reserve, UndoReserve, ReserveFails, Refuse,
          HandlerSteps
    <2> QED
      BY <2>1, GotoKeepsDelivered
  <1>2. CASE Apologise(c) \/ Reject(c) \/ Abort(c) \/ Crash(c)
    <2>1. Return(c) /\ UNCHANGED <<inbox, serviceVars>>
      BY <1>2 DEF Apologise, Reject, Abort, RollBack, Crash
    <2> QED
      BY <2>1, ReturnKeepsDelivered
  <1>3. CASE Transact(c)
    <2>1. Return(c) /\ UNCHANGED inbox
      BY <1>3 DEF Transact
    <2>2. PICK m \in Messages : m = inbox[handler[c].update].message
      BY <1>3 DEF Transact, Delivered
    <2>3. HandleMessage(c, m)
      BY <1>3, <2>2 DEF Transact
    <2> QED
      BY <2>1, <2>3, ReturnKeepsDelivered DEF ServiceNext
  <1> QED
    BY <1>1, <1>2, <1>3 DEF Process

(* Decisions are steps of the core; drains do not touch it.                *)
LEMMA OtherStepsAllowed ==
    ASSUME SessionInv,
           \/ \E o \in OrderIds : StaffConfirms(o) \/ AlarmExpires(o)
           \/ \E c \in Customers, w \in Workers :
                 \/ \E e \in EffectIds : Claim(c, w, e)
                 \/ Call(c, w) \/ Verify(c, w)
                 \/ CallFails(c, w) \/ Settle(c, w)
    PROVE  Delivered' /\ [ServiceNext]_serviceVars
  <1>1. CASE \E o \in OrderIds : StaffConfirms(o) \/ AlarmExpires(o)
    <2>1. PICK o \in OrderIds : StaffConfirms(o) \/ AlarmExpires(o)
      BY <1>1
    <2>2. UNCHANGED <<inbox, handler>>
      BY <2>1 DEF StaffConfirms, AlarmExpires, sessionVars
    <2>3. ConfirmPayment(o) \/ ExpireOrder(o)
      BY <2>1 DEF StaffConfirms, AlarmExpires
    <2>4. ServiceNext
      BY <2>3 DEF ServiceNext
    <2>5. Delivered'
      BY <2>2, Zenon DEF SessionInv, Delivered
    <2> QED
      BY <2>4, <2>5, Zenon
  <1>2. CASE \E c \in Customers, w \in Workers :
                \/ \E e \in EffectIds : Claim(c, w, e)
                \/ Call(c, w) \/ Verify(c, w)
                \/ CallFails(c, w) \/ Settle(c, w)
    <2> DEFINE Apart == UNCHANGED serviceVars /\ UNCHANGED <<inbox, handler>>
    <2>1. ASSUME NEW c \in Customers, NEW w \in Workers,
                 NEW e \in EffectIds, Claim(c, w, e)
          PROVE  Apart
      BY <2>1 DEF Claim
    <2>2. ASSUME NEW c \in Customers, NEW w \in Workers, Call(c, w)
          PROVE  Apart
      BY <2>2 DEF Call
    <2>3. ASSUME NEW c \in Customers, NEW w \in Workers, Verify(c, w)
          PROVE  Apart
      BY <2>3 DEF Verify
    <2>4. ASSUME NEW c \in Customers, NEW w \in Workers, CallFails(c, w)
          PROVE  Apart
      BY <2>4 DEF CallFails
    <2>5. ASSUME NEW c \in Customers, NEW w \in Workers, Settle(c, w)
          PROVE  Apart
      BY <2>5 DEF Settle
    <2>6. Apart
      <3> HIDE DEF Apart
      <3> QED
        BY <1>2, <2>1, <2>2, <2>3, <2>4, <2>5, Zenon
    <2>7. Delivered'
      BY <2>6, Zenon DEF SessionInv, Delivered
    <2> QED
      BY <2>6, <2>7, Zenon
  <1> QED
    BY <1>1, <1>2

LEMMA InitDelivered == Init => SessionInv
  <1> SUFFICES ASSUME Init PROVE Delivered
    BY InitInv DEF Init, SessionInv
  <1> QED
    BY IdleHandlerType DEF Init, SessionInit, Delivered, IdleHandler

LEMMA StepAllowed ==
    SessionInv /\ [Next]_vars => SessionInv' /\ [ServiceNext]_serviceVars
  <1> SUFFICES ASSUME SessionInv, [Next]_vars
               PROVE  Delivered' /\ [ServiceNext]_serviceVars
    BY NextKeepsInv DEF SessionInv
  <1>1. CASE UNCHANGED vars
    BY <1>1 DEF vars, sessionVars, SessionInv, Delivered
  <1>2. CASE \E c \in Customers, u \in Updates, m \in Messages :
                 Receive(c, u, m)
    <2>1. PICK c \in Customers, u \in Updates, m \in Messages :
                   Receive(c, u, m)
      BY <1>2
    <2>2. UNCHANGED serviceVars
      BY <2>1 DEF Receive
    <2> QED
      BY <2>1, <2>2, ReceiveKeepsDelivered
  <1>3. CASE \E c \in Customers :
                 Process(c) \/ ReserveFails(c) \/ Abort(c) \/ Crash(c)
    BY <1>3, HandlerStepsAllowed
  <1> QED
    BY <1>1, <1>2, <1>3, OtherStepsAllowed DEF Next

-----------------------------------------------------------------------------
(* The theorems.                                                           *)

LEMMA SessionInvariant == Spec => []SessionInv
  <1> QED
    BY InitDelivered, StepAllowed, PTL DEF Spec

(* Every step of every session is a step of the ordering core.             *)
THEOREM SessionsTakeServiceSteps == Spec => ServiceSteps
  <1> QED
    BY SessionInvariant, StepAllowed, PTL DEF Spec, ServiceSteps

(* The sessions implement the ordering core.                               *)
THEOREM SessionsImplementService == Spec => RefinesService
  <1>1. Init => ServiceInit
    BY DEF Init
  <1> QED
    BY <1>1, SessionsTakeServiceSteps, PTL
    DEF Spec, ServiceSteps, RefinesService, ServiceSpec

(* So a chat's conversation agrees with its orders in every reachable      *)
(* state of the sessions, whatever crashes, fails or is delivered twice.   *)
THEOREM SessionsKeepConversation == Spec => []ConversationFollowsOrder
  <1> QED
    BY SessionsImplementService, ConversationAgrees DEF RefinesService

(* And the orders of all the sessions are decided once, for ever.          *)
THEOREM SessionsResolveOnce == Spec => ResolvedIsFinal
  <1> QED
    BY SessionsImplementService, ResolvedStaysFinal DEF RefinesService

(* confirm_order of every session places what its customer was shown, also *)
(* when the update is delivered again or its first handling was aborted.   *)
THEOREM SessionsPlaceAsReviewed == Spec => PlacedAsReviewed
  <1> QED
    BY SessionsImplementService, OrdersPlacedAsReviewed DEF RefinesService

(* So the orders of all the sessions together live the life of             *)
(* OrderLifecycle: placed once, decided once.                              *)
THEOREM SessionsImplementLifecycle == Spec => RefinesLifecycle
  <1> QED
    BY SessionsImplementService, ImplementsLifecycle DEF RefinesService

-----------------------------------------------------------------------------
(* Types of the statements that the steps are made of.                     *)

(* Max picks an element of a finite set of naturals.                       *)
LEMMA MaxIn ==
    ASSUME NEW S, IsFiniteSet(S), S # {}, S \subseteq Nat
    PROVE  Max(S) \in S
  <1> DEFINE Top(A) == \E x \in A : \A y \in A : x >= y
             T == {A \in SUBSET S : A # {} /\ ~Top(A)}
  <1>1. SUFFICES Top(S)
    BY DEF Max
  <1>2. SUFFICES ASSUME T # {} PROVE FALSE
    OBVIOUS
  <1>3. PICK A \in T : \A B \in T : B \subseteq A => B = A
    <2>1. T \subseteq SUBSET S
      OBVIOUS
    <2>2. IsFiniteSet(S)
      OBVIOUS
    <2> HIDE DEF T
    <2> QED
      BY ONLY <1>2, <2>1, <2>2, MinimalSubset
  <1>4. PICK a : a \in A
    OBVIOUS
  <1> DEFINE B == A \ {a}
  <1>5. B # {}
    <2>1. SUFFICES ASSUME B = {} PROVE FALSE
      OBVIOUS
    <2>2. A = {a} /\ a \in Nat
      BY <1>4, <2>1
    <2> QED
      BY <2>2
  <1>6. B \notin T
    <2>1. B \subseteq A /\ B # A
      BY <1>4
    <2> HIDE DEF T, B
    <2> QED
      BY <1>3, <2>1
  <1>7. PICK b \in B : \A y \in B : b >= y
    BY <1>5, <1>6
  <1>8. a \in Nat /\ b \in Nat /\ b \in A /\ A \subseteq Nat
    BY <1>4
  <1>9. CASE a >= b
    <2>1. \A y \in A : a >= y
      BY <1>7, <1>8, <1>9
    <2> QED
      BY <1>4, <2>1
  <1>10. CASE ~(a >= b)
    <2>1. \A y \in A : b >= y
      BY <1>7, <1>8, <1>10
    <2> QED
      BY <1>8, <2>1
  <1> QED
    BY <1>9, <1>10

LEMMA EffectIdsFinite == IsFiniteSet(EffectIds)
  <1> DEFINE f == [u \in Updates |-> [type |-> "COMMIT_RESERVATION", key |-> u]]
             g == [u \in Updates |-> [type |-> "RELEASE_RESERVATION", key |-> u]]
             h == [o \in OrderIds |-> [type |-> "RELEASE_ORDER", key |-> o]]
             A == {f[u] : u \in Updates}
             B == {g[u] : u \in Updates}
             C == {h[o] : o \in OrderIds}
  <1>1. IsFiniteSet(A) /\ IsFiniteSet(B) /\ IsFiniteSet(C)
    <2>1. IsFiniteSet(Updates) /\ IsFiniteSet(OrderIds)
      BY TelegramSessionAssumption DEF TelegramSessionAssumption
    <2> HIDE DEF f, g, h
    <2> QED
      BY <2>1, FiniteImage
  <1>2. EffectIds = (A \cup B) \cup C
    BY DEF EffectIds
  <1>3. IsFiniteSet((A \cup B) \cup C)
    <2> HIDE DEF A, B, C
    <2>1. IsFiniteSet(A \cup B)
      BY <1>1, FS_Union
    <2> QED
      BY <1>1, <2>1, FS_Union
  <1> HIDE DEF A, B, C
  <1> QED
    BY <1>2, <1>3

(* A reservation effect, and a release of an order, are effects. *)
LEMMA EffectNames ==
    /\ \A u \in Updates : CommitEffect(u) \in EffectIds
                          /\ ReleaseEffect(u) \in EffectIds
    /\ \A o \in OrderIds : ReleaseOrderEffect(o) \in EffectIds
  BY DEF CommitEffect, ReleaseEffect, ReleaseOrderEffect, EffectIds

LEMMA EffectKinds ==
    ASSUME NEW e \in EffectIds
    PROVE  \/ \E u \in Updates : e = CommitEffect(u)
           \/ \E u \in Updates : e = ReleaseEffect(u)
           \/ \E o \in OrderIds : e = ReleaseOrderEffect(o)
  BY DEF CommitEffect, ReleaseEffect, ReleaseOrderEffect, EffectIds

LEMMA NextBornType ==
    ASSUME effects \in [EffectIds -> Effect], NEW c
    PROVE  NextBorn(c) \in Nat
  <1> DEFINE E == {x \in EffectIds : effects[x].chat = c}
             f == [e \in EffectIds |-> effects[e].born]
             S == {0} \cup {effects[e].born :
                               e \in {x \in EffectIds : effects[x].chat = c}}
  <1>1. IsFiniteSet({f[e] : e \in E})
    <2>1. IsFiniteSet(E)
      BY EffectIdsFinite, FS_Subset
    <2> HIDE DEF E, f
    <2> QED
      BY <2>1, FiniteImage
  <1>2. S = {0} \cup {f[e] : e \in E}
    OBVIOUS
  <1>3. S \subseteq Nat /\ S # {}
    BY DEF Effect
  <1>4. IsFiniteSet(S)
    <2> DEFINE I == {f[e] : e \in E}
    <2> HIDE DEF I
    <2>1. IsFiniteSet({0} \cup I)
      BY <1>1, FS_Singleton, FS_Union DEF I
    <2> QED
      BY <1>2, <2>1 DEF I
  <1>5. Max(S) \in Nat
    <2> HIDE DEF S
    <2> QED
      BY <1>3, <1>4, MaxIn
  <1>6. NextBorn(c) = 1 + Max(S)
    BY Zenon DEF NextBorn
  <1> HIDE DEF S
  <1> QED
    BY <1>5, <1>6

(* What enqueueInventoryEffect leaves. *)
LEMMA EnqueueWrites ==
    ASSUME effects \in [EffectIds -> Effect], NEW c \in Customers, NEW ids,
           NEW o \in OrderIds \cup {NoOrder}, Enqueue(c, ids, o)
    PROVE  /\ effects' \in [EffectIds -> Effect]
           /\ \A e \in EffectIds :
                 \/ effects'[e] = effects[e]
                 \/ /\ e \in ids /\ effects[e].status = "NONE"
                    /\ effects'[e].status = "PENDING"
                    /\ e.type = "COMMIT_RESERVATION" =>
                          effects'[e].orderId = o
           /\ \A e \in EffectIds \cap ids : effects'[e].status # "NONE"
  <1> DEFINE New(e) ==
               [status |-> "PENDING", tried |-> FALSE, born |-> NextBorn(c),
                chat |-> c,
                orderId |-> IF e.type = "COMMIT_RESERVATION" THEN o
                                                             ELSE NoOrder]
             After(e) == IF e \in ids /\ effects[e].status = "NONE"
                         THEN New(e) ELSE effects[e]
  <1>1. effects' = [e \in EffectIds |-> After(e)]
    BY Zenon DEF Enqueue
  <1>2. ASSUME NEW e \in EffectIds
        PROVE  New(e) \in Effect
    BY NextBornType DEF Effect, EffectStatuses
  <1>3. ASSUME NEW e \in EffectIds
        PROVE  After(e) \in Effect
    <2> HIDE DEF New
    <2> QED
      BY <1>2
  <1>4. ASSUME NEW e \in EffectIds
        PROVE  effects'[e] = After(e)
    <2> HIDE DEF After
    <2> QED
      BY <1>1
  <1>5. effects' \in [EffectIds -> Effect]
    <2> HIDE DEF After
    <2> QED
      BY <1>1, <1>3
  <1>6. ASSUME NEW e \in EffectIds
        PROVE  /\ \/ effects'[e] = effects[e]
                  \/ /\ e \in ids /\ effects[e].status = "NONE"
                     /\ effects'[e].status = "PENDING"
                     /\ e.type = "COMMIT_RESERVATION" =>
                           effects'[e].orderId = o
               /\ e \in ids => effects'[e].status # "NONE"
    <2>1. After(e) = IF e \in ids /\ effects[e].status = "NONE"
                     THEN New(e) ELSE effects[e]
      OBVIOUS
    <2>2. /\ New(e).status = "PENDING"
          /\ e.type = "COMMIT_RESERVATION" => New(e).orderId = o
      OBVIOUS
    <2> HIDE DEF New, After
    <2> QED
      BY <1>4, <2>1, <2>2
  <1> QED
    BY <1>5, <1>6

-----------------------------------------------------------------------------
(* The D1 statements: types, rows, and stock.                              *)

D1Types ==
    /\ remaining \in [Stocked -> Nat]
    /\ reservations \in [Updates -> [Products -> Row]]

Holding(p) == [u \in Updates |-> HeldQuantity(reservations[u][p])]

LEMMA HoldingIsNatural ==
    ASSUME D1Types, NEW p \in Products
    PROVE  /\ \A u \in Updates : Holding(p)[u] \in Nat
           /\ \A A \in SUBSET Updates :
                 /\ IsFiniteSet(A)
                 /\ SumFunctionOnSet(Holding(p), A) \in Nat
  <1>1. \A u \in Updates : Holding(p)[u] \in Nat
    BY OrderServiceAssumption
    DEF D1Types, Row, Holding, HeldQuantity, Held, OrderServiceAssumption
  <1>2. \A A \in SUBSET Updates : IsFiniteSet(A)
    BY FS_Subset, TelegramSessionAssumption DEF TelegramSessionAssumption
  <1> QED
    BY <1>1, <1>2, SumType

(* One statement keeps the books if, product by product, what it takes     *)
(* from the stock it adds to what is held.                                 *)
LEMMA BooksKept ==
    ASSUME StockConserved,
           \A p \in Stocked :
               remaining'[p] + SumFunctionOnSet(Holding(p)', Updates)
                 = remaining[p] + SumFunctionOnSet(Holding(p), Updates)
    PROVE  StockConserved'
  BY DEF StockConserved, Holding

LEMMA RowFields ==
    ASSUME NEW r \in Row
    PROVE  /\ [r EXCEPT !.status = "RELEASED"] \in Row
           /\ [r EXCEPT !.status = "RELEASED"].status = "RELEASED"
           /\ [r EXCEPT !.status = "RELEASED"].quantity = r.quantity
           /\ [r EXCEPT !.status = "RELEASED"].orderId = r.orderId
  BY DEF Row

CommittedFor(r, o) == [r EXCEPT !.status = "COMMITTED", !.orderId = o]

LEMMA CommittedFields ==
    ASSUME NEW r \in Row, NEW o \in OrderIds \cup {NoOrder}
    PROVE  /\ CommittedFor(r, o) \in Row
           /\ CommittedFor(r, o).status = "COMMITTED"
           /\ CommittedFor(r, o).quantity = r.quantity
           /\ CommittedFor(r, o).orderId = o
  BY DEF Row, CommittedFor

LEMMA ReserveRow ==
    ASSUME D1Types, NEW u \in Updates, NEW cart \in Carts,
           ReserveBatch(u, cart)
    PROVE  /\ \A v \in Updates \ {u} : reservations'[v] = reservations[v]
           /\ \A p \in Products \ InStock(cart) :
                 reservations'[u][p] = reservations[u][p]
           /\ \A p \in InStock(cart) :
                 reservations'[u][p] = [status |-> "RESERVED",
                                        quantity |-> cart[p],
                                        orderId |-> NoOrder]
           /\ InStock(cart) \subseteq Products
           /\ D1Types'
  <1> DEFINE row(p) == IF p \in InStock(cart)
                       THEN [status |-> "RESERVED", quantity |-> cart[p],
                             orderId |-> NoOrder]
                       ELSE reservations[u][p]
  <1>1. reservations' = [reservations EXCEPT ![u] =
                            [p \in Products |-> row(p)]]
    BY DEF ReserveBatch
  <1>2. \A p \in Products : cart[p] \in 0 .. MaxQuantity
    BY DEF Carts
  <1>3. \A p \in Products : row(p) \in Row
    BY <1>2 DEF D1Types, Row
  <1>4. /\ \A v \in Updates \ {u} : reservations'[v] = reservations[v]
        /\ \A p \in Products : reservations'[u][p] = row(p)
        /\ reservations' \in [Updates -> [Products -> Row]]
    <2> HIDE DEF row
    <2> QED
      BY <1>1, <1>3 DEF D1Types
  <1>5. remaining' \in [Stocked -> Nat]
    <2>1. ASSUME NEW p \in Stocked
          PROVE  (IF p \in InStock(cart) THEN remaining[p] - cart[p]
                                         ELSE remaining[p]) \in Nat
      BY <1>2, <2>1, OrderServiceAssumption
      DEF D1Types, InStock, Wanted, OrderServiceAssumption
    <2> QED
      BY <2>1 DEF ReserveBatch
  <1> QED
    BY <1>4, <1>5 DEF D1Types, InStock, Wanted

LEMMA ReserveKeepsStock ==
    ASSUME D1Types, StockConserved, NEW u \in Updates, NEW cart \in Carts,
           ~HasRows(u), ReserveBatch(u, cart)
    PROVE  StockConserved'
  <1>1. SUFFICES ASSUME NEW p \in Stocked
                 PROVE  remaining'[p] + SumFunctionOnSet(Holding(p)', Updates)
                      = remaining[p] + SumFunctionOnSet(Holding(p), Updates)
    BY BooksKept
  <1>2. p \in Products
    BY TelegramSessionAssumption DEF TelegramSessionAssumption
  <1> DEFINE taken == IF p \in InStock(cart) THEN cart[p] ELSE 0
  <1>3. taken \in Nat /\ remaining[p] \in Nat
        /\ remaining'[p] = remaining[p] - taken
    BY <1>2, OrderServiceAssumption
    DEF D1Types, ReserveBatch, Carts, OrderServiceAssumption
  <1>4. PICK f : f = Holding(p)
    OBVIOUS
  <1>5. PICK g : g = Holding(p)'
    OBVIOUS
  <1>6. D1Types'
    BY ReserveRow
  <1>7. /\ \A v \in Updates : f[v] \in Nat /\ g[v] \in Nat
        /\ IsFiniteSet(Updates)
    <2>1. \A v \in Updates : f[v] \in Nat
      BY <1>2, <1>4, HoldingIsNatural
    <2>2. \A v \in Updates : g[v] \in Nat
      BY <1>2, <1>5, <1>6, OrderServiceAssumption
      DEF D1Types, Row, Holding, HeldQuantity, Held, OrderServiceAssumption
    <2> QED
      BY <2>1, <2>2, TelegramSessionAssumption DEF TelegramSessionAssumption
  <1>8. f[u] = 0 /\ g[u] = taken
    <2>1. reservations[u][p].status = "NONE"
      BY <1>2 DEF HasRows
    <2>2. reservations'[u][p] =
             IF p \in InStock(cart)
             THEN [status |-> "RESERVED", quantity |-> cart[p],
                   orderId |-> NoOrder]
             ELSE reservations[u][p]
      BY <1>2, ReserveRow
    <2> QED
      BY <1>4, <1>5, <2>1, <2>2 DEF Holding, HeldQuantity, Held
  <1>9. \A v \in Updates \ {u} : f[v] = g[v]
    BY <1>4, <1>5, ReserveRow DEF Holding
  <1>10. PICK rest \in Nat : /\ SumFunctionOnSet(f, Updates) = f[u] + rest
                             /\ SumFunctionOnSet(g, Updates) = g[u] + rest
    BY <1>7, <1>9, SumChange
  <1>11. /\ SumFunctionOnSet(Holding(p), Updates) = rest
         /\ SumFunctionOnSet(Holding(p)', Updates) = taken + rest
    BY <1>3, <1>4, <1>5, <1>8, <1>10
  <1> HIDE DEF taken
  <1> QED
    BY <1>3, <1>11

LEMMA ReleaseRow ==
    ASSUME D1Types, NEW selected, ReleaseRows(selected)
    PROVE  /\ \A u \in Updates, p \in Products :
                 reservations'[u][p] =
                     IF <<u, p>> \in selected /\ Held(reservations[u][p])
                     THEN [reservations[u][p] EXCEPT !.status = "RELEASED"]
                     ELSE reservations[u][p]
           /\ D1Types'
  <1> DEFINE row(u, p) ==
               IF <<u, p>> \in selected /\ Held(reservations[u][p])
               THEN [reservations[u][p] EXCEPT !.status = "RELEASED"]
               ELSE reservations[u][p]
  <1>1. reservations' = [u \in Updates |-> [p \in Products |-> row(u, p)]]
    BY DEF ReleaseRows
  <1>2. ASSUME NEW u \in Updates, NEW p \in Products
        PROVE  row(u, p) \in Row
    <2>1. reservations[u][p] \in Row
      BY DEF D1Types
    <2> QED
      BY <2>1, RowFields
  <1>3. /\ \A u \in Updates, p \in Products : reservations'[u][p] = row(u, p)
        /\ reservations' \in [Updates -> [Products -> Row]]
    <2> HIDE DEF row
    <2> QED
      BY <1>1, <1>2
  <1>4. remaining' \in [Stocked -> Nat]
    <2> DEFINE back(p) == SumFunctionOnSet(Holding(p),
                              {u \in Updates : <<u, p>> \in selected})
    <2>1. ASSUME NEW p \in Stocked
          PROVE  remaining[p] + back(p) \in Nat
      <3>1. p \in Products
        BY TelegramSessionAssumption DEF TelegramSessionAssumption
      <3>2. {u \in Updates : <<u, p>> \in selected} \in SUBSET Updates
        OBVIOUS
      <3>3. back(p) \in Nat
        BY <3>1, <3>2, HoldingIsNatural
      <3>4. remaining[p] \in Nat
        BY DEF D1Types
      <3> HIDE DEF back
      <3> QED
        BY <3>3, <3>4
    <2>2. remaining' = [p \in Stocked |-> remaining[p] + back(p)]
      BY DEF ReleaseRows, Holding
    <2> HIDE DEF back
    <2> QED
      BY <2>1, <2>2
  <1> QED
    BY <1>3, <1>4 DEF D1Types

LEMMA ReleaseKeepsStock ==
    ASSUME D1Types, StockConserved, NEW selected, ReleaseRows(selected)
    PROVE  StockConserved'
  <1>1. SUFFICES ASSUME NEW p \in Stocked
                 PROVE  remaining'[p] + SumFunctionOnSet(Holding(p)', Updates)
                      = remaining[p] + SumFunctionOnSet(Holding(p), Updates)
    BY BooksKept
  <1>2. p \in Products
    BY TelegramSessionAssumption DEF TelegramSessionAssumption
  <1> DEFINE A == {u \in Updates : <<u, p>> \in selected}
  <1>3. PICK f : f = Holding(p)
    OBVIOUS
  <1>4. PICK back : back = SumFunctionOnSet(f, A)
    OBVIOUS
  <1>5. /\ back \in Nat /\ SumFunctionOnSet(f, Updates) \in Nat
        /\ \A u \in Updates : f[u] \in Nat
        /\ A \subseteq Updates /\ IsFiniteSet(Updates)
    <2>1. A \in SUBSET Updates /\ Updates \in SUBSET Updates
      OBVIOUS
    <2> HIDE DEF A
    <2> QED
      BY <1>2, <1>3, <1>4, <2>1, HoldingIsNatural
  <1>6. remaining[p] \in Nat /\ remaining'[p] = remaining[p] + back
    BY <1>3, <1>4 DEF D1Types, ReleaseRows, Holding
  <1>7. Holding(p)' = [u \in Updates |-> IF u \in A THEN 0 ELSE f[u]]
    <2>1. ASSUME NEW u \in Updates
          PROVE  HeldQuantity(reservations[u][p])'
                   = IF u \in A THEN 0 ELSE f[u]
      <3>1. reservations[u][p] \in Row
        BY <1>2 DEF D1Types
      <3>2. f[u] = HeldQuantity(reservations[u][p])
        BY <1>3 DEF Holding
      <3> QED
        BY <1>2, <3>1, <3>2, ReleaseRow DEF HeldQuantity, Held, Row
    <2> HIDE DEF A
    <2> QED
      BY <2>1 DEF Holding
  <1>8. SumFunctionOnSet(Holding(p)', Updates) + back
          = SumFunctionOnSet(f, Updates)
    <2> HIDE DEF A
    <2>1. SumFunctionOnSet([u \in Updates |-> IF u \in A THEN 0 ELSE f[u]],
                           Updates) + SumFunctionOnSet(f, A)
            = SumFunctionOnSet(f, Updates)
      BY <1>5, SumSplit
    <2> QED
      BY <1>4, <1>7, <2>1
  <1>9. SumFunctionOnSet(Holding(p)', Updates) \in Nat
    <2>1. D1Types'
      BY ReleaseRow
    <2>2. PICK g : g = Holding(p)'
      OBVIOUS
    <2>3. \A u \in Updates : g[u] \in Nat
      BY <1>2, <2>1, <2>2, OrderServiceAssumption
      DEF D1Types, Row, Holding, HeldQuantity, Held, OrderServiceAssumption
    <2> QED
      BY <1>5, <2>2, <2>3, SumType
  <1>10. SumFunctionOnSet(f, Updates) = SumFunctionOnSet(Holding(p), Updates)
    BY <1>3
  <1> QED
    BY ONLY <1>5, <1>6, <1>8, <1>9, <1>10

LEMMA CommitRow ==
    ASSUME D1Types, NEW u \in Updates, NEW o \in OrderIds \cup {NoOrder},
           CommitRows(u, o)
    PROVE  /\ \A v \in Updates \ {u} : reservations'[v] = reservations[v]
           /\ \A p \in Products :
                 reservations'[u][p] =
                     IF reservations[u][p].status = "RESERVED"
                     THEN CommittedFor(reservations[u][p], o)
                     ELSE reservations[u][p]
           /\ D1Types'
  <1> DEFINE row(p) == IF reservations[u][p].status = "RESERVED"
                       THEN CommittedFor(reservations[u][p], o)
                       ELSE reservations[u][p]
  <1>1. reservations' = [reservations EXCEPT ![u] =
                            [p \in Products |-> row(p)]]
    BY DEF CommitRows, CommittedFor
  <1>2. ASSUME NEW p \in Products
        PROVE  row(p) \in Row
    <2>1. reservations[u][p] \in Row
      BY DEF D1Types
    <2>2. CommittedFor(reservations[u][p], o) \in Row
      BY <2>1, CommittedFields
    <2> QED
      BY <2>1, <2>2
  <1>3. /\ \A v \in Updates \ {u} : reservations'[v] = reservations[v]
        /\ \A p \in Products : reservations'[u][p] = row(p)
        /\ reservations' \in [Updates -> [Products -> Row]]
    <2> HIDE DEF row
    <2> QED
      BY <1>1, <1>2 DEF D1Types
  <1> QED
    BY <1>3 DEF D1Types, CommitRows

LEMMA CommitKeepsStock ==
    ASSUME D1Types, StockConserved, NEW u \in Updates,
           NEW o \in OrderIds \cup {NoOrder}, CommitRows(u, o)
    PROVE  StockConserved'
  <1>1. SUFFICES ASSUME NEW p \in Stocked
                 PROVE  remaining'[p] = remaining[p]
                        /\ Holding(p)' = Holding(p)
    BY BooksKept
  <1>2. p \in Products
    BY TelegramSessionAssumption DEF TelegramSessionAssumption
  <1>3. ASSUME NEW v \in Updates
        PROVE  HeldQuantity(reservations[v][p])'
                 = HeldQuantity(reservations[v][p])
    <2>1. CASE v = u
      <3>1. reservations[u][p] \in Row
        BY <1>2 DEF D1Types
      <3>2. reservations'[u][p] =
                IF reservations[u][p].status = "RESERVED"
                THEN CommittedFor(reservations[u][p], o)
                ELSE reservations[u][p]
        BY <1>2, CommitRow
      <3>3. CASE reservations[u][p].status = "RESERVED"
        <4>1. /\ reservations'[u][p].status = "COMMITTED"
              /\ reservations'[u][p].quantity = reservations[u][p].quantity
          <5>1. reservations'[u][p] = CommittedFor(reservations[u][p], o)
            BY <3>2, <3>3
          <5> QED
            BY <3>1, <5>1, CommittedFields
        <4> QED
          BY <2>1, <3>3, <4>1 DEF HeldQuantity, Held
      <3>4. CASE reservations[u][p].status # "RESERVED"
        BY <2>1, <3>2, <3>4 DEF HeldQuantity, Held
      <3> QED
        BY <3>3, <3>4
    <2>2. CASE v # u
      BY <2>2, CommitRow DEF HeldQuantity, Held
    <2> QED
      BY <2>1, <2>2
  <1> QED
    BY <1>3 DEF Holding, CommitRows

-----------------------------------------------------------------------------
(* The inductive invariant.                                                *)

SessionTypes ==
    /\ D1Types
    /\ processed \subseteq Updates
    /\ effects \in [EffectIds -> Effect]
    /\ links \in [OrderIds -> Updates \cup {NoUpdate}]
    /\ drain \in [Customers -> [Workers -> Drain]]
    /\ faults \in [crash: 0 .. MaxCrashes, abort: 0 .. MaxAborts,
                   d1: 0 .. MaxD1Failures]

Live   == {"AWAITING_PAYMENT", "PAID"}
Closed == {"CANCELLED", "EXPIRED"}

Exists(e) == effects[e].status # "NONE"

ButtonConfirm(m) == m.action = "confirm_order" /\ ~m.typed

(* A handler works on an unanswered update of its own chat.  While it has  *)
(* a reservation to make or to use, its chat stays in review of the cart   *)
(* it read; a handler without one met no review, and meets none later.     *)
HandlerAgrees(c) ==
    LET h == handler[c]
        u == handler[c].update
    IN
    /\ h.step = "idle" => h = IdleHandler
    /\ h.step # "idle" =>
          /\ u \in Updates /\ u \notin processed
          /\ inbox[u] # NoUpdate /\ inbox[u].customer = c
          /\ h.reserved => /\ ButtonConfirm(inbox[u].message)
                           /\ conv[c].state = "CONFIRMING"
                           /\ h.cart = conv[c].cart
          /\ ~h.reserved => /\ h.step = "transact"
                            /\ ButtonConfirm(inbox[u].message) =>
                                  conv[c].state # "CONFIRMING"
          /\ h.step = "batch" => ~HasRows(u)
          /\ h.step = "transact" /\ h.reserved => HasRows(u)
          /\ h.step = "apologise" => Exists(ReleaseEffect(u))

(* A linked reservation belongs to an answered update and to one order;    *)
(* when that order is closed, its release has been enqueued.               *)
LinkAgrees(o) ==
    links[o] # NoUpdate =>
        /\ links[o] \in processed
        /\ orders[o].status # "NONE"
        /\ \A other \in OrderIds : links[other] = links[o] => other = o
        /\ orders[o].status \in Live \/ Exists(ReleaseOrderEffect(o))

(* Effects exist for a reason that does not go away.                       *)
CommitAgrees(u) ==
    Exists(CommitEffect(u)) =>
        /\ u \in processed
        /\ effects[CommitEffect(u)].orderId \in OrderIds
        /\ links[effects[CommitEffect(u)].orderId] = u

ReleaseAgrees(o) ==
    Exists(ReleaseOrderEffect(o)) => orders[o].status \in Closed

RowAgrees(u, p) ==
    reservations[u][p].orderId # NoOrder =>
        links[reservations[u][p].orderId] = u

(* What an effect is for.  After an eviction a reservation can be made     *)
(* again under an id whose release is DONE.                                *)
Achieved(e) ==
    /\ e.type = "COMMIT_RESERVATION" =>
          \A p \in Products : reservations[e.key][p].status # "RESERVED"
    /\ e.type = "RELEASE_RESERVATION" /\ faults.crash = 0 =>
          HeldOf(e.key) = {}
    /\ e.type = "RELEASE_ORDER" => HeldFor(e.key) = {}

DrainAgrees(c, w) ==
    drain[c][w].step # "idle" =>
        /\ drain[c][w].effect \in EffectIds
        /\ Exists(drain[c][w].effect)
        /\ drain[c][w].step = "verify" =>
              drain[c][w].effect.type = "COMMIT_RESERVATION"
        /\ drain[c][w].step = "settle" => Achieved(drain[c][w].effect)

DoneAgrees(e) == effects[e].status = "DONE" => Achieved(e)

At(u, steps) ==
    \E c \in Customers : handler[c].update = u /\ handler[c].step \in steps

Using(u, steps) ==
    \E c \in Customers : /\ handler[c].update = u /\ handler[c].step \in steps
                         /\ handler[c].reserved

(* As long as no object has been evicted, whoever made a reservation uses  *)
(* it or has its release enqueued, and a release is not enqueued before    *)
(* the reservation can no longer be made.                                  *)
Accounted(u) ==
    faults.crash = 0 =>
        /\ Exists(ReleaseEffect(u)) =>
              u \in processed \/ HasRows(u) \/ At(u, {"apologise"})
        /\ HasRows(u) => \/ Using(u, HandlerSteps \ {"idle"})
                         \/ Exists(ReleaseEffect(u))
                         \/ \E o \in OrderIds : links[o] = u

(* No eviction, no aborted transaction, and no order confirmed by typing.  *)
Undisturbed ==
    /\ faults.crash = 0 /\ faults.abort = 0
    /\ \A u \in Updates :
          inbox[u] # NoUpdate /\ inbox[u].message.action = "confirm_order"
              => ~inbox[u].message.typed

(* Then only the handler that made a reservation finds it or releases it,  *)
(* it holds the whole cart when the order is placed, and the order keeps   *)
(* it until it is closed.                                                  *)
Fresh(u) ==
    u \notin processed =>
        /\ HasRows(u) => Using(u, {"undo", "refuse", "apologise", "transact"})
        /\ Exists(ReleaseEffect(u)) => At(u, {"apologise"})

CartHeld(c) ==
    handler[c].step = "transact" /\ handler[c].reserved =>
        \A p \in Products :
            HeldQuantity(reservations[handler[c].update][p])
                = handler[c].cart[p]

Backed(o) ==
    orders[o].status \in Live =>
        /\ links[o] # NoUpdate
        /\ ~Exists(ReleaseEffect(links[o]))
        /\ \A p \in Products :
              HeldQuantity(reservations[links[o]][p]) = orders[o].items[p]

StockAgreement ==
    /\ SessionTypes
    /\ StockConserved
    /\ \A c \in Customers : HandlerAgrees(c)
    /\ \A o \in OrderIds : LinkAgrees(o) /\ ReleaseAgrees(o)
    /\ \A u \in Updates : CommitAgrees(u)
    /\ \A u \in Updates, p \in Products : RowAgrees(u, p)
    /\ \A c \in Customers, w \in Workers : DrainAgrees(c, w)
    /\ \A e \in EffectIds : DoneAgrees(e)
    /\ \A u \in Updates : Accounted(u)
    /\ Undisturbed => /\ \A u \in Updates : Fresh(u)
                      /\ \A c \in Customers : CartHeld(c)
                      /\ \A o \in OrderIds : Backed(o)

StockSessionInv == SessionInv /\ StockAgreement

-----------------------------------------------------------------------------
(* What one step may do, whichever it is.  Every step is shown to be such  *)
(* a move, and every move to keep the invariant.                           *)

(* Who may release a row of reservation u. *)
Releasing(u, row) ==
    \/ At(u, {"undo"})
    \/ Exists(ReleaseEffect(u))
    \/ \E o \in OrderIds :
          /\ Exists(ReleaseOrderEffect(o))
          /\ links[o] = u \/ (links[o] = NoUpdate /\ row.orderId = o)

RowMoves(u, p) ==
    LET old == reservations[u][p]
        new == reservations'[u][p]
    IN
    \/ new = old
    \/ /\ old.status = "NONE"
       /\ new.status = "RESERVED" /\ new.orderId = NoOrder
       /\ \E c \in Customers : /\ handler[c].step = "batch"
                               /\ handler[c].update = u
                               /\ handler'[c].step # "batch"
                               /\ p \in InStock(handler[c].cart)
                               /\ new.quantity = handler[c].cart[p]
    \/ /\ old.status = "RESERVED" /\ Exists(CommitEffect(u))
       /\ new = CommittedFor(old, effects[CommitEffect(u)].orderId)
    \/ /\ Held(old) /\ Releasing(u, old)
       /\ new = [old EXCEPT !.status = "RELEASED"]

InboxMoves(u) == inbox[u] # NoUpdate => inbox'[u] = inbox[u]

ProcessedMoves(u) ==
    \/ u \in processed' <=> u \in processed
    \/ /\ u \in processed'
       /\ \E c \in Customers : /\ handler[c].update = u
                               /\ handler[c].step \in {"apologise", "transact"}
                               /\ handler'[c] = IdleHandler

ConvMoves(c) ==
    \/ conv'[c] = conv[c]
    \/ conv[c].state # "CONFIRMING" /\ conv'[c].state # "CONFIRMING"
    \/ handler[c].step = "transact" /\ handler'[c] = IdleHandler

(* Handler c places order o. *)
Places(c, o) ==
    LET u == handler[c].update IN
    /\ handler[c].step = "transact" /\ handler'[c] = IdleHandler
    /\ inbox[u].message.action = "confirm_order"
    /\ conv[c].state = "CONFIRMING"
    /\ orders[o].status = "NONE"
    /\ orders'[o].status = "AWAITING_PAYMENT"
    /\ orders'[o].items = conv[c].cart
    /\ \A other \in OrderIds \ {o} : orders'[other] = orders[other]
    /\ u \in processed'
    /\ handler[c].reserved => links'[o] = u
    /\ effects'[ReleaseEffect(u)] = effects[ReleaseEffect(u)]

OrderMoves(o) ==
    \/ orders'[o] = orders[o]
    \/ \E c \in Customers : Places(c, o)
    \/ /\ orders[o].status = "AWAITING_PAYMENT"
       /\ orders'[o].items = orders[o].items
       /\ \/ orders'[o].status = "PAID"
          \/ orders'[o].status \in Closed /\ Exists(ReleaseOrderEffect(o))'

LinkMoves(o) ==
    \/ links'[o] = links[o]
    \/ \E c \in Customers : /\ Places(c, o) /\ handler[c].reserved
                            /\ links'[o] = handler[c].update

Caused(e) ==
    \/ \E c \in Customers :
          /\ e = ReleaseEffect(handler[c].update) /\ handler[c].reserved
          /\ \/ /\ handler[c].step = "refuse"
                /\ handler'[c] = [handler[c] EXCEPT !.step = "apologise"]
             \/ /\ handler[c].step = "transact"
                /\ handler[c].update \in processed' \/ faults'.abort > 0
    \/ \E c \in Customers, o \in OrderIds :
          /\ Places(c, o) /\ handler[c].reserved
          /\ e = CommitEffect(handler[c].update)
          /\ effects'[e].orderId = o
    \/ \E o \in OrderIds :
          e = ReleaseOrderEffect(o) /\ orders'[o].status \in Closed

EffectMoves(e) ==
    \/ effects'[e] = effects[e]
    \/ ~Exists(e) /\ effects'[e].status = "PENDING" /\ Caused(e)
    \/ /\ Exists(e) /\ Exists(e)'
       /\ effects'[e].orderId = effects[e].orderId
       /\ effects'[e].status = "DONE" =>
             \E c \in Customers, w \in Workers :
                drain[c][w].step = "settle" /\ drain[c][w].effect = e

(* A handler makes the next step of reserving, or is through. *)
HandlerGoes(c) ==
    LET to(s) == handler'[c] = [handler[c] EXCEPT !.step = s] IN
    \E u \in Updates :
       /\ handler[c].step # "idle" /\ u = handler[c].update
       /\ \/ handler[c].step = "exists" /\ HasRows(u) /\ to("transact")
          \/ handler[c].step = "exists" /\ ~HasRows(u) /\ to("batch")
          \/ /\ handler[c].step = "batch" /\ to("transact")
             /\ ReserveBatch(u, handler[c].cart)
             /\ InStock(handler[c].cart) = Wanted(handler[c].cart)
          \/ handler[c].step = "batch" /\ to("undo")
          \/ handler[c].step \in {"exists", "batch", "undo"} /\ to("refuse")
          \/ /\ handler[c].step = "refuse" /\ to("apologise")
             /\ Exists(ReleaseEffect(u))'
          \/ handler'[c] = IdleHandler /\ faults'.crash > 0
          \/ /\ handler'[c] = IdleHandler
             /\ handler[c].step = "apologise" /\ u \in processed'
          \/ /\ handler'[c] = IdleHandler /\ handler[c].step = "transact"
             /\ u \in processed' \/ (handler[c].reserved => faults'.abort > 0)
             /\ handler[c].reserved => \/ Exists(ReleaseEffect(u))'
                                       \/ \E o \in OrderIds : links'[o] = u

HandlerMoves(c) ==
    \/ handler'[c] = handler[c]
    \/ \E u \in Updates, m \in Messages : Receive(c, u, m)
    \/ HandlerGoes(c)

FaultMoves ==
    /\ faults.crash > 0 => faults'.crash > 0
    /\ faults.abort > 0 => faults'.abort > 0

SessionMoves ==
    /\ \A u \in Updates : InboxMoves(u) /\ ProcessedMoves(u)
    /\ \A u \in Updates, p \in Products : RowMoves(u, p)
    /\ \A c \in Customers : ConvMoves(c) /\ HandlerMoves(c)
    /\ \A o \in OrderIds : OrderMoves(o) /\ LinkMoves(o)
    /\ \A e \in EffectIds : EffectMoves(e)
    /\ FaultMoves

-----------------------------------------------------------------------------
(* Moves keep the invariant.                                               *)

(* No two handlers work on the same update.                                *)
LEMMA OneHandlerPerUpdate ==
    ASSUME StockAgreement, NEW c \in Customers, NEW d \in Customers,
           handler[c].step # "idle", handler[d].step # "idle",
           handler[c].update = handler[d].update
    PROVE  c = d
  <1>1. HandlerAgrees(c) /\ HandlerAgrees(d)
    BY DEF StockAgreement
  <1> QED
    BY <1>1 DEF HandlerAgrees

LEMMA ExistingStay ==
    ASSUME SessionMoves, NEW e \in EffectIds, Exists(e)
    PROVE  Exists(e)'
  <1>1. EffectMoves(e)
    BY DEF SessionMoves
  <1> QED
    BY <1>1 DEF EffectMoves, Exists

(* The shapes a row can take. *)
LEMMA RowShapes ==
    ASSUME StockAgreement, SessionMoves, NEW u \in Updates,
           NEW p \in Products
    PROVE  LET old == reservations[u][p]
               new == reservations'[u][p]
           IN  \/ new = old
               \/ /\ old.status = "NONE" /\ new.status = "RESERVED"
                  /\ new.orderId = NoOrder
               \/ /\ old.status = "RESERVED" /\ new.status = "COMMITTED"
                  /\ new.quantity = old.quantity
                  /\ Exists(CommitEffect(u))
                  /\ new.orderId = effects[CommitEffect(u)].orderId
               \/ /\ Held(old) /\ Releasing(u, old)
                  /\ new.status = "RELEASED"
                  /\ new.quantity = old.quantity
                  /\ new.orderId = old.orderId
  <1>1. RowMoves(u, p)
    BY DEF SessionMoves
  <1>2. reservations[u][p] \in Row
    BY DEF StockAgreement, SessionTypes, D1Types
  <1>3. effects[CommitEffect(u)].orderId \in OrderIds \cup {NoOrder}
    BY EffectNames DEF StockAgreement, SessionTypes, Effect
  <1>4. PICK old : old = reservations[u][p]
    OBVIOUS
  <1>5. PICK new : new = reservations'[u][p]
    OBVIOUS
  <1>6. PICK o \in OrderIds \cup {NoOrder} :
                o = effects[CommitEffect(u)].orderId
    BY <1>3
  <1>7. CASE old.status = "RESERVED" /\ Exists(CommitEffect(u))
             /\ new = CommittedFor(old, o)
    <2>1. /\ new.status = "COMMITTED" /\ new.quantity = old.quantity
          /\ new.orderId = o
      BY <1>2, <1>4, <1>7, CommittedFields
    <2> QED
      BY <1>4, <1>5, <1>6, <1>7, <2>1
  <1>8. CASE /\ Held(old) /\ Releasing(u, old)
             /\ new = [old EXCEPT !.status = "RELEASED"]
    <2>1. /\ new.status = "RELEASED" /\ new.quantity = old.quantity
          /\ new.orderId = old.orderId
      BY <1>2, <1>4, <1>8, RowFields
    <2> QED
      BY <1>4, <1>5, <1>8, <2>1
  <1> QED
    BY <1>1, <1>4, <1>5, <1>6, <1>7, <1>8 DEF RowMoves

LEMMA RowsStay ==
    ASSUME StockAgreement, SessionMoves, NEW u \in Updates, HasRows(u)
    PROVE  HasRows(u)'
  <1>1. PICK p \in Products : reservations[u][p].status # "NONE"
    BY DEF HasRows
  <1>2. reservations'[u][p].status # "NONE"
    BY <1>1, RowShapes DEF Held
  <1> QED
    BY <1>2 DEF HasRows

LEMMA AnsweredStay ==
    ASSUME SessionMoves, NEW u \in Updates, u \in processed
    PROVE  u \in processed'
  BY DEF SessionMoves, ProcessedMoves

LEMMA LinksStay ==
    ASSUME StockAgreement, SessionMoves, NEW o \in OrderIds,
           orders[o].status # "NONE" \/ links[o] # NoUpdate
    PROVE  links'[o] = links[o]
  <1>1. LinkAgrees(o) /\ LinkMoves(o)
    BY DEF StockAgreement, SessionMoves
  <1> QED
    BY <1>1 DEF LinkAgrees, LinkMoves, Places

(* Rows are added by the one handler that is about to make them.           *)
LEMMA NewRowsAtBatch ==
    ASSUME StockAgreement, SessionMoves, NEW u \in Updates,
           NEW p \in Products, reservations'[u][p] # reservations[u][p],
           reservations[u][p].status = "NONE"
    PROVE  \E c \in Customers : /\ handler[c].step = "batch"
                                /\ handler[c].update = u
                                /\ handler'[c].step # "batch"
                                /\ u \notin processed /\ ~HasRows(u)
  <1>1. RowMoves(u, p)
    BY DEF SessionMoves
  <1>2. PICK c \in Customers : /\ handler[c].step = "batch"
                               /\ handler[c].update = u
                               /\ handler'[c].step # "batch"
    BY <1>1 DEF RowMoves, Held
  <1>3. HandlerAgrees(c)
    BY DEF StockAgreement
  <1> QED
    BY <1>2, <1>3 DEF HandlerAgrees

(* So the rows of an update that nobody is about to reserve for only       *)
(* advance.                                                                *)
Settled(u) ==
    \A c \in Customers : ~(handler[c].step = "batch" /\ handler[c].update = u)

LEMMA AnsweredIsSettled ==
    ASSUME StockAgreement, NEW u \in processed
    PROVE  Settled(u)
  <1> SUFFICES ASSUME NEW c \in Customers, handler[c].step = "batch",
                      handler[c].update = u
               PROVE  FALSE
    BY DEF Settled
  <1>1. HandlerAgrees(c)
    BY DEF StockAgreement
  <1> QED
    BY <1>1 DEF HandlerAgrees

LEMMA SettledRows ==
    ASSUME StockAgreement, SessionMoves, NEW u \in Updates, Settled(u),
           NEW p \in Products
    PROVE  /\ reservations[u][p].status # "RESERVED"
                 => reservations'[u][p].status # "RESERVED"
           /\ ~Held(reservations[u][p]) => ~Held(reservations'[u][p])
  <1>1. reservations[u][p].status = "NONE"
          => reservations'[u][p] = reservations[u][p]
    BY NewRowsAtBatch DEF Settled
  <1> QED
    BY <1>1, RowShapes DEF Held

LEMMA SettledStaysReleased ==
    ASSUME StockAgreement, SessionMoves, NEW u \in Updates, Settled(u),
           HeldOf(u) = {}
    PROVE  HeldOf(u)' = {}
  BY SettledRows DEF HeldOf

(* A row that holds keeps its quantity, unless somebody releases it.       *)
LEMMA HeldStaysHeld ==
    ASSUME StockAgreement, SessionMoves, NEW u \in Updates, Settled(u),
           NEW p \in Products, ~Releasing(u, reservations[u][p])
    PROVE  HeldQuantity(reservations'[u][p]) = HeldQuantity(reservations[u][p])
  <1>1. reservations[u][p].status = "NONE"
          => reservations'[u][p] = reservations[u][p]
    BY NewRowsAtBatch DEF Settled
  <1> QED
    BY <1>1, RowShapes DEF HeldQuantity, Held

(* A handler that does not move, or that goes on, still works on an        *)
(* unanswered update of its chat.                                          *)
LEMMA StillAtWork ==
    ASSUME StockSessionInv, SessionMoves, NEW c \in Customers,
           handler[c].step # "idle", handler'[c] # IdleHandler,
           NEW u, u = handler[c].update
    PROVE  /\ u \in Updates /\ u \notin processed'
           /\ inbox'[u] = inbox[u]
           /\ inbox[u] # NoUpdate /\ inbox[u].customer = c
           /\ conv[c].state = "CONFIRMING" => conv'[c] = conv[c]
           /\ conv[c].state # "CONFIRMING" => conv'[c].state # "CONFIRMING"
           /\ HasRows(u) => HasRows(u)'
  <1>1. HandlerAgrees(c) /\ StockAgreement
    BY DEF StockAgreement, StockSessionInv
  <1>2. /\ u \in Updates /\ u \notin processed
        /\ inbox[u] # NoUpdate /\ inbox[u].customer = c
    BY <1>1 DEF HandlerAgrees
  <1>3. InboxMoves(u) /\ ProcessedMoves(u) /\ ConvMoves(c)
    BY <1>2 DEF SessionMoves
  <1>4. u \notin processed'
    <2>1. SUFFICES ASSUME u \in processed' PROVE FALSE
      OBVIOUS
    <2>2. PICK d \in Customers : /\ handler[d].update = u
                                 /\ handler[d].step \in {"apologise", "transact"}
                                 /\ handler'[d] = IdleHandler
      BY <1>2, <1>3, <2>1 DEF ProcessedMoves
    <2>3. d = c
      BY <1>1, <2>2, OneHandlerPerUpdate
    <2> QED
      BY <2>2, <2>3
  <1>5. HasRows(u) => HasRows(u)'
    BY <1>1, <1>2, RowsStay
  <1>6. /\ conv[c].state = "CONFIRMING" => conv'[c] = conv[c]
        /\ conv[c].state # "CONFIRMING" => conv'[c].state # "CONFIRMING"
    BY <1>3 DEF ConvMoves
  <1> QED
    BY <1>2, <1>3, <1>4, <1>5, <1>6 DEF InboxMoves

LEMMA NoRowsBeforeBatch ==
    ASSUME StockSessionInv, SessionMoves, NEW c \in Customers,
           handler[c].step # "idle", handler'[c].step = "batch",
           NEW u \in Updates, u = handler[c].update, ~HasRows(u)
    PROVE  ~HasRows(u)'
  <1> SUFFICES ASSUME NEW p \in Products,
                      reservations'[u][p].status # "NONE"
               PROVE  FALSE
    BY DEF HasRows
  <1>1. StockAgreement
    BY DEF StockSessionInv
  <1>2. reservations[u][p].status = "NONE"
    BY DEF HasRows
  <1>3. PICK d \in Customers : /\ handler[d].step = "batch"
                               /\ handler[d].update = u
                               /\ handler'[d].step # "batch"
    BY <1>1, <1>2, NewRowsAtBatch
  <1>4. d = c
    BY <1>1, <1>3, OneHandlerPerUpdate
  <1> QED
    BY <1>3, <1>4

(* The rows that a batch without a shortage leaves. *)
LEMMA WholeCartReserved ==
    ASSUME D1Types, NEW u \in Updates, NEW cart \in Carts,
           ReserveBatch(u, cart), InStock(cart) = Wanted(cart),
           cart # EmptyCart
    PROVE  HasRows(u)'
  <1>1. PICK p \in Products : cart[p] # 0
    <2>1. SUFFICES ASSUME \A q \in Products : cart[q] = 0
                   PROVE  FALSE
      OBVIOUS
    <2>2. cart = [q \in Products |-> cart[q]]
      BY DEF Carts
    <2>3. cart = [q \in Products |-> 0]
      BY <2>1, <2>2
    <2> QED
      BY <2>3 DEF EmptyCart
  <1>2. p \in Wanted(cart)
    BY <1>1, OrderServiceAssumption
    DEF Wanted, Carts, OrderServiceAssumption
  <1>3. reservations'[u][p].status = "RESERVED"
    <2>1. p \in InStock(cart)
      BY <1>2
    <2>2. reservations'[u][p] = [status |-> "RESERVED", quantity |-> cart[p],
                                 orderId |-> NoOrder]
      BY <2>1, ReserveRow
    <2> QED
      BY <2>2
  <1> QED
    BY <1>3 DEF HasRows

LEMMA HandlersStayAgreed ==
    ASSUME StockSessionInv, SessionInv', SessionMoves, NEW c \in Customers
    PROVE  HandlerAgrees(c)'
  <1>0. /\ StockAgreement /\ HandlerAgrees(c) /\ Delivered /\ SessionTypes
        /\ handler[c] \in Handler /\ ServiceInv
    BY DEF StockSessionInv, StockAgreement, SessionInv, Delivered
  <1>1. HandlerMoves(c)
    BY DEF SessionMoves
  <1>2. CASE handler'[c] = IdleHandler
    BY <1>2 DEF HandlerAgrees, IdleHandler
  <1>3. CASE handler'[c] = handler[c] /\ handler[c] # IdleHandler
    <2>1. handler[c].step # "idle"
      BY <1>0, <1>3 DEF HandlerAgrees
    <2>2. PICK u : u = handler[c].update
      OBVIOUS
    <2>3. /\ u \in Updates /\ u \notin processed'
          /\ inbox'[u] = inbox[u]
          /\ inbox[u] # NoUpdate /\ inbox[u].customer = c
          /\ conv[c].state = "CONFIRMING" => conv'[c] = conv[c]
          /\ conv[c].state # "CONFIRMING" => conv'[c].state # "CONFIRMING"
          /\ HasRows(u) => HasRows(u)'
      BY <1>3, <2>1, <2>2, StillAtWork
    <2>4. handler[c].step = "batch" => ~HasRows(u)'
      BY <1>0, <1>3, <2>1, <2>2, <2>3, NoRowsBeforeBatch DEF HandlerAgrees
    <2>5. handler[c].step = "apologise" => Exists(ReleaseEffect(u))'
      BY <1>0, <2>1, <2>2, <2>3, ExistingStay, EffectNames DEF HandlerAgrees
    <2>6. handler'[c].update = u
      BY <1>3, <2>2
    <2>7. /\ handler[c].reserved => /\ ButtonConfirm(inbox[u].message)
                                    /\ conv[c].state = "CONFIRMING"
                                    /\ handler[c].cart = conv[c].cart
          /\ ~handler[c].reserved => /\ handler[c].step = "transact"
                                     /\ ButtonConfirm(inbox[u].message) =>
                                           conv[c].state # "CONFIRMING"
          /\ handler[c].step = "transact" /\ handler[c].reserved => HasRows(u)
      BY <1>0, <2>1, <2>2 DEF HandlerAgrees
    <2> QED
      BY <1>3, <2>1, <2>2, <2>3, <2>4, <2>5, <2>6, <2>7 DEF HandlerAgrees
  <1>4. ASSUME NEW u \in Updates, NEW m \in Messages, Receive(c, u, m)
        PROVE  HandlerAgrees(c)'
    <2> DEFINE reserves == /\ m.action = "confirm_order" /\ ~m.typed
                           /\ conv[c].state = "CONFIRMING"
                           /\ conv[c].cart # EmptyCart
    <2>1. PICK h : h = handler'[c]
      OBVIOUS
    <2>2. /\ h.step = IF reserves THEN "exists" ELSE "transact"
          /\ h.update = u
          /\ h.cart = IF reserves THEN conv[c].cart ELSE EmptyCart
          /\ h.reserved = reserves
      BY <1>0, <1>4, <2>1 DEF Receive, Delivered
    <2>3. /\ inbox'[u] = [customer |-> c, message |-> m]
          /\ u \notin processed' /\ conv' = conv
      BY <1>0, <1>4 DEF Receive, Delivered, serviceVars
    <2>4. inbox'[u] # NoUpdate
      BY <2>3, TelegramSessionAssumption DEF TelegramSessionAssumption
    <2>5. conv[c].state = "CONFIRMING" => conv[c].cart # EmptyCart
      BY <1>0 DEF ServiceInv, ConfirmingIsReviewed
    <2>6. CASE reserves
      BY <2>1, <2>2, <2>3, <2>4, <2>6 DEF HandlerAgrees, ButtonConfirm
    <2>7. CASE ~reserves
      BY <2>1, <2>2, <2>3, <2>4, <2>5, <2>7 DEF HandlerAgrees, ButtonConfirm
    <2> QED
      BY <2>6, <2>7
  <1>5. CASE HandlerGoes(c) /\ handler'[c] # IdleHandler
    <2>1. PICK u : u = handler[c].update
      OBVIOUS
    <2>2. handler[c].step # "idle" /\ handler[c].step # "transact"
      BY <1>5 DEF HandlerGoes
    <2>3. PICK s \in HandlerSteps \ {"idle"} :
               handler'[c] = [handler[c] EXCEPT !.step = s]
      BY <1>5 DEF HandlerGoes, HandlerSteps
    <2>4. /\ handler'[c].step = s /\ handler'[c].update = u
          /\ handler'[c].cart = handler[c].cart
          /\ handler'[c].reserved = handler[c].reserved
      BY <1>0, <2>1, <2>3 DEF Handler
    <2>10. \A x : handler'[c] = [handler[c] EXCEPT !.step = x] => x = s
      BY <1>0, <2>4 DEF Handler
    <2>11. \/ handler[c].step = "exists" /\ HasRows(u) /\ s = "transact"
           \/ handler[c].step = "exists" /\ ~HasRows(u) /\ s = "batch"
           \/ /\ handler[c].step = "batch" /\ s = "transact"
              /\ ReserveBatch(u, handler[c].cart)
              /\ InStock(handler[c].cart) = Wanted(handler[c].cart)
           \/ s = "undo" \/ s = "refuse"
           \/ s = "apologise" /\ Exists(ReleaseEffect(u))'
      BY <1>5, <2>1, <2>2, <2>10 DEF HandlerGoes
    <2>5. /\ u \in Updates /\ u \notin processed'
          /\ inbox'[u] = inbox[u]
          /\ inbox[u] # NoUpdate /\ inbox[u].customer = c
          /\ conv[c].state = "CONFIRMING" => conv'[c] = conv[c]
          /\ HasRows(u) => HasRows(u)'
      BY <1>5, <2>1, <2>2, StillAtWork
    <2>6. /\ handler[c].reserved /\ ButtonConfirm(inbox[u].message)
          /\ conv[c].state = "CONFIRMING" /\ handler[c].cart = conv[c].cart
          /\ handler[c].cart # EmptyCart /\ handler[c].cart \in Carts
      BY <1>0, <2>1, <2>2
      DEF HandlerAgrees, ServiceInv, ConfirmingIsReviewed, Handler
    <2>7. s = "batch" => ~HasRows(u)'
      <3>1. s = "batch" => ~HasRows(u)
        BY <2>11
      <3> QED
        BY <2>1, <2>2, <2>4, <2>5, <3>1, NoRowsBeforeBatch
    <2>8. s = "transact" => HasRows(u)'
      <3>1. SUFFICES ASSUME s = "transact" PROVE HasRows(u)'
        OBVIOUS
      <3>2. \/ HasRows(u)
            \/ /\ ReserveBatch(u, handler[c].cart)
               /\ InStock(handler[c].cart) = Wanted(handler[c].cart)
        BY <2>11, <3>1
      <3> QED
        BY <1>0, <2>5, <2>6, <3>2, WholeCartReserved DEF SessionTypes
    <2>9. s = "apologise" => Exists(ReleaseEffect(u))'
      <3>1. SUFFICES ASSUME s = "apologise" PROVE Exists(ReleaseEffect(u))'
        OBVIOUS
      <3> QED
        BY <2>11, <3>1
    <2> QED
      BY <2>3, <2>4, <2>5, <2>6, <2>7, <2>8, <2>9 DEF HandlerAgrees
  <1> QED
    BY <1>1, <1>2, <1>3, <1>4, <1>5 DEF HandlerMoves

(* An order is placed by one handler, under one link.                      *)
LEMMA LinksStayAgreed ==
    ASSUME StockSessionInv, SessionMoves, NEW o \in OrderIds
    PROVE  LinkAgrees(o)'
  <1> SUFFICES ASSUME links'[o] # NoUpdate
               PROVE  /\ links'[o] \in processed'
                      /\ orders'[o].status # "NONE"
                      /\ \A other \in OrderIds :
                            links'[other] = links'[o] => other = o
                      /\ \/ orders'[o].status \in Live
                         \/ Exists(ReleaseOrderEffect(o))'
    BY DEF LinkAgrees
  <1>1. /\ StockAgreement /\ LinkAgrees(o) /\ OrderMoves(o) /\ LinkMoves(o)
        /\ links \in [OrderIds -> Updates \cup {NoUpdate}]
    BY DEF StockSessionInv, StockAgreement, SessionMoves, SessionTypes
  <1>2. CASE links'[o] = links[o]
    <2>1. /\ links[o] \in processed /\ links[o] \in Updates
          /\ orders[o].status # "NONE"
      BY <1>1, <1>2 DEF LinkAgrees
    <2>2. links'[o] \in processed'
      BY <1>2, <2>1, AnsweredStay
    <2>3. orders'[o].status # "NONE"
      BY <1>1, <2>1 DEF OrderMoves, Places, Closed
    <2>4. ASSUME NEW other \in OrderIds, links'[other] = links'[o]
          PROVE  other = o
      <3>1. CASE links'[other] = links[other]
        BY <1>1, <1>2, <2>4, <3>1 DEF LinkAgrees
      <3>2. CASE \E c \in Customers : /\ Places(c, other)
                                      /\ links'[other] = handler[c].update
        <4>1. PICK c \in Customers : /\ handler[c].step = "transact"
                                     /\ links'[other] = handler[c].update
          BY <3>2 DEF Places
        <4>2. HandlerAgrees(c)
          BY <1>1 DEF StockAgreement
        <4> QED
          BY <1>2, <2>1, <2>4, <4>1, <4>2 DEF HandlerAgrees
      <3> QED
        BY <3>1, <3>2 DEF SessionMoves, LinkMoves
    <2>5. \/ orders'[o].status \in Live
          \/ Exists(ReleaseOrderEffect(o))'
      <3>1. Exists(ReleaseOrderEffect(o)) => Exists(ReleaseOrderEffect(o))'
        BY ExistingStay, EffectNames
      <3>2. orders[o].status \in Live \/ Exists(ReleaseOrderEffect(o))
        BY <1>1, <1>2 DEF LinkAgrees
      <3> QED
        BY <1>1, <2>1, <3>1, <3>2 DEF OrderMoves, Places, Live
    <2> QED
      BY <2>2, <2>3, <2>4, <2>5
  <1>3. CASE \E c \in Customers : /\ Places(c, o) /\ handler[c].reserved
                                  /\ links'[o] = handler[c].update
    <2>1. PICK c \in Customers : /\ Places(c, o)
                                 /\ links'[o] = handler[c].update
      BY <1>3
    <2>2. /\ links'[o] \in processed' /\ orders'[o].status = "AWAITING_PAYMENT"
          /\ handler[c].step = "transact"
      BY <2>1 DEF Places
    <2>3. HandlerAgrees(c)
      BY <1>1 DEF StockAgreement
    <2>4. ASSUME NEW other \in OrderIds, links'[other] = links'[o], other # o
          PROVE  FALSE
      <3>1. orders'[other] = orders[other]
        BY <2>1, <2>4 DEF Places
      <3>2. links'[other] = links[other]
        BY <3>1 DEF SessionMoves, LinkMoves, Places
      <3>3. links[other] = handler[c].update /\ LinkAgrees(other)
        BY <1>1, <2>1, <2>4, <3>2 DEF StockAgreement
      <3> QED
        BY <2>2, <2>3, <3>3, TelegramSessionAssumption
        DEF LinkAgrees, HandlerAgrees, TelegramSessionAssumption
    <2> QED
      BY <2>2, <2>4 DEF Live
  <1> QED
    BY <1>1, <1>2, <1>3 DEF LinkMoves

LEMMA ReleasesStayAgreed ==
    ASSUME StockSessionInv, SessionMoves, NEW o \in OrderIds
    PROVE  ReleaseAgrees(o)'
  <1> SUFFICES ASSUME Exists(ReleaseOrderEffect(o))'
               PROVE  orders'[o].status \in Closed
    BY DEF ReleaseAgrees
  <1>1. /\ ReleaseAgrees(o) /\ OrderMoves(o)
        /\ EffectMoves(ReleaseOrderEffect(o))
    BY EffectNames DEF StockSessionInv, StockAgreement, SessionMoves
  <1>2. CASE Exists(ReleaseOrderEffect(o))
    <2>1. orders[o].status \in Closed
      BY <1>1, <1>2 DEF ReleaseAgrees
    <2> QED
      BY <1>1, <2>1 DEF OrderMoves, Places, Closed
  <1>3. CASE ~Exists(ReleaseOrderEffect(o))
    <2>1. Caused(ReleaseOrderEffect(o))
      BY <1>1, <1>3 DEF EffectMoves, Exists
    <2> QED
      BY <2>1 DEF Caused, ReleaseOrderEffect, ReleaseEffect, CommitEffect
  <1> QED
    BY <1>2, <1>3

LEMMA CommitsStayAgreed ==
    ASSUME StockSessionInv, SessionMoves, NEW u \in Updates
    PROVE  CommitAgrees(u)'
  <1> DEFINE e == CommitEffect(u)
  <1> SUFFICES ASSUME Exists(e)'
               PROVE  /\ u \in processed' /\ effects'[e].orderId \in OrderIds
                      /\ links'[effects'[e].orderId] = u
    BY DEF CommitAgrees
  <1>1. /\ CommitAgrees(u) /\ EffectMoves(e) /\ StockAgreement
    BY EffectNames DEF StockSessionInv, StockAgreement, SessionMoves
  <1>2. CASE Exists(e)
    <2>1. /\ u \in processed /\ effects[e].orderId \in OrderIds
          /\ links[effects[e].orderId] = u
      BY <1>1, <1>2 DEF CommitAgrees
    <2>2. effects'[e].orderId = effects[e].orderId
      BY <1>1, <1>2 DEF EffectMoves
    <2>3. u # NoUpdate
      BY TelegramSessionAssumption DEF TelegramSessionAssumption
    <2> QED
      BY <1>1, <2>1, <2>2, <2>3, AnsweredStay, LinksStay
  <1>3. CASE ~Exists(e)
    <2>1. Caused(e)
      BY <1>1, <1>3 DEF EffectMoves, Exists
    <2>2. PICK c \in Customers, o \in OrderIds :
              /\ Places(c, o) /\ handler[c].reserved
              /\ e = CommitEffect(handler[c].update) /\ effects'[e].orderId = o
      BY <2>1 DEF Caused, ReleaseOrderEffect, ReleaseEffect, CommitEffect
    <2>3. handler[c].update = u
      BY <2>2 DEF CommitEffect
    <2> QED
      BY <2>2, <2>3 DEF Places
  <1> QED
    BY <1>2, <1>3

LEMMA RowsStayAgreed ==
    ASSUME StockSessionInv, SessionMoves, NEW u \in Updates,
           NEW p \in Products
    PROVE  RowAgrees(u, p)'
  <1> SUFFICES ASSUME reservations'[u][p].orderId # NoOrder
               PROVE  links'[reservations'[u][p].orderId] = u
    BY DEF RowAgrees
  <1>1. /\ RowAgrees(u, p) /\ CommitAgrees(u) /\ StockAgreement
        /\ reservations[u][p] \in Row
    BY DEF StockSessionInv, StockAgreement, SessionTypes, D1Types
  <1>2. u # NoUpdate
    BY TelegramSessionAssumption DEF TelegramSessionAssumption
  <1>3. PICK o : o = reservations'[u][p].orderId
    OBVIOUS
  <1>4. o \in OrderIds /\ links[o] = u
    <2>1. CASE o = reservations[u][p].orderId
      BY <1>1, <1>3, <2>1 DEF RowAgrees, Row
    <2>2. CASE /\ Exists(CommitEffect(u))
               /\ o = effects[CommitEffect(u)].orderId
      BY <1>1, <2>2 DEF CommitAgrees
    <2> QED
      BY <1>1, <1>3, <2>1, <2>2, RowShapes
  <1> QED
    BY <1>1, <1>2, <1>3, <1>4, LinksStay

(* What an effect achieved stays so. *)
LEMMA AchievedStays ==
    ASSUME StockSessionInv, SessionMoves, NEW e \in EffectIds, Exists(e),
           Achieved(e)
    PROVE  Achieved(e)'
  <1>0. StockAgreement
    BY DEF StockSessionInv
  <1>1. ASSUME NEW u \in Updates, e = CommitEffect(u)
        PROVE  Achieved(e)'
    <2>1. CommitAgrees(u)
      BY <1>0 DEF StockAgreement
    <2>2. Settled(u)
      BY <1>0, <1>1, <2>1, AnsweredIsSettled DEF CommitAgrees
    <2>3. \A p \in Products : reservations[u][p].status # "RESERVED"
      BY <1>1 DEF Achieved, CommitEffect
    <2>4. \A p \in Products : reservations'[u][p].status # "RESERVED"
      BY <1>0, <2>2, <2>3, SettledRows
    <2> QED
      BY <1>1, <2>4 DEF Achieved, CommitEffect
  <1>2. ASSUME NEW u \in Updates, e = ReleaseEffect(u)
        PROVE  Achieved(e)'
    <2>1. SUFFICES ASSUME faults'.crash = 0
                   PROVE  HeldOf(u)' = {}
      BY <1>2 DEF Achieved, ReleaseEffect
    <2>2. faults.crash = 0
      <3>1. faults.crash \in Nat /\ (faults.crash > 0 => faults'.crash > 0)
        BY <1>0, TelegramSessionAssumption
        DEF StockAgreement, SessionTypes, SessionMoves, FaultMoves,
            TelegramSessionAssumption
      <3> QED
        BY <2>1, <3>1
    <2>3. HeldOf(u) = {} /\ Accounted(u)
      BY <1>0, <1>2, <2>2 DEF Achieved, ReleaseEffect, StockAgreement
    <2>4. u \in processed \/ HasRows(u) \/ At(u, {"apologise"})
      BY <1>2, <2>2, <2>3 DEF Accounted
    <2>5. Settled(u)
      <3> SUFFICES ASSUME NEW c \in Customers, handler[c].step = "batch",
                          handler[c].update = u
                   PROVE  FALSE
        BY DEF Settled
      <3>1. HandlerAgrees(c)
        BY <1>0 DEF StockAgreement
      <3>2. At(u, {"apologise"})
        BY <2>4, <3>1 DEF HandlerAgrees
      <3>3. PICK d \in Customers : /\ handler[d].update = u
                                   /\ handler[d].step = "apologise"
        BY <3>2 DEF At
      <3>4. c = d
        BY <1>0, <3>3, OneHandlerPerUpdate
      <3> QED
        BY <3>3, <3>4
    <2> QED
      BY <1>0, <2>3, <2>5, SettledStaysReleased
  <1>3. ASSUME NEW o \in OrderIds, e = ReleaseOrderEffect(o)
        PROVE  Achieved(e)'
    <2>1. orders[o].status \in Closed /\ HeldFor(o) = {} /\ LinkAgrees(o)
      BY <1>0, <1>3
      DEF StockAgreement, ReleaseAgrees, Achieved, ReleaseOrderEffect
    <2>2. links'[o] = links[o]
      BY <1>0, <2>1, LinksStay DEF Closed
    <2>3. PICK u \in Updates \cup {NoUpdate} : u = links[o]
      BY <1>0 DEF StockAgreement, SessionTypes
    <2>4. ASSUME u # NoUpdate
          PROVE  HeldOf(u)' = {}
      <3>1. u \in processed /\ HeldOf(u) = {}
        BY <2>1, <2>3, <2>4 DEF LinkAgrees, HeldFor
      <3> QED
        BY <1>0, <2>4, <3>1, AnsweredIsSettled, SettledStaysReleased
    <2>5. HeldFor(o)' = {}
      BY <2>2, <2>3, <2>4 DEF HeldFor
    <2> QED
      BY <1>3, <2>5 DEF Achieved, ReleaseOrderEffect
  <1> QED
    BY <1>1, <1>2, <1>3, EffectKinds

LEMMA DoneStaysAgreed ==
    ASSUME StockSessionInv, SessionMoves, NEW e \in EffectIds
    PROVE  DoneAgrees(e)'
  <1> SUFFICES ASSUME effects'[e].status = "DONE"
               PROVE  Achieved(e)'
    BY DEF DoneAgrees
  <1>1. StockAgreement /\ EffectMoves(e) /\ DoneAgrees(e)
    BY DEF StockSessionInv, StockAgreement, SessionMoves
  <1>2. CASE effects'[e] = effects[e]
    <2>1. Exists(e) /\ Achieved(e)
      BY <1>1, <1>2 DEF DoneAgrees, Exists
    <2> QED
      BY <2>1, AchievedStays
  <1>3. CASE effects'[e] # effects[e]
    <2>1. PICK c \in Customers, w \in Workers :
              Exists(e) /\ drain[c][w].step = "settle" /\ drain[c][w].effect = e
      BY <1>1, <1>3 DEF EffectMoves
    <2>2. DrainAgrees(c, w)
      BY <1>1 DEF StockAgreement
    <2>3. Achieved(e)
      BY <2>1, <2>2 DEF DrainAgrees
    <2> QED
      BY <2>1, <2>3, AchievedStays
  <1> QED
    BY <1>2, <1>3

(* A handler that is not through goes on with its update.                  *)
LEMMA GoesOn ==
    ASSUME StockSessionInv, SessionMoves, NEW c \in Customers,
           handler[c].step # "idle", handler'[c] # IdleHandler
    PROVE  /\ handler'[c].update = handler[c].update
           /\ handler'[c].reserved = handler[c].reserved
           /\ handler'[c].cart = handler[c].cart
           /\ handler'[c].step \in HandlerSteps \ {"idle"}
           /\ \/ handler'[c].step = handler[c].step
              \/ handler[c].step \in {"exists", "batch", "undo", "refuse"}
           /\ handler[c].step \notin {"exists", "batch"} =>
                 handler'[c].step \notin {"exists", "batch"}
           /\ handler[c].step = "batch" => handler'[c].step # "exists"
  <1>1. /\ handler[c] \in Handler /\ HandlerMoves(c) /\ HandlerAgrees(c)
    BY DEF StockSessionInv, SessionInv, Delivered, SessionMoves, StockAgreement
  <1>2. CASE handler'[c] = handler[c]
    BY <1>1, <1>2 DEF Handler
  <1>3. CASE handler'[c] # handler[c]
    <2>1. HandlerGoes(c)
      BY <1>1, <1>3 DEF HandlerMoves, Receive
    <2>2. PICK s \in HandlerSteps \ {"idle"} :
              /\ handler'[c] = [handler[c] EXCEPT !.step = s]
              /\ handler[c].step \in {"exists", "batch", "undo", "refuse"}
              /\ handler[c].step \notin {"exists", "batch"} =>
                    s \notin {"exists", "batch"}
              /\ handler[c].step = "batch" => s # "exists"
      BY <2>1 DEF HandlerGoes, HandlerSteps
    <2> QED
      BY <1>1, <2>2 DEF Handler
  <1> QED
    BY <1>2, <1>3

(* Without an eviction a handler only stops when it is through.            *)
LEMMA Returns ==
    ASSUME StockSessionInv, SessionMoves, NEW c \in Customers,
           handler[c].step # "idle", handler'[c] = IdleHandler,
           ~(faults'.crash > 0), NEW u, u = handler[c].update
    PROVE  \/ handler[c].step = "apologise" /\ u \in processed'
           \/ /\ handler[c].step = "transact"
              /\ u \in processed' \/ (handler[c].reserved => faults'.abort > 0)
              /\ handler[c].reserved => \/ Exists(ReleaseEffect(u))'
                                        \/ \E o \in OrderIds : links'[o] = u
  <1>1. HandlerMoves(c) /\ handler[c] \in Handler
    BY DEF SessionMoves, StockSessionInv, SessionInv, Delivered
  <1>2. HandlerGoes(c)
    BY <1>1 DEF HandlerMoves, Receive, IdleHandler
  <1>3. \A s \in HandlerSteps \ {"idle"} :
            handler'[c] # [handler[c] EXCEPT !.step = s]
    BY <1>1 DEF Handler, IdleHandler
  <1> QED
    BY <1>2, <1>3 DEF HandlerGoes, HandlerSteps

LEMMA NoEvictionBefore ==
    ASSUME StockSessionInv, SessionMoves
    PROVE  /\ faults'.crash = 0 => faults.crash = 0 /\ ~(faults'.crash > 0)
           /\ faults'.abort = 0 => faults.abort = 0 /\ ~(faults'.abort > 0)
  <1>1. faults.crash \in Nat /\ faults.abort \in Nat /\ FaultMoves
    BY TelegramSessionAssumption
    DEF StockSessionInv, StockAgreement, SessionTypes, SessionMoves,
        TelegramSessionAssumption
  <1> QED
    BY <1>1 DEF FaultMoves

LEMMA AccountsStay ==
    ASSUME StockSessionInv, SessionMoves, NEW u \in Updates
    PROVE  Accounted(u)'
  <1> SUFFICES ASSUME faults'.crash = 0
               PROVE  /\ Exists(ReleaseEffect(u))' =>
                            \/ u \in processed' \/ HasRows(u)'
                            \/ At(u, {"apologise"})'
                      /\ HasRows(u)' =>
                            \/ Using(u, HandlerSteps \ {"idle"})'
                            \/ Exists(ReleaseEffect(u))'
                            \/ \E o \in OrderIds : links'[o] = u
    BY DEF Accounted
  <1>0. /\ StockAgreement /\ Accounted(u) /\ faults.crash = 0
        /\ ~(faults'.crash > 0) /\ u # NoUpdate
    BY NoEvictionBefore, TelegramSessionAssumption
    DEF StockSessionInv, StockAgreement, TelegramSessionAssumption
  <1> DEFINE e == ReleaseEffect(u)
  <1>1. ASSUME Exists(e)'
        PROVE  u \in processed' \/ HasRows(u)' \/ At(u, {"apologise"})'
    <2>1. CASE u \in processed \/ HasRows(u)
      BY <1>0, <2>1, AnsweredStay, RowsStay
    <2>2. CASE At(u, {"apologise"})
      <3>1. PICK c \in Customers : /\ handler[c].update = u
                                   /\ handler[c].step = "apologise"
        BY <2>2 DEF At
      <3>2. CASE handler'[c] = IdleHandler
        BY <1>0, <3>1, <3>2, Returns
      <3>3. CASE handler'[c] # IdleHandler
        BY <3>1, <3>3, GoesOn DEF At
      <3> QED
        BY <3>2, <3>3
    <2>3. CASE ~Exists(e)
      <3>1. EffectMoves(e)
        BY EffectNames DEF SessionMoves
      <3>2. Caused(e)
        BY <1>1, <2>3, <3>1 DEF EffectMoves, Exists
      <3>3. PICK c \in Customers :
                /\ e = ReleaseEffect(handler[c].update) /\ handler[c].reserved
                /\ \/ /\ handler[c].step = "refuse"
                      /\ handler'[c] = [handler[c] EXCEPT !.step = "apologise"]
                   \/ handler[c].step = "transact"
        BY <3>2 DEF Caused, ReleaseOrderEffect, ReleaseEffect, CommitEffect
      <3>4. handler[c].update = u /\ handler[c] \in Handler /\ HandlerAgrees(c)
        BY <1>0, <3>3
        DEF ReleaseEffect, StockAgreement, StockSessionInv, SessionInv, Delivered
      <3>5. CASE handler[c].step = "refuse"
        BY <3>3, <3>4, <3>5 DEF At, Handler
      <3>6. CASE handler[c].step = "transact"
        BY <1>0, <3>3, <3>4, <3>6, RowsStay DEF HandlerAgrees
      <3> QED
        BY <3>3, <3>5, <3>6
    <2> QED
      BY <1>0, <2>1, <2>2, <2>3 DEF Accounted
  <1>2. ASSUME HasRows(u)'
        PROVE  \/ Using(u, HandlerSteps \ {"idle"})'
               \/ Exists(e)'
               \/ \E o \in OrderIds : links'[o] = u
    <2>1. CASE Exists(e)
      BY <2>1, ExistingStay, EffectNames
    <2>2. CASE \E o \in OrderIds : links[o] = u
      BY <1>0, <2>2, LinksStay
    <2>3. ASSUME NEW c \in Customers, handler[c].update = u,
                 handler[c].step # "idle", handler[c].reserved
          PROVE  \/ Using(u, HandlerSteps \ {"idle"})'
                 \/ Exists(e)'
                 \/ \E o \in OrderIds : links'[o] = u
      <3>1. CASE handler'[c] # IdleHandler
        BY <2>3, <3>1, GoesOn DEF Using
      <3>2. CASE handler'[c] = IdleHandler
        <4>1. handler[c].step = "apologise" => Exists(e)
          BY <1>0, <2>3 DEF StockAgreement, HandlerAgrees
        <4> QED
          BY <1>0, <2>1, <2>3, <3>2, <4>1, Returns
      <3> QED
        BY <3>1, <3>2
    <2>4. CASE HasRows(u)
      BY <1>0, <2>1, <2>2, <2>3, <2>4 DEF Accounted, Using
    <2>5. CASE ~HasRows(u)
      <3>1. PICK p \in Products : reservations'[u][p].status # "NONE"
        BY <1>2 DEF HasRows
      <3>2. reservations[u][p].status = "NONE"
        BY <2>5 DEF HasRows
      <3>3. PICK c \in Customers : /\ handler[c].step = "batch"
                                   /\ handler[c].update = u
        BY <1>0, <3>1, <3>2, NewRowsAtBatch
      <3>4. handler[c].reserved
        BY <1>0, <3>3 DEF StockAgreement, HandlerAgrees
      <3> QED
        BY <2>3, <3>3, <3>4
    <2> QED
      BY <2>4, <2>5
  <1> QED
    BY <1>1, <1>2

LEMMA UndisturbedBefore ==
    ASSUME StockSessionInv, SessionMoves, Undisturbed'
    PROVE  /\ Undisturbed
           /\ ~(faults'.crash > 0) /\ ~(faults'.abort > 0)
  <1>1. /\ faults.crash = 0 /\ faults.abort = 0
        /\ ~(faults'.crash > 0) /\ ~(faults'.abort > 0)
    BY NoEvictionBefore DEF Undisturbed
  <1>2. ASSUME NEW u \in Updates, inbox[u] # NoUpdate
        PROVE  inbox'[u] = inbox[u]
    BY <1>2 DEF SessionMoves, InboxMoves
  <1> QED
    BY <1>1, <1>2 DEF Undisturbed

LEMMA FreshStays ==
    ASSUME StockSessionInv, SessionMoves, Undisturbed', NEW u \in Updates
    PROVE  Fresh(u)'
  <1> DEFINE e == ReleaseEffect(u)
             S == {"undo", "refuse", "apologise", "transact"}
  <1> SUFFICES ASSUME u \notin processed'
               PROVE  /\ HasRows(u)' => Using(u, S)'
                      /\ Exists(e)' => At(u, {"apologise"})'
    BY DEF Fresh
  <1>0. /\ StockAgreement /\ Fresh(u) /\ u \notin processed
        /\ ~(faults'.crash > 0) /\ ~(faults'.abort > 0)
    BY UndisturbedBefore, AnsweredStay DEF StockSessionInv, StockAgreement
  <1>1. ASSUME HasRows(u)'
        PROVE  Using(u, S)'
    <2>1. ASSUME NEW c \in Customers, handler[c].update = u,
                 handler[c].reserved, handler[c].step \in S \cup {"batch"},
                 handler'[c].step # "batch"
          PROVE  Using(u, S)'
      <3>1. handler'[c] # IdleHandler
        BY <1>0, <2>1, Returns
      <3>2. handler'[c].step \in S
        BY <2>1, <3>1, GoesOn DEF HandlerSteps
      <3> QED
        BY <2>1, <3>1, <3>2, GoesOn DEF Using
    <2>2. CASE HasRows(u)
      <3>1. PICK c \in Customers : /\ handler[c].update = u
                                   /\ handler[c].step \in S
                                   /\ handler[c].reserved
        BY <1>0, <2>2 DEF Fresh, Using
      <3>2. handler'[c].step # "batch"
        BY <3>1, GoesOn DEF IdleHandler
      <3> QED
        BY <2>1, <3>1, <3>2
    <2>3. CASE ~HasRows(u)
      <3>1. PICK p \in Products : reservations'[u][p].status # "NONE"
        BY <1>1 DEF HasRows
      <3>2. reservations[u][p].status = "NONE"
        BY <2>3 DEF HasRows
      <3>3. PICK c \in Customers : /\ handler[c].step = "batch"
                                   /\ handler[c].update = u
                                   /\ handler'[c].step # "batch"
        BY <1>0, <3>1, <3>2, NewRowsAtBatch
      <3>4. handler[c].reserved
        BY <1>0, <3>3 DEF StockAgreement, HandlerAgrees
      <3> QED
        BY <2>1, <3>3, <3>4
    <2> QED
      BY <2>2, <2>3
  <1>2. ASSUME Exists(e)'
        PROVE  At(u, {"apologise"})'
    <2>1. CASE Exists(e)
      <3>1. PICK c \in Customers : /\ handler[c].update = u
                                   /\ handler[c].step = "apologise"
        BY <1>0, <2>1 DEF Fresh, At
      <3>2. handler'[c] # IdleHandler
        BY <1>0, <3>1, Returns
      <3> QED
        BY <3>1, <3>2, GoesOn DEF At
    <2>2. CASE ~Exists(e)
      <3>1. EffectMoves(e)
        BY EffectNames DEF SessionMoves
      <3>2. Caused(e)
        BY <1>2, <2>2, <3>1 DEF EffectMoves, Exists
      <3>3. PICK c \in Customers :
                /\ e = ReleaseEffect(handler[c].update)
                /\ \/ handler'[c] = [handler[c] EXCEPT !.step = "apologise"]
                   \/ handler[c].update \in processed' \/ faults'.abort > 0
        BY <3>2 DEF Caused, ReleaseOrderEffect, ReleaseEffect, CommitEffect
      <3>4. handler[c].update = u /\ handler[c] \in Handler
        BY <3>3
        DEF ReleaseEffect, StockSessionInv, SessionInv, Delivered
      <3> QED
        BY <1>0, <3>3, <3>4 DEF At, Handler
    <2> QED
      BY <2>1, <2>2
  <1> QED
    BY <1>1, <1>2

(* Nobody touches the rows a handler is about to use.                      *)
LEMMA NobodyUses ==
    ASSUME StockSessionInv, Undisturbed, NEW c \in Customers,
           handler[c].step = "transact", NEW u, u = handler[c].update
    PROVE  /\ u \in Updates /\ u \notin processed /\ Settled(u)
           /\ ~Exists(ReleaseEffect(u)) /\ ~At(u, {"undo"})
  <1>0. StockAgreement
    BY DEF StockSessionInv
  <1>1. HandlerAgrees(c) /\ u \in Updates /\ u \notin processed
    BY <1>0 DEF StockAgreement, HandlerAgrees
  <1>2. ASSUME NEW d \in Customers, handler[d].update = u,
               handler[d].step # "idle"
        PROVE  handler[d].step = "transact"
    BY <1>0, <1>2, OneHandlerPerUpdate
  <1>3. Settled(u) /\ ~At(u, {"undo"}) /\ ~At(u, {"apologise"})
    BY <1>2 DEF Settled, At
  <1> QED
    BY <1>0, <1>1, <1>3 DEF StockAgreement, Fresh

LEMMA NobodyReleases ==
    ASSUME StockSessionInv, Undisturbed, NEW c \in Customers,
           handler[c].step = "transact", NEW u, u = handler[c].update,
           NEW p \in Products
    PROVE  /\ u \in Updates /\ Settled(u)
           /\ ~Releasing(u, reservations[u][p])
  <1>0. StockAgreement
    BY DEF StockSessionInv
  <1>1. /\ u \in Updates /\ u \notin processed /\ Settled(u)
        /\ ~Exists(ReleaseEffect(u)) /\ ~At(u, {"undo"})
    BY NobodyUses
  <1>2. ASSUME NEW o \in OrderIds, links[o] = u
        PROVE  FALSE
    BY <1>0, <1>1, <1>2, TelegramSessionAssumption
    DEF StockAgreement, LinkAgrees, TelegramSessionAssumption
  <1>3. ASSUME NEW o \in OrderIds, reservations[u][p].orderId = o
        PROVE  FALSE
    <2>1. RowAgrees(u, p) /\ o # NoOrder
      BY <1>0, <1>1, OrderServiceAssumption
      DEF StockAgreement, OrderServiceAssumption
    <2> QED
      BY <1>2, <1>3, <2>1 DEF RowAgrees
  <1> QED
    BY <1>1, <1>2, <1>3 DEF Releasing

LEMMA CartStaysHeld ==
    ASSUME StockSessionInv, SessionMoves, Undisturbed', NEW c \in Customers
    PROVE  CartHeld(c)'
  <1> SUFFICES ASSUME handler'[c].step = "transact", handler'[c].reserved,
                      NEW p \in Products
               PROVE  HeldQuantity(reservations'[handler'[c].update][p])
                        = handler'[c].cart[p]
    BY DEF CartHeld
  <1>0. /\ StockAgreement /\ Undisturbed /\ HandlerMoves(c)
        /\ handler \in [Customers -> Handler] /\ handler[c] \in Handler
        /\ HandlerAgrees(c) /\ CartHeld(c)
    BY UndisturbedBefore
    DEF StockSessionInv, StockAgreement, SessionInv, Delivered, SessionMoves
  <1>1. CASE handler'[c] = handler[c]
    <2>1. PICK u : u = handler[c].update
      OBVIOUS
    <2>2. u \in Updates /\ Settled(u) /\ ~Releasing(u, reservations[u][p])
      BY <1>0, <1>1, <2>1, NobodyReleases
    <2>3. HeldQuantity(reservations[u][p]) = handler[c].cart[p]
      BY <1>0, <1>1, <2>1 DEF CartHeld
    <2> QED
      BY <1>0, <1>1, <2>1, <2>2, <2>3, HeldStaysHeld
  <1>2. ASSUME NEW u \in Updates, NEW m \in Messages, Receive(c, u, m)
        PROVE  FALSE
    BY <1>0, <1>2 DEF Receive
  <1>3. CASE HandlerGoes(c)
    <2>1. PICK u \in Updates :
              /\ u = handler[c].update
              /\ \/ handler[c].step = "exists" /\ HasRows(u)
                 \/ /\ handler[c].step = "batch"
                    /\ ReserveBatch(u, handler[c].cart)
                    /\ InStock(handler[c].cart) = Wanted(handler[c].cart)
              /\ handler'[c] = [handler[c] EXCEPT !.step = "transact"]
      BY <1>0, <1>3 DEF HandlerGoes, Handler, IdleHandler
    <2>2. u \notin processed
      BY <1>0, <2>1 DEF HandlerAgrees
    <2>3. handler[c].step = "batch"
      <3>1. SUFFICES ASSUME handler[c].step = "exists", HasRows(u)
                     PROVE  FALSE
        BY <2>1
      <3>2. Fresh(u)
        BY <1>0 DEF StockAgreement
      <3>3. PICK d \in Customers :
                /\ handler[d].update = u
                /\ handler[d].step \in {"undo", "refuse", "apologise", "transact"}
        BY <2>2, <3>1, <3>2 DEF Fresh, Using
      <3>4. d = c
        BY <1>0, <2>1, <3>1, <3>3, OneHandlerPerUpdate
      <3> QED
        BY <3>1, <3>3, <3>4
    <2>4. PICK cart \in Carts : cart = handler[c].cart
      BY <1>0 DEF Handler
    <2>5. ReserveBatch(u, cart) /\ InStock(cart) = Wanted(cart)
      BY <2>1, <2>3, <2>4
    <2>6. D1Types /\ ~HasRows(u)
      BY <1>0, <2>1, <2>3 DEF StockAgreement, SessionTypes, HandlerAgrees
    <2>7. HeldQuantity(reservations'[u][p]) = cart[p]
      <3>1. CASE p \in Wanted(cart)
        <4>1. p \in InStock(cart)
          BY <2>5, <3>1
        <4>2. reservations'[u][p] = [status |-> "RESERVED",
                                     quantity |-> cart[p], orderId |-> NoOrder]
          BY <2>5, <2>6, <4>1, ReserveRow
        <4> QED
          BY <4>2 DEF HeldQuantity, Held
      <3>2. CASE p \notin Wanted(cart)
        <4>1. reservations'[u][p] = reservations[u][p]
          BY <2>5, <2>6, <3>2, ReserveRow
        <4>2. reservations[u][p].status = "NONE"
          BY <2>6 DEF HasRows
        <4>3. cart[p] = 0
          BY <3>2, OrderServiceAssumption
          DEF Wanted, Carts, OrderServiceAssumption
        <4> QED
          BY <4>1, <4>2, <4>3 DEF HeldQuantity, Held
      <3> QED
        BY <3>1, <3>2
    <2> QED
      BY <1>0, <2>1, <2>4, <2>7 DEF Handler
  <1> QED
    BY <1>0, <1>1, <1>2, <1>3 DEF HandlerMoves

(* Nor the rows of a live order. *)
LEMMA LiveIsNotReleased ==
    ASSUME StockSessionInv, Undisturbed, NEW o \in OrderIds,
           orders[o].status \in Live, NEW u, u = links[o], NEW p \in Products
    PROVE  /\ u \in Updates /\ u \in processed /\ Settled(u)
           /\ ~Exists(ReleaseEffect(u))
           /\ ~Releasing(u, reservations[u][p])
  <1>0. StockAgreement
    BY DEF StockSessionInv
  <1>1. /\ Backed(o) /\ LinkAgrees(o) /\ ReleaseAgrees(o)
        /\ u \in Updates /\ u \in processed
    BY <1>0 DEF StockAgreement, SessionTypes, Backed, LinkAgrees
  <1>2. Settled(u) /\ ~Exists(ReleaseEffect(u))
    BY <1>0, <1>1, AnsweredIsSettled DEF Backed
  <1>3. ~At(u, {"undo"})
    <2> SUFFICES ASSUME NEW c \in Customers, handler[c].update = u,
                        handler[c].step = "undo"
                 PROVE  FALSE
      BY DEF At
    <2>1. HandlerAgrees(c)
      BY <1>0 DEF StockAgreement
    <2> QED
      BY <1>1, <2>1 DEF HandlerAgrees
  <1>4. ASSUME NEW a \in OrderIds, Exists(ReleaseOrderEffect(a)),
               links[a] = u
        PROVE  FALSE
    <2>1. a = o
      BY <1>1, <1>4, TelegramSessionAssumption
      DEF LinkAgrees, TelegramSessionAssumption
    <2> QED
      BY <1>1, <1>4, <2>1 DEF ReleaseAgrees, Live, Closed
  <1>5. ASSUME NEW a \in OrderIds, links[a] = NoUpdate,
               reservations[u][p].orderId = a
        PROVE  FALSE
    <2>1. RowAgrees(u, p) /\ a # NoOrder /\ u # NoUpdate
      BY <1>0, <1>1, OrderServiceAssumption, TelegramSessionAssumption
      DEF StockAgreement, OrderServiceAssumption, TelegramSessionAssumption
    <2> QED
      BY <1>5, <2>1 DEF RowAgrees
  <1> QED
    BY <1>1, <1>2, <1>3, <1>4, <1>5 DEF Releasing

LEMMA OrdersStayBacked ==
    ASSUME StockSessionInv, SessionMoves, Undisturbed', NEW o \in OrderIds
    PROVE  Backed(o)'
  <1> SUFFICES ASSUME orders'[o].status \in Live
               PROVE  /\ links'[o] # NoUpdate
                      /\ effects'[ReleaseEffect(links'[o])].status = "NONE"
                      /\ \A p \in Products :
                            HeldQuantity(reservations'[links'[o]][p])
                              = orders'[o].items[p]
    BY DEF Backed, Exists, ReleaseEffect
  <1>0. /\ StockAgreement /\ Undisturbed /\ OrderMoves(o) /\ LinkMoves(o)
        /\ Backed(o) /\ LinkAgrees(o)
        /\ ~(faults'.crash > 0) /\ ~(faults'.abort > 0)
    BY UndisturbedBefore
    DEF StockSessionInv, StockAgreement, SessionMoves
  <1>1. CASE orders[o].status \in Live /\ orders'[o].items = orders[o].items
    <2>1. PICK u : u = links[o]
      OBVIOUS
    <2>2. /\ u # NoUpdate /\ u \in Updates /\ u \in processed
          /\ ~Exists(ReleaseEffect(u))
      BY <1>0, <1>1, <2>1
      DEF Backed, LinkAgrees, StockAgreement, SessionTypes
    <2>3. links'[o] = u
      BY <1>0, <1>1, <2>1, LinksStay DEF Live
    <2>4. effects'[ReleaseEffect(u)].status = "NONE"
      <3>1. EffectMoves(ReleaseEffect(u))
        BY <2>2, EffectNames DEF SessionMoves
      <3>2. ~Caused(ReleaseEffect(u))
        <4> SUFFICES ASSUME Caused(ReleaseEffect(u)) PROVE FALSE
          OBVIOUS
        <4>1. PICK c \in Customers :
                  /\ ReleaseEffect(u) = ReleaseEffect(handler[c].update)
                  /\ handler[c].step \in {"refuse", "transact"}
          BY DEF Caused, ReleaseOrderEffect, ReleaseEffect, CommitEffect
        <4>2. handler[c].update = u /\ HandlerAgrees(c)
          BY <1>0, <4>1 DEF ReleaseEffect, StockAgreement
        <4> QED
          BY <2>2, <4>1, <4>2 DEF HandlerAgrees
      <3> QED
        BY <2>2, <3>1, <3>2 DEF EffectMoves, Exists
    <2>5. ASSUME NEW p \in Products
          PROVE  HeldQuantity(reservations'[u][p]) = orders'[o].items[p]
      <3>1. Settled(u) /\ ~Releasing(u, reservations[u][p])
        BY <1>0, <1>1, <2>1, LiveIsNotReleased
      <3>2. HeldQuantity(reservations'[u][p])
              = HeldQuantity(reservations[u][p])
        BY <1>0, <2>2, <3>1, HeldStaysHeld
      <3> QED
        BY <1>0, <1>1, <2>1, <3>2 DEF Backed
    <2> QED
      BY <2>2, <2>3, <2>4, <2>5
  <1>2. ASSUME NEW c \in Customers, Places(c, o)
        PROVE  /\ links'[o] # NoUpdate
               /\ effects'[ReleaseEffect(links'[o])].status = "NONE"
               /\ \A p \in Products :
                     HeldQuantity(reservations'[links'[o]][p])
                       = orders'[o].items[p]
    <2>1. PICK u : u = handler[c].update
      OBVIOUS
    <2>2. /\ handler[c].step = "transact"
          /\ inbox[u].message.action = "confirm_order"
          /\ conv[c].state = "CONFIRMING"
          /\ orders'[o].items = conv[c].cart
          /\ handler[c].reserved => links'[o] = u
          /\ effects'[ReleaseEffect(u)] = effects[ReleaseEffect(u)]
      BY <1>2, <2>1 DEF Places
    <2>3. /\ HandlerAgrees(c) /\ CartHeld(c) /\ u \in Updates
          /\ inbox[u] # NoUpdate /\ u # NoUpdate
      BY <1>0, <2>1, <2>2, TelegramSessionAssumption
      DEF StockAgreement, HandlerAgrees, TelegramSessionAssumption
    <2>4. ButtonConfirm(inbox[u].message)
      BY <1>0, <2>2, <2>3 DEF Undisturbed, ButtonConfirm
    <2>5. handler[c].reserved /\ handler[c].cart = conv[c].cart
      BY <2>1, <2>2, <2>3, <2>4 DEF HandlerAgrees
    <2>6. ~Exists(ReleaseEffect(u))
      BY <1>0, <2>1, <2>2, <2>3, NobodyUses
    <2>7. ASSUME NEW p \in Products
          PROVE  HeldQuantity(reservations'[u][p]) = orders'[o].items[p]
      <3>1. Settled(u) /\ ~Releasing(u, reservations[u][p])
        BY <1>0, <2>1, <2>2, NobodyReleases
      <3>2. HeldQuantity(reservations'[u][p])
              = HeldQuantity(reservations[u][p])
        BY <1>0, <2>3, <3>1, HeldStaysHeld
      <3>3. HeldQuantity(reservations[u][p]) = handler[c].cart[p]
        BY <2>1, <2>2, <2>3, <2>5 DEF CartHeld
      <3> QED
        BY <2>2, <2>5, <3>2, <3>3
    <2> QED
      BY <2>2, <2>3, <2>5, <2>6, <2>7 DEF Exists
  <1>3. CASE orders'[o] = orders[o]
    BY <1>1, <1>3
  <1>4. CASE /\ orders[o].status = "AWAITING_PAYMENT"
             /\ orders'[o].items = orders[o].items
    BY <1>1, <1>4 DEF Live
  <1> QED
    BY <1>0, <1>2, <1>3, <1>4 DEF OrderMoves

-----------------------------------------------------------------------------
(* What the D1 statement of a step does.                                   *)

D1Call ==
    \/ UNCHANGED d1Vars
    \/ \E c \in Customers : /\ handler[c].step = "batch"
                            /\ handler'[c].step # "batch"
                            /\ ReserveBatch(handler[c].update, handler[c].cart)
    \/ \E c \in Customers : /\ handler[c].step = "undo"
                            /\ ReleaseReservation(handler[c].update)
    \/ \E e \in EffectIds : Exists(e) /\ Perform(e)

D1Moves ==
    /\ D1Types' /\ StockConserved'
    /\ \A u \in Updates, p \in Products : RowMoves(u, p)

LEMMA ReleaseRowsMove ==
    ASSUME StockSessionInv, NEW selected, ReleaseRows(selected),
           \A u \in Updates, p \in Products :
               <<u, p>> \in selected => Releasing(u, reservations[u][p])
    PROVE  D1Moves
  <1>1. D1Types /\ StockConserved
    BY DEF StockSessionInv, StockAgreement, SessionTypes
  <1>2. D1Types' /\ StockConserved'
    BY <1>1, ReleaseRow, ReleaseKeepsStock
  <1>3. ASSUME NEW u \in Updates, NEW p \in Products
        PROVE  RowMoves(u, p)
    <2>1. reservations'[u][p] =
              IF <<u, p>> \in selected /\ Held(reservations[u][p])
              THEN [reservations[u][p] EXCEPT !.status = "RELEASED"]
              ELSE reservations[u][p]
      BY <1>1, ReleaseRow
    <2> QED
      BY <2>1 DEF RowMoves
  <1> QED
    BY <1>2, <1>3 DEF D1Moves

LEMMA ReserveMoves ==
    ASSUME StockSessionInv, NEW c \in Customers, handler[c].step = "batch",
           handler'[c].step # "batch",
           ReserveBatch(handler[c].update, handler[c].cart)
    PROVE  D1Moves
  <1>1. /\ D1Types /\ StockConserved /\ HandlerAgrees(c)
        /\ handler[c] \in Handler
    BY DEF StockSessionInv, StockAgreement, SessionTypes, SessionInv, Delivered
  <1>2. PICK u \in Updates : u = handler[c].update /\ ~HasRows(u)
    BY <1>1 DEF HandlerAgrees
  <1>3. PICK cart \in Carts : cart = handler[c].cart
    BY <1>1 DEF Handler
  <1>4. ReserveBatch(u, cart)
    BY <1>2, <1>3
  <1>5. D1Types' /\ StockConserved'
    BY <1>1, <1>2, <1>4, ReserveRow, ReserveKeepsStock
  <1>6. ASSUME NEW v \in Updates, NEW p \in Products
        PROVE  RowMoves(v, p)
    <2>1. CASE v # u \/ p \notin InStock(cart)
      <3>1. reservations'[v][p] = reservations[v][p]
        BY <1>1, <1>4, <2>1, ReserveRow
      <3> QED
        BY <3>1 DEF RowMoves
    <2>2. CASE v = u /\ p \in InStock(cart)
      <3>1. reservations'[u][p] = [status |-> "RESERVED",
                                   quantity |-> cart[p], orderId |-> NoOrder]
        BY <1>1, <1>4, <2>2, ReserveRow
      <3>2. reservations[u][p].status = "NONE"
        BY <1>2 DEF HasRows
      <3> QED
        BY <1>2, <1>3, <2>2, <3>1, <3>2 DEF RowMoves
    <2> QED
      BY <2>1, <2>2
  <1> QED
    BY <1>5, <1>6 DEF D1Moves

LEMMA PerformMoves ==
    ASSUME StockSessionInv, NEW e \in EffectIds, Exists(e), Perform(e)
    PROVE  D1Moves
  <1>0. /\ D1Types /\ StockConserved
        /\ effects \in [EffectIds -> Effect]
        /\ links \in [OrderIds -> Updates \cup {NoUpdate}]
    BY DEF StockSessionInv, StockAgreement, SessionTypes
  <1>1. ASSUME NEW u \in Updates, e = CommitEffect(u)
        PROVE  D1Moves
    <2>1. PICK o \in OrderIds \cup {NoOrder} : o = effects[e].orderId
      BY <1>0 DEF Effect
    <2>2. CommitRows(u, o)
      BY <1>1, <2>1 DEF Perform, CommitEffect
    <2>3. D1Types' /\ StockConserved'
      BY <1>0, <2>2, CommitRow, CommitKeepsStock
    <2>4. ASSUME NEW v \in Updates, NEW p \in Products
          PROVE  RowMoves(v, p)
      <3>1. CASE v # u \/ reservations[v][p].status # "RESERVED"
        <4>1. reservations'[v][p] = reservations[v][p]
          BY <1>0, <2>2, <3>1, CommitRow
        <4> QED
          BY <4>1 DEF RowMoves
      <3>2. CASE v = u /\ reservations[v][p].status = "RESERVED"
        <4>1. reservations'[v][p] = CommittedFor(reservations[v][p], o)
          BY <1>0, <2>2, <3>2, CommitRow
        <4> QED
          BY <1>1, <2>1, <3>2, <4>1 DEF RowMoves
      <3> QED
        BY <3>1, <3>2
    <2> QED
      BY <2>3, <2>4 DEF D1Moves
  <1>2. ASSUME NEW u \in Updates, e = ReleaseEffect(u)
        PROVE  D1Moves
    <2>1. ReleaseRows({u} \X Products)
      BY <1>2 DEF Perform, ReleaseEffect, ReleaseReservation
    <2>2. ASSUME NEW v \in Updates, NEW p \in Products,
                 <<v, p>> \in {u} \X Products
          PROVE  Releasing(v, reservations[v][p])
      BY <1>2, <2>2 DEF Releasing
    <2> QED
      BY <2>1, <2>2, ReleaseRowsMove
  <1>3. ASSUME NEW o \in OrderIds, e = ReleaseOrderEffect(o)
        PROVE  D1Moves
    <2>1. ReleaseOrder(o)
      BY <1>3 DEF Perform, ReleaseOrderEffect
    <2>2. CASE links[o] # NoUpdate
      <3>1. ReleaseRows({links[o]} \X Products)
        BY <2>1, <2>2 DEF ReleaseOrder, ReleaseReservation
      <3>2. ASSUME NEW v \in Updates, NEW p \in Products,
                   <<v, p>> \in {links[o]} \X Products
            PROVE  Releasing(v, reservations[v][p])
        BY <1>3, <3>2 DEF Releasing
      <3> QED
        BY <3>1, <3>2, ReleaseRowsMove
    <2>3. CASE links[o] = NoUpdate
      <3> DEFINE sel == {r \in Updates \X Products :
                            reservations[r[1]][r[2]].orderId = o}
      <3>1. ReleaseRows(sel)
        BY <2>1, <2>3 DEF ReleaseOrder
      <3>2. ASSUME NEW v \in Updates, NEW p \in Products, <<v, p>> \in sel
            PROVE  Releasing(v, reservations[v][p])
        BY <1>3, <2>3, <3>2 DEF Releasing
      <3> HIDE DEF sel
      <3> QED
        BY <3>1, <3>2, ReleaseRowsMove
    <2> QED
      BY <2>2, <2>3
  <1> QED
    BY <1>1, <1>2, <1>3, EffectKinds

LEMMA D1CallMoves ==
    ASSUME StockSessionInv, D1Call
    PROVE  D1Moves
  <1>1. CASE UNCHANGED d1Vars
    BY <1>1
    DEF d1Vars, D1Moves, RowMoves, StockSessionInv, StockAgreement,
        SessionTypes, D1Types, StockConserved
  <1>2. ASSUME NEW c \in Customers, handler[c].step = "undo",
               ReleaseReservation(handler[c].update)
        PROVE  D1Moves
    <2>1. PICK u : u = handler[c].update
      OBVIOUS
    <2>2. ReleaseRows({u} \X Products)
      BY <1>2, <2>1 DEF ReleaseReservation
    <2>3. ASSUME NEW v \in Updates, NEW p \in Products,
                 <<v, p>> \in {u} \X Products
          PROVE  Releasing(v, reservations[v][p])
      BY <1>2, <2>1, <2>3 DEF Releasing, At
    <2> QED
      BY <2>2, <2>3, ReleaseRowsMove
  <1> QED
    BY <1>1, <1>2, ReserveMoves, PerformMoves DEF D1Call

-----------------------------------------------------------------------------
(* Every step is a move.                                                   *)

LogTypes ==
    /\ processed \subseteq Updates
    /\ effects \in [EffectIds -> Effect]
    /\ links \in [OrderIds -> Updates \cup {NoUpdate}]
    /\ drain \in [Customers -> [Workers -> Drain]]
    /\ faults \in [crash: 0 .. MaxCrashes, abort: 0 .. MaxAborts,
                   d1: 0 .. MaxD1Failures]

DrainMoves(c, w) == drain'[c][w] = drain[c][w] \/ DrainAgrees(c, w)'

SessionStep ==
    /\ LogTypes' /\ D1Call
    /\ \A u \in Updates : InboxMoves(u) /\ ProcessedMoves(u)
    /\ \A c \in Customers : ConvMoves(c) /\ HandlerMoves(c)
    /\ \A o \in OrderIds : OrderMoves(o) /\ LinkMoves(o)
    /\ \A e \in EffectIds : EffectMoves(e)
    /\ \A c \in Customers, w \in Workers : DrainMoves(c, w)
    /\ FaultMoves

LEMMA InvGives ==
    ASSUME StockSessionInv
    PROVE  /\ ServiceInv /\ Delivered /\ LogTypes /\ D1Types
           /\ handler \in [Customers -> Handler]
           /\ \A c \in Customers : HandlerAgrees(c)
           /\ \A c \in Customers, w \in Workers : DrainAgrees(c, w)
  BY DEF StockSessionInv, SessionInv, Delivered, StockAgreement, SessionTypes,
         LogTypes

(* What is not touched does not move. *)
LEMMA Untouching ==
    /\ UNCHANGED serviceVars => /\ \A c \in Customers : ConvMoves(c)
                                /\ \A o \in OrderIds : OrderMoves(o)
    /\ UNCHANGED inbox => \A u \in Updates : InboxMoves(u)
    /\ UNCHANGED processed => \A u \in Updates : ProcessedMoves(u)
    /\ UNCHANGED handler => \A c \in Customers : HandlerMoves(c)
    /\ UNCHANGED links => \A o \in OrderIds : LinkMoves(o)
    /\ UNCHANGED effects => \A e \in EffectIds : EffectMoves(e)
    /\ UNCHANGED drain => \A c \in Customers, w \in Workers : DrainMoves(c, w)
    /\ UNCHANGED d1Vars => D1Call
    /\ UNCHANGED faults => FaultMoves
  BY DEF serviceVars, ConvMoves, OrderMoves, InboxMoves, ProcessedMoves,
         HandlerMoves, LinkMoves, EffectMoves, DrainMoves, D1Call, FaultMoves

LEMMA GotoWrites ==
    ASSUME handler \in [Customers -> Handler], NEW c \in Customers,
           NEW s \in HandlerSteps, Goto(c, s)
    PROVE  /\ handler'[c] = [handler[c] EXCEPT !.step = s]
           /\ handler'[c].step = s
           /\ \A d \in Customers \ {c} : handler'[d] = handler[d]
  BY DEF Goto, Handler

LEMMA ReturnWrites ==
    ASSUME handler \in [Customers -> Handler], NEW c \in Customers, Return(c)
    PROVE  /\ handler'[c] = IdleHandler
           /\ \A d \in Customers \ {c} : handler'[d] = handler[d]
  BY DEF Return

(* Each kind of fault is counted up to its bound. *)
LEMMA FaultWrites ==
    ASSUME LogTypes
    PROVE  /\ D1Fails => /\ faults' \in [crash: 0 .. MaxCrashes,
                                         abort: 0 .. MaxAborts,
                                         d1: 0 .. MaxD1Failures]
                         /\ FaultMoves
           /\ faults.abort < MaxAborts
                /\ faults' = [faults EXCEPT !.abort = @ + 1] =>
                         /\ faults' \in [crash: 0 .. MaxCrashes,
                                         abort: 0 .. MaxAborts,
                                         d1: 0 .. MaxD1Failures]
                         /\ FaultMoves /\ faults'.abort > 0
           /\ faults.crash < MaxCrashes
                /\ faults' = [faults EXCEPT !.crash = @ + 1] =>
                         /\ faults' \in [crash: 0 .. MaxCrashes,
                                         abort: 0 .. MaxAborts,
                                         d1: 0 .. MaxD1Failures]
                         /\ FaultMoves /\ faults'.crash > 0
  BY TelegramSessionAssumption
  DEF LogTypes, D1Fails, FaultMoves, TelegramSessionAssumption

LEMMA ReservingMoves ==
    ASSUME StockSessionInv, NEW c \in Customers,
           \/ FindReservation(c) \/ Reserve(c) \/ UndoReserve(c)
           \/ ReserveFails(c)
    PROVE  SessionStep
  <1>0. /\ LogTypes /\ handler \in [Customers -> Handler] /\ HandlerAgrees(c)
    BY InvGives
  <1>1. /\ UNCHANGED <<serviceVars, inbox, processed, effects, links, drain>>
        /\ handler[c].step \in {"exists", "batch", "undo"}
    BY DEF FindReservation, Reserve, UndoReserve, ReserveFails
  <1>2. PICK u \in Updates : u = handler[c].update
    BY <1>0, <1>1 DEF HandlerAgrees
  <1>3. PICK s \in HandlerSteps :
            /\ Goto(c, s)
            /\ \/ handler[c].step = "exists" /\ HasRows(u) /\ s = "transact"
               \/ handler[c].step = "exists" /\ ~HasRows(u) /\ s = "batch"
               \/ /\ handler[c].step = "batch" /\ s = "transact"
                  /\ ReserveBatch(u, handler[c].cart)
                  /\ InStock(handler[c].cart) = Wanted(handler[c].cart)
               \/ handler[c].step = "batch" /\ s = "undo"
               \/ handler[c].step \in {"exists", "batch", "undo"} /\ s = "refuse"
    BY <1>1, <1>2
    DEF FindReservation, Reserve, UndoReserve, ReserveFails, HandlerSteps
  <1>4. HandlerGoes(c)
    BY <1>0, <1>1, <1>2, <1>3, GotoWrites DEF HandlerGoes
  <1>5. \A d \in Customers : HandlerMoves(d)
    BY <1>0, <1>3, <1>4, GotoWrites DEF HandlerMoves
  <1>6. /\ faults' \in [crash: 0 .. MaxCrashes, abort: 0 .. MaxAborts,
                        d1: 0 .. MaxD1Failures]
        /\ FaultMoves
    <2>1. UNCHANGED faults \/ D1Fails
      BY DEF FindReservation, Reserve, UndoReserve, ReserveFails
    <2> QED
      BY <1>0, <2>1, FaultWrites, Untouching DEF LogTypes
  <1>7. D1Call
    <2>1. handler'[c].step = s
      BY <1>0, <1>3, GotoWrites
    <2>2. \/ UNCHANGED d1Vars
          \/ /\ handler[c].step = "batch" /\ s # "batch"
             /\ ReserveBatch(handler[c].update, handler[c].cart)
          \/ /\ handler[c].step = "undo"
             /\ ReleaseReservation(handler[c].update)
      BY <1>3 DEF FindReservation, Reserve, UndoReserve, ReserveFails
    <2> QED
      BY <2>1, <2>2 DEF D1Call
  <1> QED
    BY <1>0, <1>1, <1>5, <1>6, <1>7, Untouching DEF SessionStep, LogTypes

LEMMA ReceiveMoves ==
    ASSUME StockSessionInv, NEW c \in Customers, NEW u \in Updates,
           NEW m \in Messages, Receive(c, u, m)
    PROVE  SessionStep
  <1>0. /\ LogTypes /\ Delivered /\ handler \in [Customers -> Handler]
    BY InvGives
  <1>1. UNCHANGED <<serviceVars, processed, effects, links, drain, d1Vars,
                    faults>>
    BY DEF Receive
  <1>2. \A v \in Updates : InboxMoves(v)
    BY <1>0 DEF Receive, InboxMoves, Delivered
  <1>3. \A d \in Customers : HandlerMoves(d)
    <2> TAKE d \in Customers
    <2>1. CASE d = c
      BY <2>1 DEF HandlerMoves
    <2>2. CASE d # c
      BY <1>0, <2>2 DEF HandlerMoves, Receive
    <2> QED
      BY <2>1, <2>2
  <1> QED
    BY <1>0, <1>1, <1>2, <1>3, Untouching DEF SessionStep, LogTypes

LEMMA RefuseMoves ==
    ASSUME StockSessionInv, NEW c \in Customers, Refuse(c)
    PROVE  SessionStep
  <1>0. /\ LogTypes /\ handler \in [Customers -> Handler] /\ HandlerAgrees(c)
    BY InvGives
  <1>1. /\ UNCHANGED <<serviceVars, inbox, processed, links, drain, d1Vars,
                       faults>>
        /\ handler[c].step = "refuse" /\ Goto(c, "apologise")
    BY DEF Refuse
  <1>2. PICK u \in Updates : u = handler[c].update /\ handler[c].reserved
    BY <1>0, <1>1 DEF HandlerAgrees
  <1>3. Enqueue(c, {ReleaseEffect(u)}, NoOrder)
    BY <1>2 DEF Refuse
  <1>4. /\ effects' \in [EffectIds -> Effect]
        /\ \A e \in EffectIds :
              \/ effects'[e] = effects[e]
              \/ /\ e = ReleaseEffect(u) /\ effects[e].status = "NONE"
                 /\ effects'[e].status = "PENDING"
        /\ effects'[ReleaseEffect(u)].status # "NONE"
    BY <1>0, <1>3, EnqueueWrites, EffectNames DEF LogTypes
  <1>5. /\ handler'[c] = [handler[c] EXCEPT !.step = "apologise"]
        /\ \A d \in Customers \ {c} : handler'[d] = handler[d]
    BY <1>0, <1>1, GotoWrites DEF HandlerSteps
  <1>6. \A e \in EffectIds : EffectMoves(e)
    BY <1>1, <1>2, <1>4, <1>5 DEF EffectMoves, Caused, Exists
  <1>7. Exists(ReleaseEffect(u))'
    BY <1>4 DEF Exists, ReleaseEffect
  <1>8. HandlerGoes(c)
    BY <1>1, <1>2, <1>5, <1>7 DEF HandlerGoes
  <1>9. \A d \in Customers : HandlerMoves(d)
    BY <1>5, <1>8 DEF HandlerMoves
  <1> QED
    BY <1>0, <1>1, <1>4, <1>6, <1>9, Untouching DEF SessionStep, LogTypes

LEMMA ApologiseMoves ==
    ASSUME StockSessionInv, NEW c \in Customers, Apologise(c)
    PROVE  SessionStep
  <1>0. /\ LogTypes /\ handler \in [Customers -> Handler] /\ HandlerAgrees(c)
    BY InvGives
  <1>1. /\ UNCHANGED <<serviceVars, inbox, effects, links, drain, d1Vars,
                       faults>>
        /\ handler[c].step = "apologise" /\ Return(c)
    BY DEF Apologise
  <1>2. PICK u \in Updates : u = handler[c].update
    BY <1>0, <1>1 DEF HandlerAgrees
  <1>3. processed' = processed \cup {u}
    BY <1>2 DEF Apologise
  <1>4. /\ handler'[c] = IdleHandler
        /\ \A d \in Customers \ {c} : handler'[d] = handler[d]
    BY <1>0, <1>1, ReturnWrites
  <1>5. \A v \in Updates : ProcessedMoves(v)
    BY <1>1, <1>2, <1>3, <1>4 DEF ProcessedMoves
  <1>6. HandlerGoes(c)
    BY <1>1, <1>2, <1>3, <1>4 DEF HandlerGoes
  <1>7. \A d \in Customers : HandlerMoves(d)
    BY <1>4, <1>6 DEF HandlerMoves
  <1> QED
    BY <1>0, <1>1, <1>3, <1>5, <1>7, Untouching DEF SessionStep, LogTypes

(* A transaction that throws releases the reservation it would have used.  *)
LEMMA RollBackMoves ==
    ASSUME StockSessionInv, NEW c \in Customers, Reject(c) \/ Abort(c)
    PROVE  SessionStep
  <1>0. /\ LogTypes /\ handler \in [Customers -> Handler] /\ HandlerAgrees(c)
    BY InvGives
  <1>1. /\ UNCHANGED <<serviceVars, inbox, processed, links, drain, d1Vars>>
        /\ handler[c].step = "transact" /\ Return(c)
    BY DEF Reject, Abort, RollBack
  <1>2. PICK u \in Updates : u = handler[c].update
    BY <1>0, <1>1 DEF HandlerAgrees
  <1>3. handler[c].reserved => faults'.abort > 0
    <2>1. CASE Abort(c)
      BY <1>0, <2>1, FaultWrites DEF Abort
    <2>2. CASE Reject(c)
      BY <1>0, <1>1, <2>2
      DEF Reject, Throws, HandlerAgrees, ButtonConfirm
    <2> QED
      BY <2>1, <2>2
  <1>4. /\ faults' \in [crash: 0 .. MaxCrashes, abort: 0 .. MaxAborts,
                        d1: 0 .. MaxD1Failures]
        /\ FaultMoves
    <2>1. CASE Abort(c)
      BY <1>0, <2>1, FaultWrites DEF Abort
    <2>2. CASE Reject(c)
      BY <1>0, <2>2, Untouching DEF Reject, LogTypes
    <2> QED
      BY <2>1, <2>2
  <1>5. PICK ids : /\ ids = IF handler[c].reserved THEN {ReleaseEffect(u)}
                                                   ELSE {}
                   /\ Enqueue(c, ids, NoOrder)
    BY <1>2 DEF Reject, Abort, RollBack
  <1>6. /\ effects' \in [EffectIds -> Effect]
        /\ \A e \in EffectIds :
              \/ effects'[e] = effects[e]
              \/ /\ e \in ids /\ effects[e].status = "NONE"
                 /\ effects'[e].status = "PENDING"
        /\ \A e \in EffectIds \cap ids : effects'[e].status # "NONE"
    BY <1>0, <1>5, EnqueueWrites DEF LogTypes
  <1>7. /\ handler'[c] = IdleHandler
        /\ \A d \in Customers \ {c} : handler'[d] = handler[d]
    BY <1>0, <1>1, ReturnWrites
  <1>8. \A e \in EffectIds : EffectMoves(e)
    BY <1>1, <1>2, <1>3, <1>5, <1>6 DEF EffectMoves, Caused, Exists
  <1>9. handler[c].reserved => Exists(ReleaseEffect(u))'
    BY <1>5, <1>6, EffectNames DEF Exists, ReleaseEffect
  <1>10. HandlerGoes(c)
    BY <1>1, <1>2, <1>3, <1>7, <1>9 DEF HandlerGoes
  <1>11. \A d \in Customers : HandlerMoves(d)
    BY <1>7, <1>10 DEF HandlerMoves
  <1> QED
    BY <1>0, <1>1, <1>4, <1>6, <1>8, <1>11, Untouching
    DEF SessionStep, LogTypes

LEMMA CrashMoves ==
    ASSUME StockSessionInv, NEW c \in Customers, Crash(c)
    PROVE  SessionStep
  <1>0. /\ LogTypes /\ handler \in [Customers -> Handler] /\ HandlerAgrees(c)
    BY InvGives
  <1>1. /\ UNCHANGED <<serviceVars, inbox, processed, effects, links, d1Vars>>
        /\ Return(c)
        /\ drain' = [drain EXCEPT ![c] = [w \in Workers |-> IdleDrain]]
    BY DEF Crash
  <1>2. /\ faults' \in [crash: 0 .. MaxCrashes, abort: 0 .. MaxAborts,
                        d1: 0 .. MaxD1Failures]
        /\ FaultMoves /\ faults'.crash > 0
    BY <1>0, FaultWrites DEF Crash
  <1>3. /\ handler'[c] = IdleHandler
        /\ \A d \in Customers \ {c} : handler'[d] = handler[d]
    BY <1>0, <1>1, ReturnWrites
  <1>4. HandlerMoves(c)
    <2>1. CASE handler[c].step = "idle"
      BY <1>0, <1>3, <2>1 DEF HandlerAgrees, HandlerMoves
    <2>2. CASE handler[c].step # "idle"
      BY <1>0, <1>2, <1>3, <2>2 DEF HandlerAgrees, HandlerMoves, HandlerGoes
    <2> QED
      BY <2>1, <2>2
  <1>5. \A d \in Customers : HandlerMoves(d)
    BY <1>3, <1>4 DEF HandlerMoves
  <1>6. drain' \in [Customers -> [Workers -> Drain]]
    BY <1>0, <1>1 DEF LogTypes, IdleDrain, Drain
  <1>7. ASSUME NEW d \in Customers, NEW w \in Workers
        PROVE  DrainMoves(d, w)
    <2>1. CASE d = c
      BY <1>0, <1>1, <2>1 DEF LogTypes, DrainMoves, DrainAgrees, IdleDrain
    <2>2. CASE d # c
      BY <1>0, <1>1, <2>2 DEF LogTypes, DrainMoves
    <2> QED
      BY <2>1, <2>2
  <1> QED
    BY <1>0, <1>1, <1>2, <1>5, <1>6, <1>7, Untouching
    DEF SessionStep, LogTypes

(* A decision writes the order, and the conversation that still refers to  *)
(* it, which does not wait for confirmation before or after.               *)
LEMMA ResolveMoves ==
    ASSUME StockSessionInv, NEW o \in OrderIds,
           ConfirmPayment(o) \/ ExpireOrder(o)
    PROVE  /\ \A c \in Customers : ConvMoves(c)
           /\ orders[o].status = "AWAITING_PAYMENT"
           /\ orders[o].customerId \in Customers
           /\ orders'[o].items = orders[o].items
           /\ ConfirmPayment(o) => orders'[o].status = "PAID"
           /\ ExpireOrder(o) => orders'[o].status = "EXPIRED"
           /\ \A other \in OrderIds \ {o} : orders'[other] = orders[other]
  <1>0. /\ ServiceTypeOK /\ OrdersAreOwned
        /\ conv \in [Customers -> Conversation]
        /\ orders \in [OrderIds -> Order]
    BY InvGives DEF ServiceInv, ServiceTypeOK
  <1>1. PICK s \in {"PAID", "EXPIRED"},
             e \in {"PAYMENT_CONFIRMED", "PAYMENT_EXPIRED"} :
                 /\ Resolve(o, s, e)
                 /\ ConfirmPayment(o) => s = "PAID"
                 /\ ExpireOrder(o) => s = "EXPIRED"
    <2>1. /\ ConfirmPayment(o) => orders'[o].status = "PAID"
          /\ ExpireOrder(o) => orders'[o].status = "EXPIRED"
      BY <1>0 DEF ConfirmPayment, ExpireOrder, Resolve, Order
    <2> QED
      BY <2>1 DEF ConfirmPayment, ExpireOrder
  <1>2. /\ orders[o].status = "AWAITING_PAYMENT"
        /\ orders' = [orders EXCEPT ![o].status = s]
    BY <1>1 DEF Resolve
  <1>3. PICK d \in Customers : d = orders[o].customerId
    BY <1>0, <1>2 DEF OrdersAreOwned
  <1>4. ASSUME NEW c \in Customers PROVE ConvMoves(c)
    <2>1. CASE UNCHANGED conv
      BY <2>1 DEF ConvMoves
    <2>2. CASE ~UNCHANGED conv
      <3>1. Transition(d, e, conv[d]) /\ conv[d].state = "AWAITING_PAYMENT"
        BY <1>1, <1>3, <2>2 DEF Resolve
      <3>2. PICK n \in States : /\ <<conv[d].state, e, n>> \in TRANSITIONS
                                /\ conv'[d] = [conv[d] EXCEPT !.state = n]
        BY <1>0, <3>1, TransitionWrites
      <3>3. conv'[d].state # "CONFIRMING"
        BY <1>0, <3>2, EventTargets DEF Conversation
      <3>4. c # d => conv'[c] = conv[c]
        BY <1>0, <3>1, TransitionWrites
      <3> QED
        BY <3>1, <3>3, <3>4 DEF ConvMoves
    <2> QED
      BY <2>1, <2>2
  <1> QED
    BY <1>0, <1>1, <1>2, <1>3, <1>4 DEF Order

LEMMA StaffConfirmsMoves ==
    ASSUME StockSessionInv, NEW o \in OrderIds, StaffConfirms(o)
    PROVE  SessionStep
  <1>0. LogTypes
    BY InvGives
  <1>1. UNCHANGED <<sessionVars, d1Vars, faults>> /\ ConfirmPayment(o)
    BY DEF StaffConfirms
  <1>2. \A p \in OrderIds : OrderMoves(p)
    BY <1>1, ResolveMoves DEF OrderMoves
  <1>3. \A c \in Customers : ConvMoves(c)
    BY <1>1, ResolveMoves
  <1> QED
    BY <1>0, <1>1, <1>2, <1>3, Untouching DEF SessionStep, LogTypes, sessionVars

LEMMA AlarmExpiresMoves ==
    ASSUME StockSessionInv, NEW o \in OrderIds, AlarmExpires(o)
    PROVE  SessionStep
  <1>0. LogTypes
    BY InvGives
  <1>1. /\ UNCHANGED <<inbox, processed, handler, links, drain, d1Vars, faults>>
        /\ ExpireOrder(o)
    BY DEF AlarmExpires
  <1>2. PICK c \in Customers : c = orders[o].customerId
    BY <1>1, ResolveMoves
  <1>3. Enqueue(c, {ReleaseOrderEffect(o)}, NoOrder)
    BY <1>2 DEF AlarmExpires
  <1>4. /\ effects' \in [EffectIds -> Effect]
        /\ \A e \in EffectIds :
              \/ effects'[e] = effects[e]
              \/ /\ e = ReleaseOrderEffect(o) /\ effects[e].status = "NONE"
                 /\ effects'[e].status = "PENDING"
        /\ effects'[ReleaseOrderEffect(o)].status # "NONE"
    BY <1>0, <1>3, EnqueueWrites, EffectNames DEF LogTypes
  <1>5. Exists(ReleaseOrderEffect(o))'
    BY <1>4 DEF Exists, ReleaseOrderEffect
  <1>6. orders'[o].status \in Closed
    BY <1>1, ResolveMoves DEF Closed
  <1>7. \A e \in EffectIds : EffectMoves(e)
    BY <1>4, <1>6 DEF EffectMoves, Caused, Exists
  <1>8. \A p \in OrderIds : OrderMoves(p)
    BY <1>1, <1>5, <1>6, ResolveMoves DEF OrderMoves
  <1>9. \A d \in Customers : ConvMoves(d)
    BY <1>1, ResolveMoves
  <1> QED
    BY <1>0, <1>1, <1>4, <1>7, <1>8, <1>9, Untouching DEF SessionStep, LogTypes

(* What a message may do to the orders.                                    *)
LEMMA MessageWrites ==
    ASSUME ServiceInv, NEW c \in Customers, NEW m \in Messages,
           HandleMessage(c, m)
    PROVE  \/ UNCHANGED orders
           \/ /\ m.action = "confirm_order" /\ conv[c].state = "CONFIRMING"
              /\ \E o \in OrderIds :
                    /\ orders[o].status = "NONE"
                    /\ orders'[o] = [status |-> "AWAITING_PAYMENT",
                                     customerId |-> c, items |-> conv[c].cart]
                    /\ \A p \in OrderIds \ {o} : orders'[p] = orders[p]
           \/ /\ m.action = "cancel"
              /\ \E o \in OrderIds :
                    /\ orders[o].status = "AWAITING_PAYMENT"
                    /\ orders'[o].status = "CANCELLED"
                    /\ orders'[o].customerId = c
                    /\ orders'[o].items = orders[o].items
                    /\ \A p \in OrderIds \ {o} : orders'[p] = orders[p]
  <1>0. orders \in [OrderIds -> Order]
    BY DEF ServiceInv, ServiceTypeOK
  <1>1. CASE ConfirmOrder(c, m)
    BY <1>0, <1>1 DEF ConfirmOrder, CanConfirmOrder
  <1>2. CASE Cancel(c, m)
    <2>1. CASE conv[c].orderId = NoOrder
      BY <1>2, <2>1 DEF Cancel
    <2>2. CASE conv[c].orderId # NoOrder
      <3>1. CanCancel(c, m)
        BY <1>2 DEF Cancel
      <3>2. PICK o \in OrderIds :
                o = conv[c].orderId /\ orders[o].status = "AWAITING_PAYMENT"
                    /\ orders[o].customerId = c
        BY <2>2, <3>1, CancelHitsAwaiting
      <3>3. orders' = [orders EXCEPT ![o].status = "CANCELLED"]
        BY <1>2, <2>2, <3>2 DEF Cancel
      <3> QED
        BY <1>0, <3>1, <3>2, <3>3 DEF CanCancel, Order
    <2> QED
      BY <2>1, <2>2
  <1>3. CASE \/ StartProfile(c, m) \/ AnswerName(c, m) \/ AnswerPhone(c, m)
             \/ StartFreshOrder(c, m) \/ AddItem(c, m) \/ EditCart(c, m)
             \/ Checkout(c, m) \/ Reply(c, m)
    BY <1>3
    DEF StartProfile, AnswerName, AnswerPhone, StartFreshOrder, AddItem,
        EditCart, Checkout, Reply, serviceVars
  <1> QED
    BY <1>1, <1>2, <1>3 DEF HandleMessage

(* What the end of the transaction writes.                                 *)
Bookkept(u, r, A, K) ==
    /\ effects' \in [EffectIds -> Effect]
    /\ links' \in [OrderIds -> Updates \cup {NoUpdate}]
    /\ \A o \in K : effects'[ReleaseOrderEffect(o)].status # "NONE"
    /\ r /\ A = {} => effects'[ReleaseEffect(u)].status # "NONE"
    /\ \/ ~r /\ UNCHANGED links
       \/ r /\ A = {} /\ UNCHANGED links
       \/ r /\ \E o \in A : links' = [links EXCEPT ![o] = u]
    /\ \A e \in EffectIds :
          \/ effects'[e] = effects[e]
          \/ /\ effects[e].status = "NONE"
             /\ effects'[e].status = "PENDING"
             /\ \/ \E o \in K : e = ReleaseOrderEffect(o)
                \/ r /\ A = {} /\ e = ReleaseEffect(u)
                \/ r /\ e = CommitEffect(u) /\ effects'[e].orderId \in A

LEMMA BookkeepWrites ==
    ASSUME LogTypes, NEW c \in Customers, NEW u \in Updates, NEW r \in BOOLEAN,
           NEW A \in SUBSET OrderIds, NEW K \in SUBSET OrderIds,
           Bookkeep(c, u, r, A, K)
    PROVE  Bookkept(u, r, A, K)
  <1>0. /\ effects \in [EffectIds -> Effect]
        /\ links \in [OrderIds -> Updates \cup {NoUpdate}]
    BY DEF LogTypes
  <1>1. PICK rel : rel = {ReleaseOrderEffect(o) : o \in K}
    OBVIOUS
  <1>2. rel \subseteq EffectIds
    BY <1>1, EffectNames
  <1>3. \/ ~r /\ Enqueue(c, rel, NoOrder) /\ UNCHANGED links
        \/ /\ r /\ A = {} /\ Enqueue(c, rel \cup {ReleaseEffect(u)}, NoOrder)
           /\ UNCHANGED links
        \/ /\ r /\ \E o \in A : /\ links' = [links EXCEPT ![o] = u]
                                /\ Enqueue(c, rel \cup {CommitEffect(u)}, o)
    BY <1>1 DEF Bookkeep
  <1>4. CASE ~r /\ Enqueue(c, rel, NoOrder) /\ UNCHANGED links
    <2>1. /\ effects' \in [EffectIds -> Effect]
          /\ \A e \in EffectIds :
                \/ effects'[e] = effects[e]
                \/ /\ e \in rel /\ effects[e].status = "NONE"
                   /\ effects'[e].status = "PENDING"
          /\ \A e \in EffectIds \cap rel : effects'[e].status # "NONE"
      BY <1>0, <1>4, EnqueueWrites
    <2> QED
      BY <1>0, <1>1, <1>2, <1>4, <2>1 DEF Bookkept
  <1>5. CASE /\ r /\ A = {} /\ Enqueue(c, rel \cup {ReleaseEffect(u)}, NoOrder)
             /\ UNCHANGED links
    <2>1. /\ effects' \in [EffectIds -> Effect]
          /\ \A e \in EffectIds :
                \/ effects'[e] = effects[e]
                \/ /\ e \in rel \cup {ReleaseEffect(u)}
                   /\ effects[e].status = "NONE"
                   /\ effects'[e].status = "PENDING"
          /\ \A e \in EffectIds \cap (rel \cup {ReleaseEffect(u)}) :
                effects'[e].status # "NONE"
      BY <1>0, <1>5, EnqueueWrites
    <2> QED
      BY <1>0, <1>1, <1>2, <1>5, <2>1, EffectNames DEF Bookkept
  <1>6. ASSUME NEW o \in A, r, links' = [links EXCEPT ![o] = u],
               Enqueue(c, rel \cup {CommitEffect(u)}, o)
        PROVE  /\ effects' \in [EffectIds -> Effect]
               /\ links' \in [OrderIds -> Updates \cup {NoUpdate}]
               /\ \A k \in K : effects'[ReleaseOrderEffect(k)].status # "NONE"
               /\ \A e \in EffectIds :
                     \/ effects'[e] = effects[e]
                     \/ /\ effects[e].status = "NONE"
                        /\ effects'[e].status = "PENDING"
                        /\ \/ \E k \in K : e = ReleaseOrderEffect(k)
                           \/ /\ e = CommitEffect(u)
                              /\ effects'[e].orderId \in A
    <2>1. /\ effects' \in [EffectIds -> Effect]
          /\ \A e \in EffectIds :
                \/ effects'[e] = effects[e]
                \/ /\ e \in rel \cup {CommitEffect(u)}
                   /\ effects[e].status = "NONE"
                   /\ effects'[e].status = "PENDING"
                   /\ e.type = "COMMIT_RESERVATION" => effects'[e].orderId = o
          /\ \A e \in EffectIds \cap (rel \cup {CommitEffect(u)}) :
                effects'[e].status # "NONE"
      BY <1>0, <1>6, EnqueueWrites
    <2>2. CommitEffect(u).type = "COMMIT_RESERVATION"
      BY DEF CommitEffect
    <2> QED
      BY <1>0, <1>1, <1>2, <1>6, <2>1, <2>2
  <1> QED
    BY <1>3, <1>4, <1>5, <1>6 DEF Bookkept

(* The state transaction, by what its message does to the orders.          *)
LEMMA TransactMoves ==
    ASSUME StockSessionInv, NEW c \in Customers, Transact(c)
    PROVE  SessionStep
  <1>0. /\ LogTypes /\ Delivered /\ handler \in [Customers -> Handler]
        /\ HandlerAgrees(c) /\ ServiceInv
    BY InvGives
  <1>1. /\ UNCHANGED <<inbox, drain, d1Vars, faults>>
        /\ handler[c].step = "transact" /\ Return(c)
    BY DEF Transact
  <1>2. PICK u \in Updates : u = handler[c].update
    BY <1>0, <1>1 DEF HandlerAgrees
  <1>3. PICK m \in Messages : m = inbox[u].message
    BY <1>0, <1>1, <1>2 DEF Delivered
  <1>4. PICK r \in BOOLEAN : r = handler[c].reserved
    BY <1>0 DEF Handler
  <1>5. PICK A \in SUBSET OrderIds : A = AwaitingOrders(c)'
    BY DEF AwaitingOrders
  <1>6. PICK K \in SUBSET OrderIds : K = ClosedOrders(c)'
    BY DEF ClosedOrders
  <1>7. /\ HandleMessage(c, m) /\ Bookkeep(c, u, r, A, K)
        /\ processed' = processed \cup {u}
    <2>1. /\ HandleMessage(c, inbox[handler[c].update].message)
          /\ Bookkeep(c, handler[c].update, handler[c].reserved,
                      AwaitingOrders(c)', ClosedOrders(c)')
          /\ processed' = processed \cup {handler[c].update}
      BY DEF Transact
    <2> QED
      BY <1>2, <1>3, <1>4, <1>5, <1>6, <2>1
  <1>8. r => /\ ButtonConfirm(m) /\ conv[c].state = "CONFIRMING"
             /\ m.action = "confirm_order"
    BY <1>0, <1>1, <1>2, <1>3, <1>4 DEF HandlerAgrees, ButtonConfirm
  <1>9. /\ handler'[c] = IdleHandler
        /\ \A d \in Customers \ {c} : handler'[d] = handler[d]
    BY <1>0, <1>1, ReturnWrites
  <1>10. \A d \in Customers : ConvMoves(d)
    BY <1>0, <1>1, <1>7, <1>9, MessageKeepsOthers DEF ConvMoves, Untouched
  <1>11. \A v \in Updates : ProcessedMoves(v)
    BY <1>1, <1>2, <1>7, <1>9 DEF ProcessedMoves
  <1>12. /\ effects' \in [EffectIds -> Effect]
         /\ links' \in [OrderIds -> Updates \cup {NoUpdate}]
         /\ \A o \in K : effects'[ReleaseOrderEffect(o)].status # "NONE"
         /\ r /\ A = {} => effects'[ReleaseEffect(u)].status # "NONE"
         /\ \/ ~r /\ UNCHANGED links
            \/ r /\ A = {} /\ UNCHANGED links
            \/ r /\ \E o \in A : links' = [links EXCEPT ![o] = u]
         /\ \A e \in EffectIds :
               \/ effects'[e] = effects[e]
               \/ /\ effects[e].status = "NONE"
                  /\ effects'[e].status = "PENDING"
                  /\ \/ \E o \in K : e = ReleaseOrderEffect(o)
                     \/ r /\ A = {} /\ e = ReleaseEffect(u)
                     \/ /\ r /\ e = CommitEffect(u)
                        /\ effects'[e].orderId \in A
    <2>1. Bookkept(u, r, A, K)
      BY <1>0, <1>7, BookkeepWrites
    <2> QED
      BY ONLY <2>1 DEF Bookkept
  <1>13. \A o \in K : orders'[o].status \in Closed
    BY <1>6 DEF ClosedOrders, Closed
  <1>14. CASE \E o \in OrderIds :
                 /\ m.action = "confirm_order" /\ conv[c].state = "CONFIRMING"
                 /\ orders[o].status = "NONE"
                 /\ orders'[o] = [status |-> "AWAITING_PAYMENT",
                                  customerId |-> c, items |-> conv[c].cart]
                 /\ \A p \in OrderIds \ {o} : orders'[p] = orders[p]
    <2>1. PICK o \in OrderIds :
                 /\ m.action = "confirm_order" /\ conv[c].state = "CONFIRMING"
                 /\ orders[o].status = "NONE"
                 /\ orders'[o] = [status |-> "AWAITING_PAYMENT",
                                  customerId |-> c, items |-> conv[c].cart]
                 /\ \A p \in OrderIds \ {o} : orders'[p] = orders[p]
      BY <1>14
    <2>2. A = {o}
      <3>1. AwaitingOrders(c) = {}
        BY <1>0, <2>1 DEF ServiceInv, ConversationFollowsOrder
      <3>2. \A p \in OrderIds : p \in A <=> p = o
        BY <1>5, <2>1, <3>1 DEF AwaitingOrders
      <3> QED
        BY <3>2
    <2>3. r => links' = [links EXCEPT ![o] = u]
      BY <1>12, <2>2
    <2>4. effects'[ReleaseEffect(u)] = effects[ReleaseEffect(u)]
      <3>1. /\ ReleaseEffect(u) \in EffectIds
            /\ \A k \in K : ReleaseEffect(u) # ReleaseOrderEffect(k)
            /\ ReleaseEffect(u) # CommitEffect(u)
        BY EffectNames DEF ReleaseEffect, ReleaseOrderEffect, CommitEffect
      <3> QED
        BY <1>12, <2>2, <3>1
    <2>5. /\ inbox[handler[c].update].message.action = "confirm_order"
          /\ handler[c].update \in processed'
          /\ handler[c].reserved => links'[o] = handler[c].update
          /\ effects'[ReleaseEffect(handler[c].update)]
                = effects[ReleaseEffect(handler[c].update)]
      BY <1>0, <1>2, <1>3, <1>4, <1>7, <2>1, <2>3, <2>4 DEF LogTypes
    <2>6. Places(c, o)
      BY <1>1, <1>9, <2>1, <2>5 DEF Places
    <2>7. \A p \in OrderIds : OrderMoves(p)
      BY <2>1, <2>6 DEF OrderMoves
    <2>8. \A p \in OrderIds : LinkMoves(p)
      <3>1. CASE r
        BY <1>0, <1>2, <1>4, <2>3, <2>6, <3>1 DEF LinkMoves, LogTypes
      <3>2. CASE ~r
        BY <1>12, <3>2 DEF LinkMoves
      <3> QED
        BY <3>1, <3>2
    <2>9. ASSUME NEW e \in EffectIds PROVE EffectMoves(e)
      <3>1. CASE effects'[e] = effects[e]
        BY <3>1 DEF EffectMoves
      <3>2. CASE effects'[e] # effects[e]
        <4>1. /\ effects[e].status = "NONE" /\ effects'[e].status = "PENDING"
              /\ \/ \E k \in K : e = ReleaseOrderEffect(k)
                 \/ r /\ e = CommitEffect(u) /\ effects'[e].orderId = o
          BY <1>12, <2>2, <3>2
        <4>2. Caused(e)
          BY <1>2, <1>4, <1>13, <2>6, <4>1 DEF Caused
        <4> QED
          BY <4>1, <4>2 DEF EffectMoves, Exists
      <3> QED
        BY <3>1, <3>2
    <2>10. HandlerGoes(c)
      <3>1. r => links'[o] = u
        BY <1>0, <2>3 DEF LogTypes
      <3>2. u \in processed'
        BY <1>7
      <3> QED
        BY <1>1, <1>2, <1>4, <1>9, <3>1, <3>2 DEF HandlerGoes
    <2>11. \A d \in Customers : HandlerMoves(d)
      BY <1>9, <2>10 DEF HandlerMoves
    <2> QED
      BY <1>0, <1>1, <1>7, <1>10, <1>11, <1>12, <2>7, <2>8, <2>9, <2>11,
         Untouching
      DEF SessionStep, LogTypes
  <1>15. CASE \/ UNCHANGED orders
              \/ /\ m.action = "cancel"
                 /\ \E o \in OrderIds :
                       /\ orders[o].status = "AWAITING_PAYMENT"
                       /\ orders'[o].status = "CANCELLED"
                       /\ orders'[o].customerId = c
                       /\ orders'[o].items = orders[o].items
                       /\ \A p \in OrderIds \ {o} : orders'[p] = orders[p]
    <2>1. r => A = {}
      <3>1. SUFFICES ASSUME r PROVE A = {}
        OBVIOUS
      <3>2. AwaitingOrders(c) = {}
        BY <1>0, <1>8, <3>1 DEF ServiceInv, ConversationFollowsOrder
      <3>3. UNCHANGED orders
        BY <1>8, <1>15, <3>1
      <3> QED
        BY <1>5, <3>2, <3>3 DEF AwaitingOrders
    <2>2. UNCHANGED links
      BY <1>12, <2>1
    <2>3. ASSUME NEW o \in OrderIds PROVE OrderMoves(o)
      <3>1. CASE orders'[o] = orders[o]
        BY <3>1 DEF OrderMoves
      <3>2. CASE orders'[o] # orders[o]
        <4>1. /\ orders[o].status = "AWAITING_PAYMENT"
              /\ orders'[o].status = "CANCELLED"
              /\ orders'[o].customerId = c
              /\ orders'[o].items = orders[o].items
          BY <1>15, <3>2
        <4>2. o \in K
          BY <1>6, <4>1 DEF ClosedOrders
        <4>3. Exists(ReleaseOrderEffect(o))'
          BY <1>12, <4>2 DEF Exists, ReleaseOrderEffect
        <4> QED
          BY <4>1, <4>3 DEF OrderMoves, Closed
      <3> QED
        BY <3>1, <3>2
    <2>4. ASSUME NEW e \in EffectIds PROVE EffectMoves(e)
      <3>1. CASE effects'[e] = effects[e]
        BY <3>1 DEF EffectMoves
      <3>2. CASE effects'[e] # effects[e]
        <4>1. /\ effects[e].status = "NONE" /\ effects'[e].status = "PENDING"
              /\ \/ \E k \in K : e = ReleaseOrderEffect(k)
                 \/ r /\ e = ReleaseEffect(u)
          BY <1>12, <2>1, <3>2
        <4>2. u \in processed'
          BY <1>7
        <4>3. Caused(e)
          BY <1>1, <1>2, <1>4, <1>13, <4>1, <4>2 DEF Caused
        <4> QED
          BY <4>1, <4>3 DEF EffectMoves, Exists
      <3> QED
        BY <3>1, <3>2
    <2>5. HandlerGoes(c)
      <3>1. r => Exists(ReleaseEffect(u))'
        BY <1>12, <2>1 DEF Exists, ReleaseEffect
      <3>2. u \in processed'
        BY <1>7
      <3> QED
        BY <1>1, <1>2, <1>4, <1>9, <3>1, <3>2 DEF HandlerGoes
    <2>6. \A d \in Customers : HandlerMoves(d)
      BY <1>9, <2>5 DEF HandlerMoves
    <2> QED
      BY <1>0, <1>1, <1>7, <1>10, <1>11, <1>12, <2>2, <2>3, <2>4, <2>6,
         Untouching
      DEF SessionStep, LogTypes
  <1> QED
    BY <1>0, <1>7, <1>14, <1>15, MessageWrites

-----------------------------------------------------------------------------
(* The steps of a drain.                                                   *)

DrainIsSet(c, w, d) == drain' = [drain EXCEPT ![c][w] = d]

OnlyDrain(c, w, d) ==
    /\ drain' \in [Customers -> [Workers -> Drain]]
    /\ drain'[c][w] = d
    /\ \A b \in Customers, v \in Workers :
          b # c \/ v # w => drain'[b][v] = drain[b][v]

LEMMA DrainWrites ==
    ASSUME LogTypes, NEW c \in Customers, NEW w \in Workers, NEW d \in Drain,
           DrainIsSet(c, w, d)
    PROVE  OnlyDrain(c, w, d)
  BY DEF LogTypes, DrainIsSet, OnlyDrain

LEMMA EffectWrites ==
    ASSUME LogTypes, NEW e \in EffectIds, NEW s \in EffectStatuses,
           NEW t \in BOOLEAN,
           effects' = [effects EXCEPT ![e].status = s, ![e].tried = t]
    PROVE  /\ effects' \in [EffectIds -> Effect]
           /\ effects'[e].status = s
           /\ effects'[e].orderId = effects[e].orderId
           /\ \A f \in EffectIds \ {e} : effects'[f] = effects[f]
  <1>1. effects \in [EffectIds -> Effect]
    BY DEF LogTypes
  <1>2. effects[e] \in Effect
    BY <1>1
  <1>3. PICK r : r = [effects[e] EXCEPT !.status = s, !.tried = t]
    OBVIOUS
  <1>4. r \in Effect /\ r.status = s /\ r.orderId = effects[e].orderId
    BY <1>2, <1>3 DEF Effect
  <1>5. effects' = [effects EXCEPT ![e] = r]
    BY <1>1, <1>3
  <1> QED
    BY <1>1, <1>4, <1>5

LEMMA EffectStatusWrites ==
    ASSUME LogTypes, NEW e \in EffectIds, NEW s \in EffectStatuses,
           effects' = [effects EXCEPT ![e].status = s]
    PROVE  /\ effects' \in [EffectIds -> Effect]
           /\ effects'[e].status = s
           /\ effects'[e].orderId = effects[e].orderId
           /\ \A f \in EffectIds \ {e} : effects'[f] = effects[f]
  BY DEF LogTypes, Effect

(* What a drain at work works on. *)
LEMMA DrainHas ==
    ASSUME StockSessionInv, NEW c \in Customers, NEW w \in Workers,
           drain[c][w].step # "idle"
    PROVE  /\ drain[c][w] \in Drain
           /\ drain[c][w].effect \in EffectIds
           /\ Exists(drain[c][w].effect)
           /\ drain[c][w].step = "verify" =>
                 drain[c][w].effect.type = "COMMIT_RESERVATION"
           /\ drain[c][w].step = "settle" => Achieved(drain[c][w].effect)
  BY InvGives DEF LogTypes, DrainAgrees

LEMMA ClaimMoves ==
    ASSUME StockSessionInv, NEW c \in Customers, NEW w \in Workers,
           NEW e \in EffectIds, Claim(c, w, e)
    PROVE  SessionStep
  <1>0. LogTypes
    BY InvGives
  <1>1. /\ UNCHANGED <<serviceVars, inbox, processed, handler, links, d1Vars,
                       faults>>
        /\ effects[e].status \in {"PENDING", "PROCESSING"}
        /\ effects' = [effects EXCEPT ![e].status = "PROCESSING"]
        /\ drain' = [drain EXCEPT ![c][w] = [step |-> "call", effect |-> e]]
    BY DEF Claim
  <1>2. /\ effects' \in [EffectIds -> Effect]
        /\ effects'[e].status = "PROCESSING"
        /\ effects'[e].orderId = effects[e].orderId
        /\ \A f \in EffectIds \ {e} : effects'[f] = effects[f]
    BY <1>0, <1>1, EffectStatusWrites DEF EffectStatuses
  <1>3. /\ drain' \in [Customers -> [Workers -> Drain]]
        /\ drain'[c][w] = [step |-> "call", effect |-> e]
        /\ \A b \in Customers, v \in Workers :
              b # c \/ v # w => drain'[b][v] = drain[b][v]
    <2> DEFINE d == [step |-> "call", effect |-> e]
    <2>1. d \in Drain
      BY DEF Drain
    <2>2. DrainIsSet(c, w, d)
      BY <1>1 DEF DrainIsSet
    <2>3. OnlyDrain(c, w, d)
      <3> HIDE DEF d
      <3> QED
        BY <1>0, <2>1, <2>2, DrainWrites
    <2> QED
      BY <2>3 DEF OnlyDrain
  <1>4. \A f \in EffectIds : EffectMoves(f)
    BY <1>1, <1>2 DEF EffectMoves, Exists
  <1>5. DrainAgrees(c, w)'
    BY <1>2, <1>3 DEF DrainAgrees, Exists
  <1>6. \A b \in Customers, v \in Workers : DrainMoves(b, v)
    BY <1>3, <1>5 DEF DrainMoves
  <1> QED
    BY <1>0, <1>1, <1>2, <1>3, <1>4, <1>6, Untouching DEF SessionStep, LogTypes

(* A release that has been applied leaves nothing held. *)
LEMMA ReleaseEmpties ==
    ASSUME StockSessionInv, NEW u \in Updates, ReleaseReservation(u)
    PROVE  HeldOf(u)' = {}
  <1>1. D1Types
    BY InvGives
  <1>2. ReleaseRows({u} \X Products)
    BY DEF ReleaseReservation
  <1>3. ASSUME NEW p \in Products PROVE ~Held(reservations'[u][p])
    <2>1. reservations[u][p] \in Row
      BY <1>1 DEF D1Types
    <2>2. reservations'[u][p] =
              IF <<u, p>> \in {u} \X Products /\ Held(reservations[u][p])
              THEN [reservations[u][p] EXCEPT !.status = "RELEASED"]
              ELSE reservations[u][p]
      BY <1>1, <1>2, ReleaseRow
    <2> QED
      BY <2>1, <2>2, RowFields DEF Held
  <1> QED
    BY <1>3 DEF HeldOf

LEMMA CallMoves ==
    ASSUME StockSessionInv, NEW c \in Customers, NEW w \in Workers, Call(c, w)
    PROVE  SessionStep
  <1>0. LogTypes
    BY InvGives
  <1>1. /\ UNCHANGED <<serviceVars, inbox, processed, handler, effects, links,
                       faults>>
        /\ drain[c][w].step = "call"
    BY DEF Call
  <1>2. PICK e \in EffectIds : e = drain[c][w].effect /\ Exists(e)
    BY <1>1, DrainHas
  <1>3. Perform(e)
    BY <1>2 DEF Call
  <1>4. PICK d : d = [drain[c][w] EXCEPT !.step =
                         IF e.type = "COMMIT_RESERVATION" THEN "verify"
                                                          ELSE "settle"]
    OBVIOUS
  <1>5. /\ d \in Drain /\ d.effect = e
        /\ d.step = IF e.type = "COMMIT_RESERVATION" THEN "verify"
                                                     ELSE "settle"
    <2>1. drain[c][w] \in Drain
      BY <1>1, DrainHas
    <2> QED
      BY <1>2, <1>4, <2>1 DEF Drain
  <1>6. drain' = [drain EXCEPT ![c][w] = d]
    <2>1. drain' = [drain EXCEPT ![c][w].step =
                       IF e.type = "COMMIT_RESERVATION" THEN "verify"
                                                        ELSE "settle"]
      BY <1>2 DEF Call
    <2> QED
      BY <1>0, <1>4, <2>1 DEF LogTypes
  <1>7. /\ drain' \in [Customers -> [Workers -> Drain]]
        /\ drain'[c][w] = d
        /\ \A b \in Customers, v \in Workers :
              b # c \/ v # w => drain'[b][v] = drain[b][v]
    <2>1. d \in Drain
      BY <1>5
    <2>2. DrainIsSet(c, w, d)
      BY <1>6, Zenon DEF DrainIsSet
    <2>3. OnlyDrain(c, w, d)
      BY <1>0, <2>1, <2>2, DrainWrites
    <2> QED
      BY <2>3 DEF OnlyDrain
  <1>8. d.step = "settle" => Achieved(e)'
    <2>1. CASE \E u \in Updates : e = CommitEffect(u)
      BY <1>5, <2>1 DEF CommitEffect
    <2>2. ASSUME NEW u \in Updates, e = ReleaseEffect(u)
          PROVE  Achieved(e)'
      <3>1. e.type = "RELEASE_RESERVATION" /\ e.key = u
        BY <2>2 DEF ReleaseEffect
      <3>2. HeldOf(u)' = {}
        BY <1>3, <3>1, ReleaseEmpties DEF Perform
      <3> QED
        BY <3>1, <3>2 DEF Achieved, HeldOf
    <2>3. ASSUME NEW o \in OrderIds, e = ReleaseOrderEffect(o)
          PROVE  Achieved(e)'
      <3>1. e.type = "RELEASE_ORDER" /\ e.key = o
        BY <2>3 DEF ReleaseOrderEffect
      <3>2. ReleaseOrder(o)
        BY <1>3, <3>1 DEF Perform
      <3>3. HeldFor(o)' = {}
        <4>1. links'[o] = links[o]
          BY <1>1
        <4>2. CASE links[o] = NoUpdate
          BY <4>1, <4>2 DEF HeldFor
        <4>3. CASE links[o] # NoUpdate
          <5>1. PICK u \in Updates : u = links[o]
            BY <1>0, <4>3 DEF LogTypes
          <5>2. ReleaseReservation(u)
            BY <3>2, <4>3, <5>1 DEF ReleaseOrder
          <5>3. HeldOf(u)' = {}
            BY <5>2, ReleaseEmpties
          <5> QED
            BY <4>1, <5>1, <5>3 DEF HeldFor, HeldOf
        <4> QED
          BY <4>2, <4>3
      <3> QED
        BY <3>1, <3>3 DEF Achieved, HeldFor, HeldOf
    <2> QED
      BY <2>1, <2>2, <2>3, EffectKinds
  <1>9. Exists(e)'
    BY <1>1, <1>2 DEF Exists
  <1>10. DrainAgrees(c, w)'
    <2>1. /\ drain'[c][w].step = d.step /\ drain'[c][w].effect = e
      BY <1>5, <1>7
    <2>2. d.step = "verify" => e.type = "COMMIT_RESERVATION"
      BY <1>5
    <2> QED
      BY <1>8, <1>9, <2>1, <2>2
      DEF DrainAgrees, Exists, Achieved, HeldFor, HeldOf
  <1>11. \A b \in Customers, v \in Workers : DrainMoves(b, v)
    BY <1>7, <1>10 DEF DrainMoves
  <1>12. D1Call
    BY <1>2, <1>3 DEF D1Call
  <1> QED
    BY <1>0, <1>1, <1>7, <1>11, <1>12, Untouching DEF SessionStep, LogTypes

(* A drain that lets go of its effect. *)
LEMMA LetGoMoves ==
    ASSUME StockSessionInv, NEW c \in Customers, NEW w \in Workers,
           drain' = [drain EXCEPT ![c][w] = IdleDrain]
    PROVE  /\ drain' \in [Customers -> [Workers -> Drain]]
           /\ \A b \in Customers, v \in Workers : DrainMoves(b, v)
  <1>0. LogTypes
    BY InvGives
  <1>1. IdleDrain \in Drain /\ IdleDrain.step = "idle"
    BY DEF IdleDrain, Drain
  <1>2. /\ drain' \in [Customers -> [Workers -> Drain]]
        /\ drain'[c][w] = IdleDrain
        /\ \A b \in Customers, v \in Workers :
              b # c \/ v # w => drain'[b][v] = drain[b][v]
    <2>1. DrainIsSet(c, w, IdleDrain)
      BY Zenon DEF DrainIsSet
    <2>2. OnlyDrain(c, w, IdleDrain)
      BY <1>0, <1>1, <2>1, DrainWrites
    <2> QED
      BY <2>2 DEF OnlyDrain
  <1>3. DrainAgrees(c, w)'
    BY <1>1, <1>2 DEF DrainAgrees
  <1> QED
    BY <1>2, <1>3 DEF DrainMoves

LEMMA RetryMoves ==
    ASSUME StockSessionInv, NEW c \in Customers, NEW w \in Workers,
           drain[c][w].step # "idle", Retry(c, w)
    PROVE  /\ effects' \in [EffectIds -> Effect]
           /\ drain' \in [Customers -> [Workers -> Drain]]
           /\ \A e \in EffectIds : EffectMoves(e)
           /\ \A b \in Customers, v \in Workers : DrainMoves(b, v)
  <1>0. LogTypes
    BY InvGives
  <1>1. PICK e \in EffectIds : e = drain[c][w].effect /\ Exists(e)
    BY DrainHas
  <1>2. effects' = [effects EXCEPT ![e].status = "PENDING", ![e].tried = TRUE]
    BY <1>1 DEF Retry
  <1>3. /\ effects' \in [EffectIds -> Effect]
        /\ effects'[e].status = "PENDING"
        /\ effects'[e].orderId = effects[e].orderId
        /\ \A f \in EffectIds \ {e} : effects'[f] = effects[f]
    BY <1>0, <1>2, EffectWrites DEF EffectStatuses
  <1>4. \A f \in EffectIds : EffectMoves(f)
    BY <1>1, <1>3 DEF EffectMoves, Exists
  <1> QED
    BY <1>3, <1>4, LetGoMoves DEF Retry

LEMMA VerifyMoves ==
    ASSUME StockSessionInv, NEW c \in Customers, NEW w \in Workers,
           Verify(c, w)
    PROVE  SessionStep
  <1>0. LogTypes
    BY InvGives
  <1>1. /\ UNCHANGED <<serviceVars, inbox, processed, handler, links, d1Vars,
                       faults>>
        /\ drain[c][w].step = "verify"
    BY DEF Verify
  <1>2. PICK e \in EffectIds : /\ e = drain[c][w].effect /\ Exists(e)
                               /\ e.type = "COMMIT_RESERVATION"
    BY <1>1, DrainHas
  <1>3. CASE Retry(c, w)
    BY <1>0, <1>1, <1>3, RetryMoves, Untouching DEF SessionStep, LogTypes
  <1>4. CASE /\ Committed(e.key, effects[e].orderId)
             /\ drain' = [drain EXCEPT ![c][w].step = "settle"]
             /\ UNCHANGED effects
    <2>1. PICK d : d = [drain[c][w] EXCEPT !.step = "settle"]
      OBVIOUS
    <2>2. d \in Drain /\ d.effect = e /\ d.step = "settle"
      <3>1. drain[c][w] \in Drain
        BY <1>1, DrainHas
      <3> QED
        BY <1>2, <2>1, <3>1 DEF Drain
    <2>3. drain' = [drain EXCEPT ![c][w] = d]
      BY <1>0, <1>4, <2>1 DEF LogTypes
    <2>4. /\ drain' \in [Customers -> [Workers -> Drain]]
          /\ drain'[c][w] = d
          /\ \A b \in Customers, v \in Workers :
                b # c \/ v # w => drain'[b][v] = drain[b][v]
      <3>1. DrainIsSet(c, w, d)
        BY <2>3, Zenon DEF DrainIsSet
      <3>2. OnlyDrain(c, w, d)
        BY <1>0, <2>2, <3>1, DrainWrites
      <3> QED
        BY <3>2 DEF OnlyDrain
    <2>5. Achieved(e)'
      <3>1. \A p \in Products : reservations[e.key][p].status # "RESERVED"
        BY <1>4 DEF Committed
      <3> QED
        BY <1>1, <1>2, <3>1 DEF Achieved, d1Vars
    <2>6. DrainAgrees(c, w)'
      <3>1. Exists(e)'
        BY <1>2, <1>4 DEF Exists
      <3>2. drain'[c][w].step = "settle" /\ drain'[c][w].effect = e
        BY <2>2, <2>4
      <3> QED
        BY <2>5, <3>1, <3>2
        DEF DrainAgrees, Exists, Achieved, HeldFor, HeldOf
    <2>7. \A b \in Customers, v \in Workers : DrainMoves(b, v)
      BY <2>4, <2>6 DEF DrainMoves
    <2> QED
      BY <1>0, <1>1, <1>4, <2>4, <2>7, Untouching DEF SessionStep, LogTypes
  <1> QED
    BY <1>2, <1>3, <1>4 DEF Verify

LEMMA CallFailsMoves ==
    ASSUME StockSessionInv, NEW c \in Customers, NEW w \in Workers,
           CallFails(c, w)
    PROVE  SessionStep
  <1>0. LogTypes
    BY InvGives
  <1>1. /\ UNCHANGED <<serviceVars, inbox, processed, handler, links>>
        /\ drain[c][w].step # "idle" /\ Retry(c, w) /\ D1Fails
    BY DEF CallFails
  <1>2. PICK e \in EffectIds : e = drain[c][w].effect /\ Exists(e)
    BY <1>1, DrainHas
  <1>3. D1Call
    BY <1>2 DEF CallFails, D1Call
  <1> QED
    BY <1>0, <1>1, <1>3, RetryMoves, FaultWrites, Untouching
    DEF SessionStep, LogTypes

LEMMA SettleMoves ==
    ASSUME StockSessionInv, NEW c \in Customers, NEW w \in Workers,
           Settle(c, w)
    PROVE  SessionStep
  <1>0. LogTypes
    BY InvGives
  <1>1. /\ UNCHANGED <<serviceVars, inbox, processed, handler, links, d1Vars,
                       faults>>
        /\ drain[c][w].step = "settle"
        /\ drain' = [drain EXCEPT ![c][w] = IdleDrain]
    BY DEF Settle
  <1>2. PICK e \in EffectIds : e = drain[c][w].effect /\ Exists(e)
    BY <1>1, DrainHas
  <1>3. effects' = [effects EXCEPT ![e].status = "DONE"]
    BY <1>2 DEF Settle
  <1>4. /\ effects' \in [EffectIds -> Effect]
        /\ effects'[e].status = "DONE"
        /\ effects'[e].orderId = effects[e].orderId
        /\ \A f \in EffectIds \ {e} : effects'[f] = effects[f]
    BY <1>0, <1>3, EffectStatusWrites DEF EffectStatuses
  <1>5. \A f \in EffectIds : EffectMoves(f)
    BY <1>1, <1>2, <1>4 DEF EffectMoves, Exists
  <1> QED
    BY <1>0, <1>1, <1>4, <1>5, LetGoMoves, Untouching DEF SessionStep, LogTypes

LEMMA EveryStepMoves ==
    ASSUME StockSessionInv, [Next]_vars
    PROVE  SessionStep
  <1>0. LogTypes
    BY InvGives
  <1>1. CASE UNCHANGED vars
    BY <1>0, <1>1, Untouching
    DEF vars, sessionVars, SessionStep, LogTypes
  <1>2. CASE \E c \in Customers, u \in Updates, m \in Messages :
                 Receive(c, u, m)
    BY <1>2, ReceiveMoves
  <1>3. ASSUME NEW c \in Customers,
               Process(c) \/ ReserveFails(c) \/ Abort(c) \/ Crash(c)
        PROVE  SessionStep
    BY <1>3, ReservingMoves, RefuseMoves, ApologiseMoves, TransactMoves,
       RollBackMoves, CrashMoves
    DEF Process
  <1>4. ASSUME NEW o \in OrderIds, StaffConfirms(o) \/ AlarmExpires(o)
        PROVE  SessionStep
    BY <1>4, StaffConfirmsMoves, AlarmExpiresMoves
  <1>5. ASSUME NEW c \in Customers, NEW w \in Workers,
               \/ \E e \in EffectIds : Claim(c, w, e)
               \/ Call(c, w) \/ Verify(c, w) \/ CallFails(c, w)
               \/ Settle(c, w)
        PROVE  SessionStep
    BY <1>5, ClaimMoves, CallMoves, VerifyMoves, CallFailsMoves, SettleMoves
  <1> QED
    BY <1>1, <1>2, <1>3, <1>4, <1>5 DEF Next

LEMMA StepsAreMoves ==
    ASSUME StockSessionInv, SessionStep
    PROVE  SessionMoves /\ SessionTypes' /\ StockConserved'
  <1>1. D1Moves
    BY D1CallMoves DEF SessionStep
  <1>2. SessionMoves
    BY <1>1 DEF SessionStep, SessionMoves, D1Moves
  <1>3. SessionTypes'
    BY <1>1 DEF SessionStep, SessionTypes, LogTypes, D1Moves, D1Types
  <1> QED
    BY <1>1, <1>2, <1>3 DEF D1Moves

(* A drain that goes on in another step still works on its effect.         *)
LEMMA DrainsStayAgreed ==
    ASSUME StockSessionInv, SessionStep, NEW c \in Customers, NEW w \in Workers
    PROVE  DrainAgrees(c, w)'
  <1>1. SessionMoves
    BY StepsAreMoves
  <1>2. CASE drain'[c][w] = drain[c][w] /\ drain[c][w].step # "idle"
    <2>1. PICK e \in EffectIds :
              /\ e = drain[c][w].effect /\ Exists(e)
              /\ drain[c][w].step = "verify" => e.type = "COMMIT_RESERVATION"
              /\ drain[c][w].step = "settle" => Achieved(e)
      BY <1>2, DrainHas
    <2>2. Exists(e)'
      BY <1>1, <2>1, ExistingStay
    <2>3. drain[c][w].step = "settle" => Achieved(e)'
      BY <1>1, <2>1, AchievedStays
    <2>4. drain'[c][w].effect = e
      BY <1>2, <2>1
    <2> QED
      BY <1>2, <2>1, <2>2, <2>3, <2>4
      DEF DrainAgrees, Exists, Achieved, HeldFor, HeldOf
  <1>3. CASE drain'[c][w].step = "idle"
    BY <1>3 DEF DrainAgrees
  <1> QED
    BY <1>2, <1>3 DEF SessionStep, DrainMoves

LEMMA StepKeepsStockAgreement ==
    ASSUME StockSessionInv, SessionInv', [Next]_vars
    PROVE  StockSessionInv'
  <1>1. SessionStep
    BY EveryStepMoves
  <1>2. SessionMoves /\ SessionTypes' /\ StockConserved'
    BY <1>1, StepsAreMoves
  <1>3. /\ \A c \in Customers : HandlerAgrees(c)'
        /\ \A o \in OrderIds : LinkAgrees(o)' /\ ReleaseAgrees(o)'
        /\ \A u \in Updates : CommitAgrees(u)'
        /\ \A u \in Updates, p \in Products : RowAgrees(u, p)'
        /\ \A c \in Customers, w \in Workers : DrainAgrees(c, w)'
        /\ \A e \in EffectIds : DoneAgrees(e)'
        /\ \A u \in Updates : Accounted(u)'
    BY <1>1, <1>2, HandlersStayAgreed, LinksStayAgreed, ReleasesStayAgreed,
       CommitsStayAgreed, RowsStayAgreed, DrainsStayAgreed, DoneStaysAgreed,
       AccountsStay
  <1>4. Undisturbed' => /\ \A u \in Updates : Fresh(u)'
                        /\ \A c \in Customers : CartHeld(c)'
                        /\ \A o \in OrderIds : Backed(o)'
    BY <1>2, FreshStays, CartStaysHeld, OrdersStayBacked
  <1>5. StockAgreement'
    BY <1>2, <1>3, <1>4 DEF StockAgreement
  <1> QED
    BY <1>5 DEF StockSessionInv

LEMMA InitialStockAgreement == Init => StockSessionInv
  <1> SUFFICES ASSUME Init PROVE StockAgreement
    BY InitDelivered DEF StockSessionInv
  <1>1. NoRow \in Row
    BY OrderServiceAssumption DEF NoRow, Row, OrderServiceAssumption
  <1>2. D1Types
    BY <1>1, TelegramSessionAssumption
    DEF Init, SessionInit, D1Types, TelegramSessionAssumption
  <1>3. SessionTypes
    <2>1. NoEffect \in Effect /\ IdleDrain \in Drain
      BY DEF NoEffect, Effect, EffectStatuses, IdleDrain, Drain
    <2> QED
      BY <1>2, <2>1, TelegramSessionAssumption
      DEF Init, SessionInit, SessionTypes, TelegramSessionAssumption
  <1>4. \A u \in Updates, p \in Products : reservations[u][p] = NoRow
    BY DEF Init, SessionInit
  <1>5. StockConserved
    <2>1. ASSUME NEW p \in Stocked
          PROVE  remaining[p] + SumFunctionOnSet(Holding(p), Updates)
                     = InitialStock[p]
      <3>1. p \in Products /\ InitialStock[p] \in Nat
        BY TelegramSessionAssumption DEF TelegramSessionAssumption
      <3>2. \A u \in Updates : Holding(p)[u] = 0
        BY <1>4, <3>1 DEF Holding, HeldQuantity, Held, NoRow
      <3>3. SumFunctionOnSet(Holding(p), Updates) = 0
        BY <3>2, SumZeros, TelegramSessionAssumption
        DEF TelegramSessionAssumption
      <3>4. remaining[p] = InitialStock[p]
        BY DEF Init, SessionInit
      <3> QED
        BY <3>1, <3>3, <3>4
    <2> QED
      BY <2>1 DEF StockConserved, Holding
  <1>6. \A e \in EffectIds : ~Exists(e) /\ effects[e].status = "NONE"
    BY DEF Init, SessionInit, Exists, NoEffect
  <1>7. \A u \in Updates : ~HasRows(u)
    BY <1>4 DEF HasRows, NoRow
  <1>8. \A o \in OrderIds : links[o] = NoUpdate /\ orders[o].status = "NONE"
    BY DEF Init, SessionInit, ServiceInit, UnusedOrder
  <1>9. \A c \in Customers : handler[c] = IdleHandler
    BY DEF Init, SessionInit
  <1>10. ASSUME NEW c \in Customers PROVE HandlerAgrees(c) /\ CartHeld(c)
    <2>1. handler[c] = IdleHandler /\ IdleHandler.step = "idle"
      BY <1>9 DEF IdleHandler
    <2>2. handler[c].step = "idle"
      BY <2>1
    <2> QED
      BY <2>1, <2>2 DEF HandlerAgrees, CartHeld
  <1>11. \A o \in OrderIds : LinkAgrees(o) /\ ReleaseAgrees(o) /\ Backed(o)
    BY <1>6, <1>8, EffectNames DEF LinkAgrees, ReleaseAgrees, Backed, Live
  <1>12. \A u \in Updates : CommitAgrees(u) /\ Accounted(u) /\ Fresh(u)
    BY <1>6, <1>7, EffectNames DEF CommitAgrees, Accounted, Fresh
  <1>13. \A u \in Updates, p \in Products : RowAgrees(u, p)
    BY <1>4 DEF RowAgrees, NoRow
  <1>14. \A c \in Customers, w \in Workers : DrainAgrees(c, w)
    BY DEF Init, SessionInit, DrainAgrees, IdleDrain
  <1>15. \A e \in EffectIds : DoneAgrees(e)
    BY <1>6 DEF DoneAgrees
  <1> QED
    BY <1>3, <1>5, <1>10, <1>11, <1>12, <1>13, <1>14, <1>15 DEF StockAgreement

(* The invariant holds in every reachable state, with any number of chats, *)
(* orders, drains, evictions, aborts and failing calls.                    *)
THEOREM StockSessionInvariant == Spec => []StockSessionInv
  <1>1. StockSessionInv /\ [Next]_vars => StockSessionInv'
    <2> SUFFICES ASSUME StockSessionInv, [Next]_vars PROVE StockSessionInv'
      OBVIOUS
    <2>1. SessionInv'
      BY StepAllowed DEF StockSessionInv
    <2> QED
      BY <2>1, StepKeepsStockAgreement
  <1> QED
    BY <1>1, InitialStockAgreement, PTL DEF Spec

-----------------------------------------------------------------------------
(* The theorems about the stock.                                           *)

(* Nothing outside its range, and the stock of the day adds up: in every   *)
(* reachable state, whatever D1 calls fail or are repeated and however     *)
(* often objects are evicted.                                              *)
THEOREM StockStaysConsistent == Spec => []StockInv
  <1>1. StockSessionInv => StockInv
    BY DEF StockSessionInv, SessionInv, ServiceInv, Delivered, StockAgreement,
           SessionTypes, D1Types, StockInv, TypeOK
  <1> QED
    BY <1>1, StockSessionInvariant, PTL

(* What remains and what is held add up to the stock of the day.           *)
THEOREM StockIsConserved == Spec => []StockConserved
  <1>1. StockSessionInv => StockConserved
    BY DEF StockSessionInv, StockAgreement
  <1> QED
    BY <1>1, StockSessionInvariant, PTL

(* No step takes a reservation row back: what was released stays released, *)
(* and no row changes its quantity.                                        *)
THEOREM RowsOnlyMoveForward == Spec => RowsMoveForward
  <1> DEFINE Forward ==
          \A u \in Updates, p \in Products :
             LET old == reservations[u][p]
                 new == reservations'[u][p]
             IN  old.status # "NONE" =>
                    /\ new.quantity = old.quantity
                    /\ \/ new = old
                       \/ old.status = "RESERVED" /\ new.status = "COMMITTED"
                       \/ Held(old) /\ new.status = "RELEASED"
  <1>1. StockSessionInv /\ [Next]_vars => [Forward]_vars
    <2> SUFFICES ASSUME StockSessionInv, [Next]_vars,
                        NEW u \in Updates, NEW p \in Products,
                        reservations[u][p].status # "NONE"
                 PROVE  /\ reservations'[u][p].quantity
                               = reservations[u][p].quantity
                        /\ \/ reservations'[u][p] = reservations[u][p]
                           \/ /\ reservations[u][p].status = "RESERVED"
                              /\ reservations'[u][p].status = "COMMITTED"
                           \/ /\ Held(reservations[u][p])
                              /\ reservations'[u][p].status = "RELEASED"
      OBVIOUS
    <2>1. SessionMoves /\ StockAgreement
      BY EveryStepMoves, StepsAreMoves DEF StockSessionInv
    <2> QED
      BY <2>1, RowShapes
  <1> QED
    BY <1>1, StockSessionInvariant, PTL DEF Spec, RowsMoveForward

(* An effect that is DONE has had its result, and nothing undoes it.  For  *)
(* commits and for releases of orders this needs no hypothesis ...         *)
THEOREM DoneCommitsAndOrderReleasesHold ==
    Spec => [](/\ \A u \in Updates :
                     effects[CommitEffect(u)].status = "DONE" =>
                        \A p \in Products :
                           reservations[u][p].status # "RESERVED"
               /\ \A o \in OrderIds :
                     effects[ReleaseOrderEffect(o)].status = "DONE" =>
                        HeldFor(o) = {})
  <1> DEFINE Hold == /\ \A u \in Updates :
                           effects[CommitEffect(u)].status = "DONE" =>
                              \A p \in Products :
                                 reservations[u][p].status # "RESERVED"
                     /\ \A o \in OrderIds :
                           effects[ReleaseOrderEffect(o)].status = "DONE" =>
                              HeldFor(o) = {}
  <1>1. StockSessionInv => Hold
    <2> SUFFICES ASSUME StockSessionInv PROVE Hold
      OBVIOUS
    <2>1. \A e \in EffectIds : DoneAgrees(e)
      BY DEF StockSessionInv, StockAgreement
    <2>2. ASSUME NEW u \in Updates, effects[CommitEffect(u)].status = "DONE",
                 NEW p \in Products
          PROVE  reservations[u][p].status # "RESERVED"
      <3>1. Achieved(CommitEffect(u))
        BY <2>1, <2>2, EffectNames DEF DoneAgrees
      <3> QED
        BY <3>1 DEF Achieved, CommitEffect
    <2>3. ASSUME NEW o \in OrderIds,
                 effects[ReleaseOrderEffect(o)].status = "DONE"
          PROVE  HeldFor(o) = {}
      <3>1. Achieved(ReleaseOrderEffect(o))
        BY <2>1, <2>3, EffectNames DEF DoneAgrees
      <3> QED
        BY <3>1 DEF Achieved, ReleaseOrderEffect
    <2> QED
      BY <2>2, <2>3
  <1> QED
    BY <1>1, StockSessionInvariant, PTL

(* ... and for releases of a reservation it holds as long as no object has *)
(* been evicted: after an eviction a reservation can be made again under   *)
(* the id whose release is DONE.                                           *)
LEMMA DoneHold ==
    ASSUME StockSessionInv, faults.crash = 0
    PROVE  DoneEffectsHold
  <1>1. \A e \in EffectIds : DoneAgrees(e)
    BY DEF StockSessionInv, StockAgreement
  <1>2. ASSUME NEW u \in Updates, effects[ReleaseEffect(u)].status = "DONE"
        PROVE  HeldOf(u) = {}
    <2>1. Achieved(ReleaseEffect(u))
      BY <1>1, <1>2, EffectNames DEF DoneAgrees
    <2> QED
      BY <2>1 DEF Achieved, ReleaseEffect
  <1>3. ASSUME NEW u \in Updates, effects[CommitEffect(u)].status = "DONE",
               NEW p \in Products
        PROVE  reservations[u][p].status # "RESERVED"
    <2>1. Achieved(CommitEffect(u))
      BY <1>1, <1>3, EffectNames DEF DoneAgrees
    <2> QED
      BY <2>1 DEF Achieved, CommitEffect
  <1>4. ASSUME NEW o \in OrderIds,
               effects[ReleaseOrderEffect(o)].status = "DONE"
        PROVE  HeldFor(o) = {}
    <2>1. Achieved(ReleaseOrderEffect(o))
      BY <1>1, <1>4, EffectNames DEF DoneAgrees
    <2> QED
      BY <2>1 DEF Achieved, ReleaseOrderEffect
  <1> QED
    BY <1>2, <1>3, <1>4 DEF DoneEffectsHold

(* ... and until an object is evicted it holds of all effects: what is     *)
(* DONE in inventory_effects has happened in D1 and stays so.  After an    *)
(* eviction a redelivered update can reserve again under an id whose       *)
(* release is DONE.                                                        *)
THEOREM DoneEffectsHaveHappened ==
    Spec => [](faults.crash = 0 => DoneEffectsHold)
  <1>1. StockSessionInv => (faults.crash = 0 => DoneEffectsHold)
    BY DoneHold
  <1> QED
    BY <1>1, StockSessionInvariant, PTL

(* As long as no object has been evicted, held stock belongs to a live     *)
(* order, or to the update being handled, or its release is outstanding.   *)
LEMMA HeldIsOwned ==
    ASSUME StockSessionInv, faults.crash = 0
    PROVE  HeldStockHasAnOwner
  <1>1. DoneEffectsHold
    BY DoneHold
  <1>2. effects \in [EffectIds -> Effect]
    BY InvGives DEF LogTypes
  <1>3. ASSUME NEW e \in EffectIds, Exists(e), ~Outstanding(e)
        PROVE  effects[e].status = "DONE"
    BY <1>2, <1>3 DEF Exists, Outstanding, Effect, EffectStatuses
  <1>4. ASSUME NEW u \in Updates, HeldOf(u) # {}
        PROVE  \/ \E c \in Customers : handler[c].update = u
               \/ Outstanding(ReleaseEffect(u))
               \/ \E o \in OrderIds :
                     /\ links[o] = u
                     /\ \/ orders[o].status \in {"AWAITING_PAYMENT", "PAID"}
                        \/ Outstanding(ReleaseOrderEffect(o))
    <2>1. HasRows(u)
      BY <1>4 DEF HeldOf, Held, HasRows
    <2>2. Accounted(u)
      BY DEF StockSessionInv, StockAgreement
    <2>3. CASE Using(u, HandlerSteps \ {"idle"})
      BY <2>3 DEF Using
    <2>4. CASE Exists(ReleaseEffect(u))
      BY <1>1, <1>3, <1>4, <2>4, EffectNames DEF DoneEffectsHold
    <2>5. ASSUME NEW o \in OrderIds, links[o] = u
          PROVE  \/ orders[o].status \in {"AWAITING_PAYMENT", "PAID"}
                 \/ Outstanding(ReleaseOrderEffect(o))
      <3>1. u # NoUpdate
        BY TelegramSessionAssumption DEF TelegramSessionAssumption
      <3>2. LinkAgrees(o)
        BY DEF StockSessionInv, StockAgreement
      <3>3. \/ orders[o].status \in {"AWAITING_PAYMENT", "PAID"}
            \/ Exists(ReleaseOrderEffect(o))
        BY <2>5, <3>1, <3>2 DEF LinkAgrees, Live
      <3>4. HeldFor(o) # {}
        BY <1>4, <2>5, <3>1 DEF HeldFor
      <3> QED
        BY <1>1, <1>3, <3>3, <3>4, EffectNames DEF DoneEffectsHold
    <2> QED
      BY <2>1, <2>2, <2>3, <2>4, <2>5 DEF Accounted
  <1> QED
    BY <1>4 DEF HeldStockHasAnOwner

(* drainInventoryEffects and the catch of processUnlocked: until an object *)
(* is evicted, stock that is held belongs to the update at work, to a live *)
(* order, or to an effect that is going to return it.                      *)
THEOREM HeldStockIsOwned ==
    Spec => [](faults.crash = 0 => HeldStockHasAnOwner)
  <1>1. StockSessionInv => (faults.crash = 0 => HeldStockHasAnOwner)
    BY HeldIsOwned
  <1> QED
    BY <1>1, StockSessionInvariant, PTL

(* Whatever crashes, fails or is repeated, no two orders ever rest on the  *)
(* same reservation, so the stock of one is never given back with another. *)
THEOREM ReservationsAreNotShared ==
    Spec => [](\A o, other \in OrderIds :
                  links[o] # NoUpdate /\ links[other] = links[o]
                      => other = o)
  <1>1. StockSessionInv => \A o, other \in OrderIds :
                              links[o] # NoUpdate /\ links[other] = links[o]
                                  => other = o
    BY DEF StockSessionInv, StockAgreement, LinkAgrees
  <1> QED
    BY <1>1, StockSessionInvariant, PTL

(* As long as no object has been evicted, no transaction of a chat aborted *)
(* and no order confirmed by typing, every live order holds all it         *)
(* contains, in a reservation of its own.                                  *)
LEMMA LiveAreBacked ==
    ASSUME StockSessionInv, Undisturbed
    PROVE  LiveOrdersAreBacked
  <1>1. ASSUME NEW o \in OrderIds,
               orders[o].status \in {"AWAITING_PAYMENT", "PAID"}
        PROVE  /\ links[o] # NoUpdate
               /\ \A other \in OrderIds : links[other] = links[o] => other = o
               /\ \A p \in Products :
                     HeldQuantity(reservations[links[o]][p])
                         = orders[o].items[p]
    <2>1. Backed(o) /\ LinkAgrees(o)
      BY DEF StockSessionInv, StockAgreement
    <2> QED
      BY <1>1, <2>1 DEF Backed, LinkAgrees, Live
  <1> QED
    BY <1>1 DEF LiveOrdersAreBacked

(* reserveInventory and the links: until an object is evicted, a           *)
(* transaction aborts or an order is confirmed by typing, every live order *)
(* has in a reservation of its own all it contains.                        *)
THEOREM UndisturbedOrdersAreBacked ==
    Spec => [](Undisturbed => LiveOrdersAreBacked)
  <1>1. StockSessionInv => (Undisturbed => LiveOrdersAreBacked)
    BY LiveAreBacked
  <1> QED
    BY <1>1, StockSessionInvariant, PTL

(* At rest nothing but live orders holds stock ...                         *)
LEMMA OnlyLiveOrdersHold ==
    ASSUME StockSessionInv, Undisturbed, AtRest, NEW u \in Updates,
           \A o \in LiveOrders : links[o] # u
    PROVE  \A p \in Products : HeldQuantity(reservations[u][p]) = 0
  <1>1. HeldStockHasAnOwner
    BY HeldIsOwned DEF Undisturbed
  <1>2. \A c \in Customers : handler[c].update # u
    BY TelegramSessionAssumption
    DEF AtRest, IdleHandler, TelegramSessionAssumption
  <1>3. HeldOf(u) = {}
    BY <1>1, <1>2 DEF HeldStockHasAnOwner, AtRest, LiveOrders
  <1> QED
    BY <1>3 DEF HeldOf, HeldQuantity

(* ... and every live order holds its items, so the sum over the           *)
(* reservations that StockConserved speaks of is the sum over live orders. *)
LEMMA RestIsBalanced ==
    ASSUME StockSessionInv, Undisturbed, AtRest, NEW p \in Stocked
    PROVE  remaining[p] + SumFunctionOnSet(
               [o \in OrderIds |-> orders[o].items[p]], LiveOrders)
           = InitialStock[p]
  <1> DEFINE f == [u \in Updates |-> HeldQuantity(reservations[u][p])]
             g == [o \in OrderIds |-> orders[o].items[p]]
  <1>1. p \in Products
    BY TelegramSessionAssumption DEF TelegramSessionAssumption
  <1>2. IsFiniteSet(Updates) /\ IsFiniteSet(LiveOrders)
    <2>1. LiveOrders \subseteq OrderIds
      BY DEF LiveOrders
    <2> QED
      BY <2>1, FS_Subset, TelegramSessionAssumption
      DEF TelegramSessionAssumption
  <1>3. \A u \in Updates : f[u] \in Nat
    BY <1>1, InvGives, HoldingIsNatural DEF Holding
  <1>4. \A o \in LiveOrders :
            /\ links[o] \in Updates
            /\ \A other \in OrderIds : links[other] = links[o] => other = o
            /\ HeldQuantity(reservations[links[o]][p]) = orders[o].items[p]
    <2>1. LiveOrdersAreBacked
      BY LiveAreBacked
    <2>2. links \in [OrderIds -> Updates \cup {NoUpdate}]
      BY InvGives DEF LogTypes
    <2> QED
      BY <1>1, <2>1, <2>2 DEF LiveOrders, LiveOrdersAreBacked
  <1>5. \A o \in LiveOrders : links[o] \in Updates /\ g[o] = f[links[o]]
    BY <1>4 DEF LiveOrders
  <1>6. \A o, x \in LiveOrders : links[o] = links[x] => o = x
    BY <1>4 DEF LiveOrders
  <1>7. \A u \in Updates : (\A o \in LiveOrders : links[o] # u) => f[u] = 0
    BY <1>1, OnlyLiveOrdersHold
  <1>8. remaining[p] + SumFunctionOnSet(f, Updates) = InitialStock[p]
    BY DEF StockSessionInv, StockAgreement, StockConserved
  <1> HIDE DEF f, g
  <1>9. SumFunctionOnSet(g, LiveOrders) = SumFunctionOnSet(f, Updates)
    BY <1>2, <1>3, <1>5, <1>6, <1>7, SumRenamed, SMTT(30)
  <1>10. remaining[p] + SumFunctionOnSet(g, LiveOrders) = InitialStock[p]
    BY <1>8, <1>9
  <1> QED
    BY <1>10 DEF g

(* confirm_order, the payment decisions and drainInventoryEffects together *)
(* lose, leak and oversell nothing: as long as no object was evicted, no   *)
(* transaction aborted and no order was confirmed by typing, the stock of  *)
(* the day is, at rest, what remains and what live orders contain.         *)
THEOREM UndisturbedBooksBalance ==
    Spec => [](Undisturbed => BooksBalanceAtRest)
  <1>1. StockSessionInv => (Undisturbed => BooksBalanceAtRest)
    BY RestIsBalanced DEF BooksBalanceAtRest
  <1> QED
    BY <1>1, StockSessionInvariant, PTL

-----------------------------------------------------------------------------
(* One order per confirmation.                                             *)

PlacedOrders  == {o \in OrderIds : orders[o].status # "NONE"}
Confirmations == {u \in processed : inbox[u].message.action = "confirm_order"}

AnsweredWereDelivered == \A u \in processed : inbox[u] # NoUpdate

ConfirmationInv ==
    StockSessionInv /\ AnsweredWereDelivered /\ OneOrderPerConfirmation

LEMMA AnswersStayDelivered ==
    ASSUME StockSessionInv, SessionMoves, SessionTypes', AnsweredWereDelivered
    PROVE  /\ AnsweredWereDelivered'
           /\ Confirmations \subseteq Confirmations'
  <1>0. /\ processed \subseteq Updates /\ processed' \subseteq Updates
        /\ \A c \in Customers : HandlerAgrees(c)
        /\ \A u \in Updates : InboxMoves(u) /\ ProcessedMoves(u)
    BY InvGives DEF LogTypes, SessionTypes, SessionMoves
  <1>1. \A u \in processed : u \in processed' /\ inbox'[u] = inbox[u]
    BY <1>0, AnsweredStay DEF InboxMoves, AnsweredWereDelivered
  <1>2. ASSUME NEW u \in processed' PROVE inbox'[u] # NoUpdate
    <2>1. CASE u \in processed
      BY <1>1, <2>1 DEF AnsweredWereDelivered
    <2>2. CASE u \notin processed
      <3>1. PICK c \in Customers :
                handler[c].update = u
                    /\ handler[c].step \in {"apologise", "transact"}
        BY <1>0, <2>2 DEF ProcessedMoves
      <3>2. inbox[u] # NoUpdate
        BY <1>0, <3>1 DEF HandlerAgrees
      <3> QED
        BY <1>0, <3>2 DEF InboxMoves
    <2> QED
      BY <2>1, <2>2
  <1>3. Confirmations \subseteq Confirmations'
    BY <1>1 DEF Confirmations
  <1> QED
    BY <1>2, <1>3 DEF AnsweredWereDelivered

(* An order placed is a new confirmation answered. *)
LEMMA PlacingConfirms ==
    ASSUME StockSessionInv, SessionMoves, NEW c \in Customers,
           NEW o \in OrderIds, Places(c, o)
    PROVE  /\ PlacedOrders' = PlacedOrders \cup {o}
           /\ \E u \in Confirmations' : u \notin Confirmations
  <1>1. HandlerAgrees(c)
    BY InvGives
  <1>2. PlacedOrders' = PlacedOrders \cup {o}
    <2>1. orders'[o].status # "NONE"
      BY DEF Places
    <2>2. \A p \in OrderIds \ {o} : orders'[p] = orders[p]
      BY DEF Places
    <2> QED
      BY <2>1, <2>2 DEF PlacedOrders
  <1>3. PICK u \in Updates :
            /\ u = handler[c].update /\ u \notin processed /\ u \in processed'
            /\ inbox[u] # NoUpdate
            /\ inbox[u].message.action = "confirm_order"
    BY <1>1 DEF Places, HandlerAgrees
  <1>4. inbox'[u] = inbox[u]
    BY <1>3 DEF SessionMoves, InboxMoves
  <1> QED
    BY <1>2, <1>3, <1>4 DEF Confirmations

LEMMA NothingPlaced ==
    ASSUME SessionMoves,
           \A c \in Customers, o \in OrderIds : ~Places(c, o)
    PROVE  PlacedOrders' = PlacedOrders
  <1>1. \A o \in OrderIds :
            orders'[o].status # "NONE" <=> orders[o].status # "NONE"
    BY DEF SessionMoves, OrderMoves, Closed
  <1> QED
    BY <1>1 DEF PlacedOrders

LEMMA StepKeepsConfirmations ==
    ASSUME ConfirmationInv, [Next]_vars
    PROVE  AnsweredWereDelivered' /\ OneOrderPerConfirmation'
  <1>1. StockSessionInv /\ SessionMoves /\ SessionTypes' /\ LogTypes
    BY EveryStepMoves, StepsAreMoves, InvGives DEF ConfirmationInv
  <1>2. AnsweredWereDelivered' /\ Confirmations \subseteq Confirmations'
    BY <1>1, AnswersStayDelivered DEF ConfirmationInv
  <1>3. /\ IsFiniteSet(PlacedOrders) /\ IsFiniteSet(Confirmations)
        /\ IsFiniteSet(Confirmations')
    <2>1. /\ PlacedOrders \subseteq OrderIds
          /\ Confirmations \subseteq Updates /\ Confirmations' \subseteq Updates
      BY <1>1 DEF PlacedOrders, Confirmations, LogTypes, SessionTypes
    <2> QED
      BY <2>1, FS_Subset, TelegramSessionAssumption
      DEF TelegramSessionAssumption
  <1>4. Cardinality(PlacedOrders) <= Cardinality(Confirmations)
    BY DEF ConfirmationInv, OneOrderPerConfirmation, PlacedOrders,
           Confirmations
  <1>5. /\ Cardinality(PlacedOrders) \in Nat
        /\ Cardinality(Confirmations) \in Nat
        /\ Cardinality(Confirmations') \in Nat
    BY <1>3, FS_CardinalityType
  <1>6. Cardinality(PlacedOrders') <= Cardinality(Confirmations')
    <2>1. ASSUME NEW c \in Customers, NEW o \in OrderIds, Places(c, o)
          PROVE  Cardinality(PlacedOrders') <= Cardinality(Confirmations')
      <3>1. PlacedOrders' = PlacedOrders \cup {o}
        BY <1>1, <2>1, PlacingConfirms
      <3>2. PICK u \in Confirmations' : u \notin Confirmations
        BY <1>1, <2>1, PlacingConfirms
      <3>3. o \notin PlacedOrders
        BY <2>1 DEF Places, PlacedOrders
      <3>4. Cardinality(PlacedOrders') = Cardinality(PlacedOrders) + 1
        BY <1>3, <3>1, <3>3, FS_AddElement
      <3>5. PICK C : C = Confirmations \cup {u}
        OBVIOUS
      <3>6. Cardinality(C) = Cardinality(Confirmations) + 1
        BY <1>3, <3>2, <3>5, FS_AddElement
      <3>7. C \subseteq Confirmations'
        BY <1>2, <3>2, <3>5
      <3>8. Cardinality(C) <= Cardinality(Confirmations')
        BY <1>3, <3>7, FS_Subset
      <3> QED
        BY <1>4, <1>5, <3>4, <3>6, <3>8
    <2>2. CASE \A c \in Customers, o \in OrderIds : ~Places(c, o)
      <3>1. PlacedOrders' = PlacedOrders
        BY <1>1, <2>2, NothingPlaced
      <3>2. Cardinality(Confirmations) <= Cardinality(Confirmations')
        BY <1>2, <1>3, FS_Subset
      <3> QED
        BY <1>4, <1>5, <3>1, <3>2
    <2> QED
      BY <2>1, <2>2
  <1> QED
    BY <1>2, <1>6
    DEF OneOrderPerConfirmation, PlacedOrders, Confirmations

LEMMA ConfirmationInvariant == Spec => []ConfirmationInv
  <1>1. Init => ConfirmationInv
    <2> SUFFICES ASSUME Init PROVE ConfirmationInv
      OBVIOUS
    <2>1. /\ \A o \in OrderIds : orders[o].status = "NONE"
          /\ processed = {}
      BY DEF Init, SessionInit, ServiceInit, UnusedOrder
    <2>2. PlacedOrders = {} /\ Confirmations = {}
      BY <2>1 DEF PlacedOrders, Confirmations
    <2>3. Cardinality(PlacedOrders) <= Cardinality(Confirmations)
      BY <2>2, FS_EmptySet
    <2> QED
      BY <2>1, <2>3, InitialStockAgreement
      DEF ConfirmationInv, AnsweredWereDelivered, OneOrderPerConfirmation,
          PlacedOrders, Confirmations
  <1>2. ConfirmationInv /\ [Next]_vars => ConfirmationInv'
    <2> SUFFICES ASSUME ConfirmationInv, [Next]_vars PROVE ConfirmationInv'
      OBVIOUS
    <2>1. StockSessionInv /\ SessionInv'
      BY StepAllowed DEF ConfirmationInv, StockSessionInv
    <2> QED
      BY <2>1, StepKeepsStockAgreement, StepKeepsConfirmations
      DEF ConfirmationInv
  <1> QED
    BY <1>1, <1>2, PTL DEF Spec

(* However often an update is delivered again, however often its handling  *)
(* is cut short, fails or races another: there are never more orders than  *)
(* confirmations answered for good.                                        *)
THEOREM NoConfirmationMakesTwoOrders == Spec => []OneOrderPerConfirmation
  <1>1. ConfirmationInv => OneOrderPerConfirmation
    BY DEF ConfirmationInv
  <1> QED
    BY <1>1, ConfirmationInvariant, PTL
=============================================================================
