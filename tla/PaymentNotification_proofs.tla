--------------------- MODULE PaymentNotification_proofs ---------------------
(***************************************************************************)
(* Theorems about PaymentNotification for any number of orders, requests,  *)
(* failed sends, lost answers and evictions: what the customer hears and   *)
(* what the staff are answered is what was decided, and work that remains  *)
(* has an alarm or a handler that will set one.                            *)
(***************************************************************************)
EXTENDS PaymentNotification, FiniteSetTheorems, TLAPS

-----------------------------------------------------------------------------
(* The inductive invariant.                                                *)

(* Order, message and customer: a message exists once the order is         *)
(* decided, and is about that decision.                                    *)
OrderAgrees(o) ==
    /\ outbox[o].state = "none" <=> order[o] \notin Decisions
    /\ order[o] \in Decisions => outbox[o].kind = order[o]
    /\ \A k \in Decisions : told[o][k] > 0 => order[o] = k
    /\ outbox[o].state = "delivered" => told[o][order[o]] > 0

(* A handler that flushes, or is about to, has a decided order.            *)
WorkAgrees(h) ==
    LET r == handler[h] IN
    /\ r.step \in {"draining", "flushing", "sending", "received"} =>
           r.order \in Orders
    /\ \/ r.step \in {"flushing", "sending", "received"}
       \/ r.step = "draining" /\ r.delivery = "pending"
       => order[r.order] \in Decisions
    /\ r.step = "received" => told[r.order][order[r.order]] > 0

(* What a request knows, and will answer, is so.                           *)
CallAgrees(c) ==
    LET r == handler[c] IN
    /\ r.step \notin {"waking", "looking"}
    /\ r.step = "idle" => r = Idle
    /\ r.step # "idle" => /\ r.order \in Orders /\ r.action \in Decisions
                          /\ order[r.order] # "NONE"
    /\ r.step = "asked" => r.outcome = "none" /\ r.delivery = "none"
    /\ r.step \notin {"idle", "asked"} => r.outcome # "none"
    /\ r.outcome = "resolved" =>
           order[r.order] = r.action /\ r.delivery # "none"
    /\ r.outcome = "already_resolved" => order[r.order] # "AWAITING_PAYMENT"
    /\ r.delivery = "delivered" =>
           order[r.order] \in Decisions /\ told[r.order][order[r.order]] > 0

Agreement ==
    /\ TypeOK
    /\ \A o \in Orders : OrderAgrees(o)
    /\ \A h \in Handlers : WorkAgrees(h)
    /\ \A c \in Calls : CallAgrees(c)
    /\ handler[Alarm].step # "asked"

-----------------------------------------------------------------------------
(* What is decided stays so, and what was heard stays heard.               *)

Grows(o) ==
    /\ order[o] # "NONE" => order'[o] # "NONE"
    /\ order[o] \notin {"NONE", "AWAITING_PAYMENT"} => order'[o] = order[o]
    /\ \A k \in Decisions : told[o][k] > 0 => told'[o][k] > 0

LEMMA HandlerIsOne == \A h \in Handlers : h \in Calls <=> h # Alarm
  BY PaymentAssumption DEF PaymentAssumption, Handlers

LEMMA NothingGrows ==
    ASSUME UNCHANGED <<order, told>>
    PROVE  \A o \in Orders : Grows(o)
  BY DEF Grows

(* A handler that does not move.                                           *)
LEMMA WorkKept ==
    ASSUME Agreement, \A o \in Orders : Grows(o),
           NEW h \in Handlers, handler'[h] = handler[h]
    PROVE  WorkAgrees(h)'
  <1>1. WorkAgrees(h)
    BY DEF Agreement
  <1>2. \A o \in Orders : order[o] \in Decisions => order'[o] = order[o]
    BY DEF Grows, Decisions
  <1> QED
    BY <1>1, <1>2 DEF WorkAgrees, Grows, Decisions

LEMMA CallKept ==
    ASSUME Agreement, \A o \in Orders : Grows(o),
           NEW c \in Calls, handler'[c] = handler[c]
    PROVE  CallAgrees(c)'
  <1>1. CallAgrees(c)
    BY DEF Agreement
  <1>2. \A o \in Orders : order[o] \in Decisions => order'[o] = order[o]
    BY DEF Grows, Decisions
  <1>3. CASE handler[c].step = "idle"
    BY <1>1, <1>3 DEF CallAgrees, Idle
  <1>4. CASE handler[c].step # "idle"
    <2> DEFINE o == handler[c].order
    <2>1. o \in Orders /\ order[o] # "NONE" /\ Grows(o)
      BY <1>1, <1>4 DEF CallAgrees
    <2>2. order[o] # "AWAITING_PAYMENT" => order'[o] = order[o]
      BY <2>1 DEF Grows
    <2>3. handler[c].outcome = "resolved" => order'[o] = handler[c].action
      BY <1>1, <2>1, <1>2, <2>2, <1>4 DEF CallAgrees, Decisions
    <2> QED
      BY <1>1, <1>2, <1>4, <2>1, <2>2, <2>3 DEF CallAgrees, Grows, Decisions
  <1> QED
    BY <1>3, <1>4

(* A step of one handler.                                                  *)
LEMMA OneHandlerMoves ==
    ASSUME Agreement, \A o \in Orders : Grows(o), NEW h \in Handlers,
           \A g \in Handlers \ {h} : handler'[g] = handler[g],
           WorkAgrees(h)', h \in Calls => CallAgrees(h)',
           h = Alarm => handler'[h].step # "asked"
    PROVE  /\ \A g \in Handlers : WorkAgrees(g)'
           /\ \A c \in Calls : CallAgrees(c)'
           /\ handler'[Alarm].step # "asked"
  <1>1. ASSUME NEW g \in Handlers
        PROVE  WorkAgrees(g)'
    BY <1>1, WorkKept
  <1>2. ASSUME NEW c \in Calls
        PROVE  CallAgrees(c)'
    BY <1>2, CallKept DEF Handlers
  <1>3. handler'[Alarm].step # "asked"
    BY DEF Agreement, Handlers
  <1> QED
    BY <1>1, <1>2, <1>3

LEMMA NoHandlerMoves ==
    ASSUME Agreement, \A o \in Orders : Grows(o), UNCHANGED handler
    PROVE  /\ \A g \in Handlers : WorkAgrees(g)'
           /\ \A c \in Calls : CallAgrees(c)'
           /\ handler'[Alarm].step # "asked"
  BY WorkKept, CallKept DEF Agreement, Handlers

LEMMA OrderKept ==
    ASSUME NEW o \in Orders, OrderAgrees(o), order'[o] = order[o],
           outbox'[o] = outbox[o], told'[o] = told[o]
    PROVE  OrderAgrees(o)'
  BY DEF OrderAgrees

HandlerSteps == {"idle", "asked", "draining", "flushing", "sending",
                 "received", "waking", "looking", "answered"}

LEMMA MoveTypes ==
    ASSUME TypeOK, NEW h \in Handlers, NEW r \in Handler,
           handler' = [handler EXCEPT ![h] = r]
    PROVE  /\ handler' \in [Handlers -> Handler]
           /\ handler'[h] = r
           /\ \A g \in Handlers \ {h} : handler'[g] = handler[g]
  BY DEF TypeOK

(* A handler that keeps what it knows, and goes to another step.           *)
LEMMA StepTypes ==
    ASSUME TypeOK, NEW h \in Handlers, NEW s \in HandlerSteps,
           handler' = [handler EXCEPT ![h].step = s]
    PROVE  /\ handler' \in [Handlers -> Handler]
           /\ handler'[h] = [handler[h] EXCEPT !.step = s]
           /\ \A g \in Handlers \ {h} : handler'[g] = handler[g]
  <1> DEFINE r == [handler[h] EXCEPT !.step = s]
  <1>1. handler[h] \in Handler /\ handler \in [Handlers -> Handler]
    BY DEF TypeOK
  <1>2. r \in Handler
    BY <1>1 DEF Handler, HandlerSteps
  <1>3. handler' = [handler EXCEPT ![h] = r]
    OBVIOUS
  <1> HIDE DEF r
  <1>4. /\ handler' \in [Handlers -> Handler]
        /\ handler'[h] = r
        /\ \A g \in Handlers \ {h} : handler'[g] = handler[g]
    BY <1>2, <1>3, MoveTypes
  <1> QED
    BY <1>4 DEF r

LEMMA EndTypes ==
    ASSUME TypeOK, NEW h \in Handlers, NEW s \in HandlerSteps,
           NEW d \in {"none", "pending", "delivered"},
           handler' = [handler EXCEPT ![h].step = s, ![h].delivery = d]
    PROVE  /\ handler' \in [Handlers -> Handler]
           /\ handler'[h].step = s /\ handler'[h].order = handler[h].order
           /\ handler'[h].action = handler[h].action
           /\ handler'[h].outcome = handler[h].outcome
           /\ handler'[h].delivery = d
           /\ \A g \in Handlers \ {h} : handler'[g] = handler[g]
  <1> DEFINE r == [handler[h] EXCEPT !.step = s, !.delivery = d]
  <1>1. handler[h] \in Handler /\ handler \in [Handlers -> Handler]
    BY DEF TypeOK
  <1>2. /\ r \in Handler /\ r.step = s /\ r.delivery = d
        /\ r.order = handler[h].order /\ r.action = handler[h].action
        /\ r.outcome = handler[h].outcome
    BY <1>1 DEF Handler, HandlerSteps
  <1>3. handler' = [handler EXCEPT ![h] = r]
    BY <1>1
  <1> HIDE DEF r
  <1>4. /\ handler' \in [Handlers -> Handler]
        /\ handler'[h] = r
        /\ \A g \in Handlers \ {h} : handler'[g] = handler[g]
    BY <1>2, <1>3, MoveTypes
  <1> QED
    BY <1>2, <1>4

(* The handlers of a kind are finitely many.                               *)
LEMMA HandlersFinite == IsFiniteSet(Handlers)
  BY PaymentAssumption, FS_AddElement DEF PaymentAssumption, Handlers

LEMMA SubsetCounted ==
    ASSUME NEW S \in SUBSET Handlers
    PROVE  IsFiniteSet(S) /\ Cardinality(S) \in Nat
  BY HandlersFinite, FS_Subset, FS_CardinalityType

LEMMA IdleTypes == Idle \in Handler
  BY DEF Idle, Handler

LEMMA AlarmTypes ==
    ASSUME NEW obx, NEW ord, SetAlarm(obx, ord)
    PROVE  alarm' \in BOOLEAN
  BY Zenon DEF SetAlarm

LEMMA FaultTypes ==
    ASSUME TypeOK, Fails
    PROVE  faults' \in Nat
  BY DEF TypeOK, Fails

-----------------------------------------------------------------------------
(* Each step keeps the agreement.                                          *)

LEMMA InitAgrees == Init => Agreement
  <1> SUFFICES ASSUME Init PROVE Agreement
    OBVIOUS
  <1>1. TypeOK
    BY IdleTypes DEF Init, TypeOK, Statuses, Outbox, Decisions
  <1>2. handler = [h \in Handlers |-> Idle]
    BY DEF Init
  <1> QED
    BY <1>1, <1>2
    DEF Init, Agreement, OrderAgrees, WorkAgrees, CallAgrees, Idle, Handlers,
        Decisions

(* The chat places or cancels an order.                                    *)
LEMMA ChatOrders ==
    ASSUME Agreement, NEW o \in Orders, Place(o) \/ Cancel(o)
    PROVE  Agreement'
  <1>1. PICK s \in {"AWAITING_PAYMENT", "CANCELLED"} :
            /\ order' = [order EXCEPT ![o] = s]
            /\ order[o] = IF s = "CANCELLED" THEN "AWAITING_PAYMENT"
                                             ELSE "NONE"
            /\ chat' = "draining"
            /\ UNCHANGED <<outbox, alarm, handler, calls, told, again, faults>>
    BY DEF Place, Cancel
  <1>2. order \in [Orders -> Statuses] /\ s \in Statuses
    BY DEF Agreement, TypeOK, Statuses
  <1>3. TypeOK'
    BY <1>1, <1>2 DEF Agreement, TypeOK
  <1>4. order'[o] = s /\ \A p \in Orders \ {o} : order'[p] = order[p]
    BY <1>1, <1>2
  <1>5. \A p \in Orders : Grows(p)
    BY <1>1, <1>4 DEF Grows
  <1>6. ASSUME NEW p \in Orders
        PROVE  OrderAgrees(p)'
    BY <1>1, <1>4 DEF Agreement, OrderAgrees, Decisions
  <1> QED
    BY <1>1, <1>3, <1>5, <1>6, NoHandlerMoves DEF Agreement

(* Steps of the chat that change no order.                                 *)
LEMMA ChatGoesOn ==
    ASSUME Agreement, ChatSchedules \/ Redeliver
    PROVE  Agreement'
  <1>1. TypeOK'
    BY AlarmTypes DEF Agreement, TypeOK, ChatSchedules, Redeliver
  <1>2. UNCHANGED <<order, outbox, handler, told>>
    BY DEF ChatSchedules, Redeliver
  <1>3. \A p \in Orders : Grows(p)
    BY <1>2, NothingGrows
  <1>4. \A p \in Orders : OrderAgrees(p)'
    BY <1>2, OrderKept DEF Agreement
  <1> QED
    BY <1>1, <1>2, <1>3, <1>4, NoHandlerMoves DEF Agreement

(* A decision and its message.                                             *)
LEMMA DecideAgrees ==
    ASSUME Agreement, NEW o \in Orders, NEW k \in Decisions,
           order[o] = "AWAITING_PAYMENT", DecideOrder(o, k), UNCHANGED told
    PROVE  /\ order' \in [Orders -> Statuses]
           /\ outbox' \in [Orders -> Outbox]
           /\ order'[o] = k
           /\ \A p \in Orders : Grows(p)
           /\ \A p \in Orders : OrderAgrees(p)'
  <1> DEFINE m == [state |-> "new", kind |-> k]
  <1>1. order \in [Orders -> Statuses] /\ outbox \in [Orders -> Outbox]
           /\ k \in Statuses /\ m \in Outbox
    BY DEF Agreement, TypeOK, Statuses, Outbox
  <1>2. /\ order' = [order EXCEPT ![o] = k]
        /\ outbox' = [outbox EXCEPT ![o] = m]
    BY DEF DecideOrder
  <1>3. /\ order' \in [Orders -> Statuses] /\ outbox' \in [Orders -> Outbox]
        /\ order'[o] = k /\ outbox'[o] = m
        /\ \A p \in Orders \ {o} :
              order'[p] = order[p] /\ outbox'[p] = outbox[p]
    <2> HIDE DEF m
    <2> QED
      BY <1>1, <1>2
  <1>4. \A p \in Orders : Grows(p)
    BY <1>3 DEF Grows, Decisions
  <1>5. OrderAgrees(o)'
    <2>1. \A j \in Decisions : ~(told[o][j] > 0)
      BY DEF Agreement, OrderAgrees, Decisions
    <2> QED
      BY <1>3, <2>1 DEF OrderAgrees, Decisions
  <1>6. ASSUME NEW p \in Orders \ {o}
        PROVE  OrderAgrees(p)'
    BY <1>3, OrderKept DEF Agreement
  <1> QED
    BY <1>3, <1>4, <1>5, <1>6

(* Steps of one handler that change no order and no message.               *)
LEMMA HandlerGoesOn ==
    ASSUME Agreement, NEW h \in Handlers,
           handler' \in [Handlers -> Handler],
           \A g \in Handlers \ {h} : handler'[g] = handler[g],
           WorkAgrees(h)', h \in Calls => CallAgrees(h)',
           h = Alarm => handler'[h].step # "asked",
           UNCHANGED <<order, outbox, chat, told, faults>>,
           alarm' \in BOOLEAN, calls' \in Nat, again' \in [Orders -> Nat]
    PROVE  Agreement'
  <1>1. TypeOK'
    BY DEF Agreement, TypeOK
  <1>2. \A p \in Orders : Grows(p)
    BY NothingGrows
  <1>3. \A p \in Orders : OrderAgrees(p)'
    BY OrderKept DEF Agreement
  <1> QED
    BY <1>1, <1>2, <1>3, OneHandlerMoves DEF Agreement

LEMMA DrainEndsAgrees ==
    ASSUME Agreement, NEW h \in Handlers, DrainEnds(h)
    PROVE  Agreement'
  <1> DEFINE s == IF handler[h].delivery = "pending" THEN "flushing"
                                                     ELSE "answered"
  <1>1. TypeOK /\ s \in HandlerSteps
    BY DEF Agreement, HandlerSteps
  <1>2. handler' = [handler EXCEPT ![h].step = s]
    BY DEF DrainEnds
  <1>3. /\ handler' \in [Handlers -> Handler]
        /\ handler'[h] = [handler[h] EXCEPT !.step = s]
        /\ \A g \in Handlers \ {h} : handler'[g] = handler[g]
    <2> HIDE DEF s
    <2> QED
      BY <1>1, <1>2, StepTypes
  <1>4. handler[h].step = "draining" /\ handler[h] \in Handler
           /\ UNCHANGED <<order, outbox, chat, told, faults, calls, again>>
           /\ alarm' \in BOOLEAN
    BY <1>1, AlarmTypes DEF DrainEnds, TypeOK
  <1>5. /\ handler'[h].step = s /\ handler'[h].order = handler[h].order
        /\ handler'[h].action = handler[h].action
        /\ handler'[h].outcome = handler[h].outcome
        /\ handler'[h].delivery = handler[h].delivery
    BY <1>3, <1>4 DEF Handler
  <1>6. WorkAgrees(h)'
    BY <1>4, <1>5 DEF Agreement, WorkAgrees
  <1>7. h \in Calls => CallAgrees(h)'
    BY <1>4, <1>5 DEF Agreement, CallAgrees
  <1>8. calls' \in Nat /\ again' \in [Orders -> Nat] /\ s # "asked"
    BY <1>1, <1>4 DEF TypeOK
  <1> HIDE DEF s
  <1> QED
    BY <1>3, <1>4, <1>5, <1>6, <1>7, <1>8, HandlerGoesOn

LEMMA AgainTypes ==
    ASSUME TypeOK, NEW o \in Orders, NEW n \in Nat,
           again' = [again EXCEPT ![o] = @ + n]
    PROVE  again' \in [Orders -> Nat]
  BY DEF TypeOK

(* The flush of a pending message begins.                                  *)
LEMMA BeginSendingAgrees ==
    ASSUME Agreement, NEW h \in Handlers, NEW o \in Orders, Pending(o),
           handler[h].step \in {"flushing", "waking"},
           handler[h].step = "flushing" => o = handler[h].order,
           BeginSending(h, o),
           UNCHANGED <<order, outbox, chat, told, faults, calls>>,
           alarm' \in BOOLEAN
    PROVE  Agreement'
  <1> DEFINE n == IF \E g \in Handlers : InFlush(g, o) THEN 1 ELSE 0
             r == [handler[h] EXCEPT !.step = "sending", !.order = o]
  <1>1. TypeOK /\ handler[h] \in Handler /\ n \in Nat
    BY DEF Agreement, TypeOK
  <1>2. r \in Handler
    BY <1>1 DEF Handler
  <1>3. handler' = [handler EXCEPT ![h] = r]
    BY <1>1 DEF BeginSending, TypeOK, Handler
  <1>4. again' = [again EXCEPT ![o] = @ + n]
    BY DEF BeginSending
  <1>5. again' \in [Orders -> Nat]
    <2> HIDE DEF n
    <2> QED
      BY <1>1, <1>4, AgainTypes
  <1>6. /\ handler' \in [Handlers -> Handler]
        /\ handler'[h] = r
        /\ \A g \in Handlers \ {h} : handler'[g] = handler[g]
    <2> HIDE DEF r
    <2> QED
      BY <1>1, <1>2, <1>3, MoveTypes
  <1>7. /\ handler'[h].step = "sending" /\ handler'[h].order = o
        /\ handler'[h].action = handler[h].action
        /\ handler'[h].outcome = handler[h].outcome
        /\ handler'[h].delivery = handler[h].delivery
    BY <1>1, <1>6 DEF Handler
  <1>8. order[o] \in Decisions
    BY DEF Agreement, OrderAgrees, Pending
  <1>9. WorkAgrees(h)'
    BY <1>7, <1>8 DEF WorkAgrees
  <1>10. h \in Calls => CallAgrees(h)'
    BY <1>7 DEF Agreement, CallAgrees
  <1>11. calls' \in Nat
    BY <1>1 DEF TypeOK
  <1> QED
    BY <1>5, <1>6, <1>7, <1>9, <1>10, <1>11, HandlerGoesOn

(* The flush is over for the handler, with the message delivered or not.   *)
LEMMA FlushEndsAgrees ==
    ASSUME Agreement, NEW h \in Handlers,
           NEW d \in {"pending", "delivered"},
           handler[h].step \in {"flushing", "sending", "received"},
           handler' = [handler EXCEPT ![h].step = AfterFlush(h),
                                      ![h].delivery = d],
           d = "delivered" =>
               told[handler[h].order][order[handler[h].order]] > 0,
           UNCHANGED <<order, told>>
    PROVE  /\ handler' \in [Handlers -> Handler]
           /\ \A g \in Handlers : WorkAgrees(g)'
           /\ \A c \in Calls : CallAgrees(c)'
           /\ handler'[Alarm].step # "asked"
  <1> DEFINE s == AfterFlush(h)
  <1>1. TypeOK /\ handler \in [Handlers -> Handler]
    BY DEF Agreement, TypeOK
  <1>2. s \in {"looking", "answered"} /\ (h \in Calls => s = "answered")
    BY HandlerIsOne DEF AfterFlush
  <1>3. handler' = [handler EXCEPT ![h].step = s, ![h].delivery = d]
    OBVIOUS
  <1> HIDE DEF s
  <1>4. s \in HandlerSteps /\ d \in {"none", "pending", "delivered"}
    BY <1>2 DEF HandlerSteps
  <1>5. /\ handler' \in [Handlers -> Handler]
        /\ handler'[h].step = s /\ handler'[h].order = handler[h].order
        /\ handler'[h].action = handler[h].action
        /\ handler'[h].outcome = handler[h].outcome
        /\ handler'[h].delivery = d
        /\ \A g \in Handlers \ {h} : handler'[g] = handler[g]
    BY <1>1, <1>3, <1>4, EndTypes
  <1>6. WorkAgrees(h)'
    BY <1>2, <1>5 DEF WorkAgrees
  <1>7. order[handler[h].order] \in Decisions
    BY DEF Agreement, WorkAgrees
  <1>8. h \in Calls => CallAgrees(h)'
    BY <1>2, <1>5, <1>7 DEF Agreement, CallAgrees
  <1> QED
    BY <1>2, <1>5, <1>6, <1>8, NothingGrows, OneHandlerMoves

LEMMA FlushReadsAgrees ==
    ASSUME Agreement, NEW h \in Handlers, FlushReads(h)
    PROVE  Agreement'
  <1> DEFINE o == handler[h].order
  <1>1. handler[h].step = "flushing"
           /\ UNCHANGED <<order, outbox, chat, calls, told, faults>>
    BY DEF FlushReads
  <1>2. o \in Orders /\ order[o] \in Decisions /\ OrderAgrees(o)
           /\ outbox[o] \in Outbox
    BY <1>1 DEF Agreement, WorkAgrees, TypeOK
  <1>3. CASE Pending(o)
    <2>1. BeginSending(h, o) /\ UNCHANGED alarm
      BY <1>3 DEF FlushReads
    <2>2. alarm' \in BOOLEAN
      BY <2>1 DEF Agreement, TypeOK
    <2> QED
      BY <1>1, <1>2, <1>3, <2>1, <2>2, BeginSendingAgrees
  <1>4. CASE ~Pending(o)
    <2>1. /\ handler' = [handler EXCEPT ![h].step = AfterFlush(h),
                                        ![h].delivery = "delivered"]
          /\ SetAlarm(outbox, order) /\ UNCHANGED again
      BY <1>4 DEF FlushReads
    <2>2. told[o][order[o]] > 0
      BY <1>2, <1>4 DEF Pending, OrderAgrees, Outbox
    <2>3. /\ handler' \in [Handlers -> Handler]
          /\ \A g \in Handlers : WorkAgrees(g)'
          /\ \A c \in Calls : CallAgrees(c)'
          /\ handler'[Alarm].step # "asked"
      BY <1>1, <2>1, <2>2, FlushEndsAgrees
    <2>4. \A p \in Orders : OrderAgrees(p)'
      BY <1>1, OrderKept DEF Agreement
    <2> QED
      BY <1>1, <2>1, <2>3, <2>4, AlarmTypes DEF Agreement, TypeOK
  <1> QED
    BY <1>3, <1>4

(* The customer hears of o once more.                                      *)
LEMMA ToldTypes ==
    ASSUME told \in [Orders -> [Decisions -> Nat]],
           NEW o \in Orders, NEW k \in Decisions,
           told' = [told EXCEPT ![o][k] = @ + 1]
    PROVE  /\ told' \in [Orders -> [Decisions -> Nat]]
           /\ told'[o][k] = told[o][k] + 1
           /\ \A j \in Decisions \ {k} : told'[o][j] = told[o][j]
           /\ \A p \in Orders \ {o} : told'[p] = told[p]
  <1>1. told[o] \in [Decisions -> Nat] /\ told[o][k] \in Nat
    OBVIOUS
  <1>2. [told[o] EXCEPT ![k] = told[o][k] + 1] \in [Decisions -> Nat]
    BY <1>1
  <1>3. told' = [told EXCEPT ![o] = [told[o] EXCEPT ![k] = told[o][k] + 1]]
    BY <1>1
  <1> QED
    BY <1>1, <1>2, <1>3

LEMMA ReceiveAgrees ==
    ASSUME Agreement, NEW h \in Handlers, Receive(h)
    PROVE  Agreement'
  <1>1. handler[h].step = "sending" /\ handler[h] \in Handler /\ TypeOK
           /\ UNCHANGED <<order, outbox, alarm, chat, calls, again, faults>>
    BY DEF Receive, Agreement, TypeOK
  <1>2. PICK o \in Orders, k \in Decisions :
            o = handler[h].order /\ k = order[o] /\ outbox[o].kind = k
    BY <1>1 DEF Agreement, WorkAgrees, OrderAgrees
  <1>3. /\ handler' \in [Handlers -> Handler]
        /\ handler'[h] = [handler[h] EXCEPT !.step = "received"]
        /\ \A g \in Handlers \ {h} : handler'[g] = handler[g]
    <2>1. handler' = [handler EXCEPT ![h].step = "received"]
             /\ "received" \in HandlerSteps
      BY DEF Receive, HandlerSteps
    <2> QED
      BY <1>1, <2>1, StepTypes
  <1>4. /\ handler'[h].step = "received" /\ handler'[h].order = o
        /\ handler'[h].action = handler[h].action
        /\ handler'[h].outcome = handler[h].outcome
        /\ handler'[h].delivery = handler[h].delivery
    BY <1>1, <1>2, <1>3 DEF Handler
  <1>5. told' = [told EXCEPT ![o][k] = @ + 1]
    BY <1>2 DEF Receive
  <1>6. told \in [Orders -> [Decisions -> Nat]]
    BY <1>1 DEF TypeOK
  <1>7. /\ told' \in [Orders -> [Decisions -> Nat]]
        /\ told'[o][k] = told[o][k] + 1
        /\ \A j \in Decisions \ {k} : told'[o][j] = told[o][j]
        /\ \A p \in Orders \ {o} : told'[p] = told[p]
    BY <1>5, <1>6, ToldTypes
  <1>8. told[o][k] \in Nat /\ told'[o][k] > 0
    BY <1>2, <1>6, <1>7
  <1>9. \A p \in Orders : Grows(p)
    BY <1>1, <1>2, <1>7, <1>8 DEF Grows
  <1>10. OrderAgrees(o)'
    <2>1. OrderAgrees(o) /\ order'[o] = k
      BY <1>1, <1>2 DEF Agreement
    <2>2. ASSUME NEW j \in Decisions, told'[o][j] > 0
          PROVE  j = k
      BY <1>2, <1>7, <2>1, <2>2 DEF OrderAgrees
    <2>3. outbox'[o] = outbox[o] /\ order[o] = k
      BY <1>1, <1>2
    <2> QED
      BY <1>2, <1>8, <2>1, <2>2, <2>3 DEF OrderAgrees
  <1>11. \A p \in Orders \ {o} : OrderAgrees(p)'
    BY <1>1, <1>7, OrderKept DEF Agreement
  <1>12. WorkAgrees(h)'
    <2>1. order'[o] = k
      BY <1>1, <1>2
    <2> QED
      BY <1>2, <1>4, <1>8, <2>1 DEF WorkAgrees
  <1>13. h \in Calls => CallAgrees(h)'
    <2>1. ASSUME h \in Calls
          PROVE  CallAgrees(h)
      BY <2>1 DEF Agreement
    <2> QED
      BY <1>1, <1>2, <1>4, <1>9, <2>1 DEF CallAgrees, Grows
  <1>14. TypeOK'
    BY <1>1, <1>3, <1>7 DEF TypeOK
  <1> QED
    <2>1. \A p \in Orders : OrderAgrees(p)'
      BY <1>10, <1>11
    <2>2. /\ \A g \in Handlers : WorkAgrees(g)'
          /\ \A c \in Calls : CallAgrees(c)'
          /\ handler'[Alarm].step # "asked"
      BY <1>3, <1>4, <1>9, <1>12, <1>13, OneHandlerMoves
    <2> QED
      BY <1>14, <2>1, <2>2 DEF Agreement

(* What becomes of a message after an attempt.                             *)
LEMMA MarkAgrees ==
    ASSUME Agreement, NEW o \in Orders, NEW s \in {"delayed", "delivered"},
           order[o] \in Decisions, outbox' = [outbox EXCEPT ![o].state = s],
           s = "delivered" => told[o][order[o]] > 0, UNCHANGED <<order, told>>
    PROVE  /\ outbox' \in [Orders -> Outbox]
           /\ \A p \in Orders : OrderAgrees(p)'
  <1>1. outbox \in [Orders -> Outbox]
    BY DEF Agreement, TypeOK
  <1>2. /\ outbox' \in [Orders -> Outbox]
        /\ outbox'[o].state = s /\ outbox'[o].kind = outbox[o].kind
        /\ \A p \in Orders \ {o} : outbox'[p] = outbox[p]
    BY <1>1 DEF Outbox
  <1>3. OrderAgrees(o)'
    BY <1>2 DEF Agreement, OrderAgrees
  <1>4. \A p \in Orders \ {o} : OrderAgrees(p)'
    BY <1>2, OrderKept DEF Agreement
  <1> QED
    BY <1>2, <1>3, <1>4

LEMMA RecordDeliveryAgrees ==
    ASSUME Agreement, NEW h \in Handlers, RecordDelivery(h)
    PROVE  Agreement'
  <1> DEFINE o == handler[h].order
  <1>1. /\ handler[h].step = "received"
        /\ outbox' = [outbox EXCEPT ![o].state = "delivered"]
        /\ handler' = [handler EXCEPT ![h].step = AfterFlush(h),
                                      ![h].delivery = "delivered"]
        /\ SetAlarm(outbox', order)
        /\ UNCHANGED <<order, chat, calls, told, again, faults>>
    BY DEF RecordDelivery
  <1>2. o \in Orders /\ order[o] \in Decisions /\ told[o][order[o]] > 0
    BY <1>1 DEF Agreement, WorkAgrees
  <1>3. /\ handler' \in [Handlers -> Handler]
        /\ \A g \in Handlers : WorkAgrees(g)'
        /\ \A c \in Calls : CallAgrees(c)'
        /\ handler'[Alarm].step # "asked"
    BY <1>1, <1>2, FlushEndsAgrees
  <1>4. outbox' \in [Orders -> Outbox] /\ \A p \in Orders : OrderAgrees(p)'
    BY <1>1, <1>2, MarkAgrees
  <1> QED
    BY <1>1, <1>3, <1>4, AlarmTypes DEF Agreement, TypeOK

(* A failed attempt changes the state of the message to delayed, or        *)
(* nothing.                                                                *)
LEMMA RecordFailureAgrees ==
    ASSUME Agreement, NEW h \in Handlers, RecordFailure(h),
           handler[h].step \in {"sending", "received"},
           UNCHANGED <<order, chat, calls, told>>,
           faults' \in Nat, again' \in [Orders -> Nat]
    PROVE  Agreement'
  <1> DEFINE o == handler[h].order
             s == IF outbox[o].state = "delivered" THEN "delivered"
                                                   ELSE "delayed"
  <1>1. /\ outbox' = [outbox EXCEPT ![o].state = s]
        /\ handler' = [handler EXCEPT ![h].step = AfterFlush(h),
                                      ![h].delivery = "pending"]
        /\ SetAlarm(outbox', order)
    <2>1. outbox \in [Orders -> Outbox] /\ o \in Orders
      BY DEF Agreement, TypeOK, WorkAgrees
    <2> QED
      BY <2>1 DEF RecordFailure, Outbox
  <1>2. o \in Orders /\ order[o] \in Decisions /\ OrderAgrees(o)
    BY DEF Agreement, WorkAgrees
  <1>3. /\ handler' \in [Handlers -> Handler]
        /\ \A g \in Handlers : WorkAgrees(g)'
        /\ \A c \in Calls : CallAgrees(c)'
        /\ handler'[Alarm].step # "asked"
    BY <1>1, FlushEndsAgrees
  <1>4. s \in {"delayed", "delivered"}
           /\ (s = "delivered" => told[o][order[o]] > 0)
    BY <1>2 DEF OrderAgrees
  <1>5. outbox' \in [Orders -> Outbox] /\ \A p \in Orders : OrderAgrees(p)'
    <2> HIDE DEF s, o
    <2> QED
      BY <1>1, <1>2, <1>4, MarkAgrees
  <1> QED
    BY <1>1, <1>3, <1>5, AlarmTypes DEF Agreement, TypeOK

LEMMA AttemptFailsAgrees ==
    ASSUME Agreement, NEW h \in Handlers, SendFails(h) \/ AnswerLost(h)
    PROVE  Agreement'
  <1>1. TypeOK /\ faults' \in Nat
    BY FaultTypes DEF Agreement, SendFails, AnswerLost
  <1>2. CASE SendFails(h)
    BY <1>1, <1>2, RecordFailureAgrees DEF SendFails, TypeOK
  <1>3. CASE AnswerLost(h)
    <2>1. handler[h].order \in Orders
      BY <1>3 DEF AnswerLost, Agreement, WorkAgrees
    <2>2. again' = [again EXCEPT ![handler[h].order] = @ + 1]
      BY <1>3 DEF AnswerLost
    <2>3. again' \in [Orders -> Nat]
      BY <1>1, <2>1, <2>2 DEF TypeOK
    <2> QED
      BY <1>1, <1>3, <2>3, RecordFailureAgrees DEF AnswerLost
  <1> QED
    BY <1>2, <1>3

(* The endpoint.                                                           *)
LEMMA AskAgrees ==
    ASSUME Agreement, NEW c \in Calls, NEW o \in Orders, NEW k \in Decisions,
           Ask(c, o, k)
    PROVE  Agreement'
  <1> DEFINE r == [Idle EXCEPT !.step = "asked", !.order = o, !.action = k]
  <1>1. TypeOK /\ c \in Handlers /\ c # Alarm
    BY HandlerIsOne DEF Agreement, Handlers
  <1>2. r.step = "asked" /\ r.order = o /\ r.action = k
           /\ r.outcome = "none" /\ r.delivery = "none"
    BY DEF Idle
  <1>3. r \in Handler
    <2>1. o \in Orders \cup {0} /\ k \in {"none"} \cup Decisions
      OBVIOUS
    <2> QED
      BY <2>1, IdleTypes DEF Handler
  <1>4. handler' = [handler EXCEPT ![c] = r] /\ order[o] # "NONE"
           /\ UNCHANGED <<order, outbox, alarm, chat, told, again, faults>>
    BY DEF Ask
  <1>5. /\ handler' \in [Handlers -> Handler]
        /\ handler'[c] = r
        /\ \A g \in Handlers \ {c} : handler'[g] = handler[g]
    <2> HIDE DEF r
    <2> QED
      BY <1>1, <1>3, <1>4, MoveTypes
  <1>6. WorkAgrees(c)' /\ CallAgrees(c)'
    <2> HIDE DEF r
    <2> QED
      BY <1>2, <1>4, <1>5 DEF WorkAgrees, CallAgrees
  <1>7. calls' \in Nat /\ again' \in [Orders -> Nat] /\ alarm' \in BOOLEAN
    BY <1>1, <1>4 DEF Ask, TypeOK
  <1> HIDE DEF r
  <1> QED
    BY <1>1, <1>4, <1>5, <1>6, <1>7, HandlerGoesOn

(* The answer has been read, or the alarm is over.                         *)
LEMMA BecomesIdle ==
    ASSUME Agreement, NEW h \in Handlers,
           handler' = [handler EXCEPT ![h] = Idle],
           UNCHANGED <<order, outbox, chat, calls, told, again, faults>>,
           alarm' \in BOOLEAN
    PROVE  Agreement'
  <1>1. TypeOK
    BY DEF Agreement
  <1>2. /\ handler' \in [Handlers -> Handler]
        /\ handler'[h] = Idle
        /\ \A g \in Handlers \ {h} : handler'[g] = handler[g]
    BY <1>1, IdleTypes, MoveTypes
  <1>3. WorkAgrees(h)' /\ CallAgrees(h)' /\ handler'[h].step # "asked"
    BY <1>2 DEF WorkAgrees, CallAgrees, Idle
  <1>4. calls' \in Nat /\ again' \in [Orders -> Nat]
    BY <1>1 DEF TypeOK
  <1> QED
    BY <1>2, <1>3, <1>4, HandlerGoesOn

LEMMA ResolvedTypes ==
    ASSUME TypeOK, NEW h \in Handlers,
           NEW t \in {"resolved", "already_resolved"},
           NEW d \in {"none", "pending", "delivered"},
           handler' = [handler EXCEPT ![h].step = "draining",
                                      ![h].outcome = t, ![h].delivery = d]
    PROVE  /\ handler' \in [Handlers -> Handler]
           /\ handler'[h].step = "draining"
           /\ handler'[h].order = handler[h].order
           /\ handler'[h].action = handler[h].action
           /\ handler'[h].outcome = t
           /\ handler'[h].delivery = d
           /\ \A g \in Handlers \ {h} : handler'[g] = handler[g]
  <1> DEFINE r == [handler[h] EXCEPT !.step = "draining",
                                    !.outcome = t, !.delivery = d]
  <1>1. handler[h] \in Handler /\ handler \in [Handlers -> Handler]
    BY DEF TypeOK
  <1>2. /\ r \in Handler /\ r.step = "draining" /\ r.delivery = d
        /\ r.order = handler[h].order /\ r.action = handler[h].action
        /\ r.outcome = t
    BY <1>1 DEF Handler
  <1>3. handler' = [handler EXCEPT ![h] = r]
    BY <1>1
  <1> HIDE DEF r
  <1>4. /\ handler' \in [Handlers -> Handler]
        /\ handler'[h] = r
        /\ \A g \in Handlers \ {h} : handler'[g] = handler[g]
    BY <1>2, <1>3, MoveTypes
  <1> QED
    BY <1>2, <1>4

LEMMA CallResolvesAgrees ==
    ASSUME Agreement, NEW c \in Calls, CallResolves(c)
    PROVE  Agreement'
  <1>1. TypeOK /\ c \in Handlers /\ c # Alarm /\ CallAgrees(c)
    BY HandlerIsOne DEF Agreement, Handlers
  <1>2. handler[c].step = "asked"
           /\ UNCHANGED <<alarm, chat, calls, told, again, faults>>
    BY DEF CallResolves
  <1>3. PICK o \in Orders, k \in Decisions :
            /\ o = handler[c].order /\ k = handler[c].action
            /\ order[o] # "NONE"
    BY <1>1, <1>2 DEF CallAgrees
  <1>4. CASE order[o] = "AWAITING_PAYMENT"
    <2>1. /\ DecideOrder(o, k)
          /\ handler' = [handler EXCEPT ![c].step = "draining",
                                        ![c].outcome = "resolved",
                                        ![c].delivery = "pending"]
      BY <1>3, <1>4 DEF CallResolves, Resolve
    <2>2. /\ handler' \in [Handlers -> Handler]
          /\ handler'[c].step = "draining" /\ handler'[c].order = o
          /\ handler'[c].action = k /\ handler'[c].outcome = "resolved"
          /\ handler'[c].delivery = "pending"
          /\ \A g \in Handlers \ {c} : handler'[g] = handler[g]
      BY <1>1, <1>3, <2>1, ResolvedTypes
    <2>3. /\ order' \in [Orders -> Statuses]
          /\ outbox' \in [Orders -> Outbox]
          /\ order'[o] = k
          /\ \A p \in Orders : Grows(p)
          /\ \A p \in Orders : OrderAgrees(p)'
      BY <1>2, <1>4, <2>1, DecideAgrees
    <2>4. WorkAgrees(c)' /\ CallAgrees(c)'
      BY <2>2, <2>3 DEF WorkAgrees, CallAgrees, Decisions
    <2>5. TypeOK'
      BY <1>1, <1>2, <2>2, <2>3 DEF TypeOK
    <2> QED
      BY <1>1, <2>2, <2>3, <2>4, <2>5, OneHandlerMoves DEF Agreement
  <1>5. CASE order[o] # "AWAITING_PAYMENT"
    <2> DEFINE d == CASE Pending(o) -> "pending"
                      [] outbox[o].state = "delivered" -> "delivered"
                      [] OTHER -> "none"
    <2>1. handler' = [handler EXCEPT ![c].step = "draining",
                                     ![c].outcome = "already_resolved",
                                     ![c].delivery = d]
             /\ UNCHANGED <<order, outbox>>
      BY <1>3, <1>5 DEF CallResolves, Resolve
    <2>2. d \in {"none", "pending", "delivered"}
      OBVIOUS
    <2>3. /\ d = "pending" => order[o] \in Decisions
          /\ d = "delivered" =>
                 order[o] \in Decisions /\ told[o][order[o]] > 0
      <3>1. OrderAgrees(o) /\ outbox[o] \in Outbox
        BY <1>1 DEF Agreement, TypeOK
      <3> QED
        BY <3>1 DEF OrderAgrees, Pending
    <2> HIDE DEF d
    <2>4. PICK e \in {"none", "pending", "delivered"} : e = d
      BY <2>2
    <2>5. /\ handler' \in [Handlers -> Handler]
          /\ handler'[c].step = "draining" /\ handler'[c].order = o
          /\ handler'[c].action = k
          /\ handler'[c].outcome = "already_resolved"
          /\ handler'[c].delivery = e
          /\ \A g \in Handlers \ {c} : handler'[g] = handler[g]
      BY <1>1, <1>3, <2>1, <2>4, ResolvedTypes
    <2>6. WorkAgrees(c)' /\ CallAgrees(c)'
      BY <1>2, <1>3, <1>5, <2>1, <2>3, <2>4, <2>5 DEF WorkAgrees, CallAgrees
    <2>7. calls' \in Nat /\ again' \in [Orders -> Nat] /\ alarm' \in BOOLEAN
      BY <1>1, <1>2 DEF TypeOK
    <2> QED
      BY <1>1, <1>2, <2>1, <2>5, <2>6, <2>7, HandlerGoesOn
  <1> QED
    BY <1>4, <1>5

(* The alarm.                                                              *)
LEMMA AlarmGoesOn ==
    ASSUME Agreement, NEW s \in {"waking", "looking", "answered"},
           handler' = [handler EXCEPT ![Alarm].step = s],
           UNCHANGED <<order, outbox, chat, calls, told, again, faults>>,
           alarm' \in BOOLEAN
    PROVE  Agreement'
  <1>1. TypeOK /\ Alarm \in Handlers /\ Alarm \notin Calls
           /\ s \in HandlerSteps
    BY PaymentAssumption
    DEF Agreement, Handlers, HandlerSteps, PaymentAssumption
  <1>2. /\ handler' \in [Handlers -> Handler]
        /\ handler'[Alarm] = [handler[Alarm] EXCEPT !.step = s]
        /\ \A g \in Handlers \ {Alarm} : handler'[g] = handler[g]
    BY <1>1, StepTypes
  <1>3. handler'[Alarm].step = s
    BY <1>1, <1>2 DEF TypeOK, Handler
  <1>4. WorkAgrees(Alarm)'
    BY <1>3 DEF WorkAgrees
  <1>5. calls' \in Nat /\ again' \in [Orders -> Nat]
    BY <1>1 DEF TypeOK
  <1> QED
    BY <1>1, <1>2, <1>3, <1>4, <1>5, HandlerGoesOn

LEMMA AlarmPicksAgrees ==
    ASSUME Agreement, NEW o \in Orders, AlarmPicks(o)
    PROVE  Agreement'
  <1>1. Alarm \in Handlers
    BY DEF Handlers
  <1> QED
    BY <1>1, BeginSendingAgrees, AlarmTypes DEF AlarmPicks

LEMMA AlarmExpiresAgrees ==
    ASSUME Agreement, NEW o \in Orders, AlarmExpires(o)
    PROVE  Agreement'
  <1> DEFINE r == [step |-> "draining", order |-> o, action |-> "EXPIRED",
                   outcome |-> "resolved", delivery |-> "pending"]
  <1>1. TypeOK /\ Alarm \in Handlers /\ Alarm \notin Calls
           /\ r \in Handler /\ "EXPIRED" \in Decisions
    BY PaymentAssumption
    DEF Agreement, Handlers, Handler, Decisions, PaymentAssumption
  <1>2. /\ order[o] = "AWAITING_PAYMENT" /\ DecideOrder(o, "EXPIRED")
        /\ handler' = [handler EXCEPT ![Alarm] = r]
        /\ UNCHANGED <<alarm, chat, calls, told, again, faults>>
    BY DEF AlarmExpires
  <1>3. /\ handler' \in [Handlers -> Handler]
        /\ handler'[Alarm] = r
        /\ \A g \in Handlers \ {Alarm} : handler'[g] = handler[g]
    <2> HIDE DEF r
    <2> QED
      BY <1>1, <1>2, MoveTypes
  <1>4. /\ order' \in [Orders -> Statuses]
        /\ outbox' \in [Orders -> Outbox]
        /\ order'[o] = "EXPIRED"
        /\ \A p \in Orders : Grows(p)
        /\ \A p \in Orders : OrderAgrees(p)'
    BY <1>1, <1>2, DecideAgrees
  <1>5. WorkAgrees(Alarm)' /\ handler'[Alarm].step # "asked"
    BY <1>1, <1>3, <1>4 DEF WorkAgrees
  <1>6. TypeOK'
    BY <1>1, <1>2, <1>3, <1>4 DEF TypeOK
  <1> QED
    BY <1>1, <1>3, <1>4, <1>5, <1>6, OneHandlerMoves DEF Agreement

(* The eviction of the object: a request that was under way in it is       *)
(* answered without it.                                                    *)
LEMMA EvictAgrees ==
    ASSUME Agreement, Evict
    PROVE  Agreement'
  <1> DEFINE dies(h) == handler[h].step \in {"draining", "sending",
                                             "received"}
             r(h) == [handler[h] EXCEPT !.step = "answered",
                                        !.outcome = Lost(h)]
  <1>1. TypeOK /\ Alarm \in Handlers
    BY DEF Agreement, Handlers
  <1>2. UNCHANGED <<order, outbox, calls, told>>
    BY DEF Evict
  <1>3. ASSUME NEW h \in Handlers
        PROVE  /\ r(h) \in Handler
               /\ r(h).step = "answered"
               /\ r(h).order = handler[h].order
               /\ r(h).action = handler[h].action
               /\ r(h).outcome \in {handler[h].outcome, "unavailable"}
               /\ r(h).delivery = handler[h].delivery
    BY <1>1 DEF TypeOK, Handler, Lost
  <1> HIDE DEF r
  <1>4. /\ handler' \in [Handlers -> Handler]
        /\ handler'[Alarm] = Idle
        /\ \A h \in Handlers \ {Alarm} :
              /\ dies(h) => handler'[h] = r(h)
              /\ ~dies(h) => handler'[h] = handler[h]
    <2>1. handler' = [h \in Handlers |->
              CASE h = Alarm -> Idle
                [] h # Alarm /\ dies(h) -> r(h)
                [] OTHER -> handler[h]]
      BY DEF Evict, r
    <2>2. \A h \in Handlers : r(h) \in Handler
      BY <1>3
    <2>3. handler \in [Handlers -> Handler]
      BY <1>1 DEF TypeOK
    <2> HIDE DEF dies
    <2> QED
      BY <1>1, <2>1, <2>2, <2>3, IdleTypes
  <1> HIDE DEF dies
  <1>5. alarm' \in BOOLEAN
    BY Zenon DEF Evict
  <1>6. chat' \in {"idle", "draining", "unanswered"}
    BY DEF Evict
  <1>7. again' \in [Orders -> Nat]
    <2>1. ASSUME NEW o \in Orders
          PROVE  Cardinality({h \in Handlers : handler[h].order = o
                                  /\ handler[h].step = "received"}) \in Nat
      BY SubsetCounted
    <2>2. again \in [Orders -> Nat]
      BY <1>1 DEF TypeOK
    <2> DEFINE n(o) == Cardinality({h \in Handlers : handler[h].order = o
                                        /\ handler[h].step = "received"})
    <2>3. again' = [o \in Orders |-> again[o] + n(o)]
      BY DEF Evict
    <2> HIDE DEF n
    <2>4. \A o \in Orders : n(o) \in Nat
      BY <2>1 DEF n
    <2> QED
      BY <2>2, <2>3, <2>4
  <1>8. faults' \in Nat
    BY <1>1, FaultTypes DEF Evict
  <1>9. TypeOK'
    BY <1>1, <1>2, <1>4, <1>5, <1>6, <1>7, <1>8 DEF TypeOK
  <1>10. \A p \in Orders : Grows(p) /\ OrderAgrees(p)'
    BY <1>2, NothingGrows, OrderKept DEF Agreement
  <1>11. ASSUME NEW h \in Handlers
         PROVE  WorkAgrees(h)' /\ (h \in Calls => CallAgrees(h)')
    <2>1. CASE h = Alarm
      BY <1>4, <2>1, HandlerIsOne DEF WorkAgrees, Idle
    <2>2. CASE h # Alarm /\ ~dies(h)
      BY <1>4, <1>10, <2>2, WorkKept, CallKept
    <2>3. CASE h # Alarm /\ dies(h)
      <3>1. h \in Calls /\ CallAgrees(h) /\ handler[h] \in Handler
        BY <1>1, <2>3, HandlerIsOne DEF Agreement, TypeOK
      <3>2. /\ handler'[h].step = "answered"
            /\ handler'[h].order = handler[h].order
            /\ handler'[h].action = handler[h].action
            /\ handler'[h].outcome \in {handler[h].outcome, "unavailable"}
            /\ handler'[h].delivery = handler[h].delivery
        BY <1>3, <1>4, <2>3
      <3>3. WorkAgrees(h)'
        BY <3>2 DEF WorkAgrees
      <3>4. CallAgrees(h)'
        BY <1>2, <2>3, <3>1, <3>2 DEF CallAgrees, dies
      <3> QED
        BY <3>3, <3>4
    <2> QED
      BY <2>1, <2>2, <2>3
  <1>12. handler'[Alarm].step # "asked"
    BY <1>4 DEF Idle
  <1> QED
    BY <1>9, <1>10, <1>11, <1>12 DEF Agreement, Handlers

LEMMA NextAgrees ==
    ASSUME Agreement, [Next]_vars
    PROVE  Agreement'
  <1>1. ASSUME NEW o \in Orders, Place(o) \/ Cancel(o)
        PROVE  Agreement'
    BY <1>1, ChatOrders
  <1>2. CASE ChatSchedules \/ Redeliver
    BY <1>2, ChatGoesOn
  <1>3. ASSUME NEW c \in Calls, NEW o \in Orders, NEW k \in Decisions,
               Ask(c, o, k)
        PROVE  Agreement'
    BY <1>3, AskAgrees
  <1>4. ASSUME NEW c \in Calls, CallResolves(c)
        PROVE  Agreement'
    BY <1>4, CallResolvesAgrees
  <1>5. ASSUME NEW c \in Calls, CallEnds(c)
        PROVE  Agreement'
    <2>1. c \in Handlers /\ alarm' \in BOOLEAN
      BY <1>5 DEF CallEnds, Handlers, Agreement, TypeOK
    <2> QED
      BY <1>5, <2>1, BecomesIdle DEF CallEnds
  <1>6. ASSUME NEW h \in Handlers, DrainEnds(h)
        PROVE  Agreement'
    BY <1>6, DrainEndsAgrees
  <1>7. ASSUME NEW h \in Handlers, Flush(h)
        PROVE  Agreement'
    BY <1>7, FlushReadsAgrees, ReceiveAgrees, RecordDeliveryAgrees DEF Flush
  <1>8. ASSUME NEW h \in Handlers, SendFails(h) \/ AnswerLost(h)
        PROVE  Agreement'
    BY <1>8, AttemptFailsAgrees
  <1>9. CASE AlarmFires
    <2>1. alarm' \in BOOLEAN
      BY <1>9 DEF AlarmFires
    <2> QED
      BY <1>9, <2>1, AlarmGoesOn DEF AlarmFires
  <1>10. ASSUME NEW o \in Orders, AlarmPicks(o) \/ AlarmExpires(o)
         PROVE  Agreement'
    BY <1>10, AlarmPicksAgrees, AlarmExpiresAgrees
  <1>11. CASE AlarmPicksNothing
    <2>1. alarm' \in BOOLEAN
      BY <1>11, AlarmTypes DEF AlarmPicksNothing
    <2> QED
      BY <1>11, <2>1, AlarmGoesOn DEF AlarmPicksNothing
  <1>12. CASE AlarmLeaves
    <2>1. alarm' \in BOOLEAN
      BY <1>12 DEF AlarmLeaves, Agreement, TypeOK
    <2> QED
      BY <1>12, <2>1, AlarmGoesOn DEF AlarmLeaves
  <1>13. CASE AlarmEnds
    <2>1. alarm' \in BOOLEAN /\ Alarm \in Handlers
      BY <1>13, AlarmTypes DEF AlarmEnds, Handlers
    <2> QED
      BY <1>13, <2>1, BecomesIdle DEF AlarmEnds
  <1>14. CASE Evict
    BY <1>14, EvictAgrees
  <1>15. CASE UNCHANGED vars
    BY <1>15 DEF vars, Agreement, TypeOK, OrderAgrees, WorkAgrees, CallAgrees
  <1> QED
    BY <1>1, <1>2, <1>3, <1>4, <1>5, <1>6, <1>7, <1>8, <1>9, <1>10, <1>11,
       <1>12, <1>13, <1>14, <1>15
    DEF Next

(* The inductive invariant holds in every reachable state: types, and what *)
(* order, outbox, customer and every handler know of each other.           *)
THEOREM AgreementHolds == Spec => []Agreement
  BY InitAgrees, NextAgrees, PTL DEF Spec

LEMMA AgreementImplies ==
    ASSUME Agreement
    PROVE  PaymentInv /\ StaffAreToldTheTruth
  <1>1. ToldWhatWasDecided
    BY DEF Agreement, OrderAgrees, ToldWhatWasDecided
  <1>2. DeliveredWasReceived
    BY DEF Agreement, OrderAgrees, DeliveredWasReceived
  <1>3. StaffAreToldTheTruth
    <2> SUFFICES ASSUME NEW c \in Calls, handler[c].step = "answered",
                        handler[c].action = "PAID"
                 PROVE  LET o == handler[c].order IN
                        CASE StaffSees(c) = "ok" ->
                                 order[o] = "PAID" /\ told[o].PAID > 0
                          [] StaffSees(c) = "confirmed_but_notification_failed" ->
                                 order[o] = "PAID"
                          [] StaffSees(c) = "already_resolved" ->
                                 order[o] # "AWAITING_PAYMENT"
                          [] OTHER -> TRUE
      BY DEF StaffAreToldTheTruth
    <2>1. CallAgrees(c) /\ handler[c] \in Handler
      BY DEF Agreement, TypeOK, Handlers
    <2>2. CASE handler[c].outcome = "resolved"
      BY <2>1, <2>2 DEF CallAgrees, StaffSees, Handler
    <2>3. CASE handler[c].outcome = "already_resolved"
      BY <2>1, <2>3 DEF CallAgrees, StaffSees
    <2>4. CASE handler[c].outcome = "unavailable"
      BY <2>4 DEF StaffSees
    <2> QED
      BY <2>1, <2>2, <2>3, <2>4 DEF CallAgrees, Handler
  <1> QED
    BY <1>1, <1>2, <1>3 DEF Agreement, PaymentInv

(* Types, and the agreement of order, outbox and customer: however         *)
(* confirmation, expiry and cancelling race, the customer is only told     *)
(* what the order has become, and what counts as delivered was received.   *)
THEOREM CustomersHearTheDecision == Spec => []PaymentInv
  BY AgreementHolds, AgreementImplies, PTL

(* The answer of /internal/payment, as the menu of the staff shows it, is  *)
(* so when it is given and after.                                          *)
THEOREM StaffHearTheTruth == Spec => []StaffAreToldTheTruth
  BY AgreementHolds, AgreementImplies, PTL
-----------------------------------------------------------------------------
(* An alarm, or somebody who will set one.                                 *)

Work(obx, ord) ==
    \E o \in Orders : \/ obx[o].state \in {"new", "delayed"}
                     \/ ord[o] = "AWAITING_PAYMENT"

Scheduled == alarm \/ handler[Alarm].step # "idle" \/ chat # "idle"

LEMMA WorkIsScheduled ==
    PendingWorkIsScheduled <=> (Work(outbox, order) => Scheduled)
  BY DEF PendingWorkIsScheduled, Work, Scheduled, Awaiting, Pending

LEMMA NextWorkIsScheduled ==
    PendingWorkIsScheduled' <=> (Work(outbox', order') => Scheduled')
  BY DEF PendingWorkIsScheduled, Work, Scheduled, Awaiting, Pending

(* scheduleNextAlarm.                                                      *)
LEMMA AlarmIsSet ==
    ASSUME SetAlarm(outbox', order'), Work(outbox', order')
    PROVE  Scheduled'
  <1>1. alarm' = Work(outbox', order')
    BY DEF SetAlarm, Work
  <1> QED
    BY <1>1, Zenon DEF Scheduled

(* A step that adds no work, and leaves alarm, alarm handler and chat on.  *)
LEMMA StaysScheduled ==
    ASSUME PendingWorkIsScheduled,
           Work(outbox', order') => Work(outbox, order),
           Scheduled => Scheduled'
    PROVE  PendingWorkIsScheduled'
  BY WorkIsScheduled, NextWorkIsScheduled

LEMMA InitScheduled == Init => PendingWorkIsScheduled
  BY DEF Init, PendingWorkIsScheduled, Awaiting, Pending

LEMMA NextScheduled ==
    ASSUME Agreement, PendingWorkIsScheduled, [Next]_vars
    PROVE  PendingWorkIsScheduled'
  <1>1. handler \in [Handlers -> Handler] /\ Alarm \in Handlers
           /\ \A c \in Calls : c \in Handlers /\ c # Alarm
    BY HandlerIsOne DEF Agreement, TypeOK, Handlers
  <1>2. ASSUME chat' # "idle" \/ handler'[Alarm].step # "idle"
        PROVE  PendingWorkIsScheduled'
    BY <1>2, NextWorkIsScheduled DEF Scheduled
  <1>3. ASSUME SetAlarm(outbox', order')
        PROVE  PendingWorkIsScheduled'
    BY <1>3, AlarmIsSet, NextWorkIsScheduled
  <1>4. ASSUME UNCHANGED <<order, outbox, alarm, chat>>,
               handler[Alarm].step # "idle" => handler'[Alarm].step # "idle"
        PROVE  PendingWorkIsScheduled'
    BY <1>4, StaysScheduled DEF Work, Scheduled
  <1>5. ASSUME NEW o \in Orders, Place(o) \/ Cancel(o)
        PROVE  PendingWorkIsScheduled'
    BY <1>2, <1>5 DEF Place, Cancel
  <1>6. CASE ChatSchedules
    BY <1>3, <1>6 DEF ChatSchedules, SetAlarm
  <1>7. CASE Redeliver
    BY <1>2, <1>7 DEF Redeliver
  <1>8. ASSUME NEW c \in Calls, NEW o \in Orders, NEW k \in Decisions,
               Ask(c, o, k)
        PROVE  PendingWorkIsScheduled'
    BY <1>1, <1>4, <1>8 DEF Ask
  <1>9. ASSUME NEW c \in Calls, CallResolves(c)
        PROVE  PendingWorkIsScheduled'
    <2>1. handler'[Alarm] = handler[Alarm] /\ UNCHANGED <<alarm, chat>>
      BY <1>1, <1>9 DEF CallResolves, Resolve
    <2>2. Work(outbox', order') => Work(outbox, order)
      <3>1. CASE order[handler[c].order] = "AWAITING_PAYMENT"
        <4>1. handler[c].order \in Orders
          BY <1>9 DEF CallResolves, Agreement, CallAgrees
        <4> QED
          BY <3>1, <4>1 DEF Work
      <3>2. CASE order[handler[c].order] # "AWAITING_PAYMENT"
        BY <1>9, <3>2 DEF CallResolves, Resolve
      <3> QED
        BY <3>1, <3>2
    <2> QED
      BY <2>1, <2>2, StaysScheduled DEF Scheduled
  <1>10. ASSUME NEW c \in Calls, CallEnds(c)
         PROVE  PendingWorkIsScheduled'
    BY <1>1, <1>4, <1>10 DEF CallEnds
  <1>11. ASSUME NEW h \in Handlers, DrainEnds(h)
         PROVE  PendingWorkIsScheduled'
    BY <1>3, <1>11 DEF DrainEnds, SetAlarm
  <1>12. ASSUME NEW h \in Handlers, Flush(h)
         PROVE  PendingWorkIsScheduled'
    <2>1. CASE FlushReads(h) /\ ~Pending(handler[h].order)
      BY <1>3, <2>1 DEF FlushReads, SetAlarm
    <2>2. CASE FlushReads(h) /\ Pending(handler[h].order)
      <3>1. handler'[Alarm] = handler[Alarm]
               \/ handler'[Alarm].step = "sending"
        BY <1>1, <2>2 DEF FlushReads, BeginSending, Handler
      <3> QED
        BY <1>4, <2>2, <3>1 DEF FlushReads
    <2>3. CASE Receive(h)
      <3>1. handler'[Alarm] = handler[Alarm]
               \/ handler'[Alarm].step = "received"
        BY <1>1, <2>3 DEF Receive, Handler
      <3> QED
        BY <1>4, <2>3, <3>1 DEF Receive
    <2>4. CASE RecordDelivery(h)
      BY <1>3, <2>4 DEF RecordDelivery, SetAlarm
    <2> QED
      BY <1>12, <2>1, <2>2, <2>3, <2>4 DEF Flush
  <1>13. ASSUME NEW h \in Handlers, SendFails(h) \/ AnswerLost(h)
         PROVE  PendingWorkIsScheduled'
    BY <1>3, <1>13 DEF SendFails, AnswerLost, RecordFailure, SetAlarm
  <1>14. CASE AlarmFires
    <2>1. handler'[Alarm].step = "waking"
      BY <1>1, <1>14 DEF AlarmFires, Handler
    <2> QED
      BY <1>2, <2>1
  <1>15. ASSUME NEW o \in Orders, AlarmPicks(o)
         PROVE  PendingWorkIsScheduled'
    BY <1>3, <1>15 DEF AlarmPicks, SetAlarm
  <1>16. ASSUME NEW o \in Orders, AlarmExpires(o)
         PROVE  PendingWorkIsScheduled'
    <2>1. handler'[Alarm].step = "draining"
      BY <1>1, <1>16 DEF AlarmExpires
    <2> QED
      BY <1>2, <2>1
  <1>17. CASE AlarmPicksNothing \/ AlarmEnds
    BY <1>3, <1>17 DEF AlarmPicksNothing, AlarmEnds, SetAlarm
  <1>18. CASE AlarmLeaves
    <2>1. handler'[Alarm].step = "answered"
      BY <1>1, <1>18 DEF AlarmLeaves, Handler
    <2> QED
      BY <1>2, <2>1
  <1>19. CASE Evict
    <2>1. alarm \/ handler[Alarm].step # "idle" => alarm'
      BY <1>19, Zenon DEF Evict
    <2>2. chat # "idle" => chat' # "idle"
      BY <1>19 DEF Evict
    <2>3. UNCHANGED <<order, outbox>>
      BY <1>19 DEF Evict
    <2>4. Scheduled => Scheduled'
      BY <2>1, <2>2 DEF Scheduled
    <2> QED
      BY <2>3, <2>4, StaysScheduled
  <1>20. CASE UNCHANGED vars
    BY <1>4, <1>20 DEF vars
  <1> QED
    BY <1>5, <1>6, <1>7, <1>8, <1>9, <1>10, <1>11, <1>12, <1>13, <1>14,
       <1>15, <1>16, <1>17, <1>18, <1>19, <1>20
    DEF Next

(* Whatever is evicted between whichever steps, a message not delivered    *)
(* and an order that awaits payment have an alarm, or a handler or an      *)
(* update under way that sets one.                                         *)
THEOREM WorkIsNeverForgotten == Spec => []PendingWorkIsScheduled
  BY InitScheduled, NextScheduled, AgreementHolds, PTL DEF Spec
-----------------------------------------------------------------------------
(* How often the customer hears.                                           *)

(* Sends of the message about o that Telegram may still take.              *)
Flying(o) ==
    {h \in Handlers : handler[h].order = o /\ handler[h].step = "sending"}

(* What was heard and what is on its way is accounted for; a message that  *)
(* a flush could still pick up has not been heard for nothing.             *)
Explained(o) ==
    /\ Heard(o) + Cardinality(Flying(o)) <= 1 + again[o]
    /\ Pending(o) /\ (\A h \in Handlers : ~InFlush(h, o)) =>
           Heard(o) <= again[o]

LEMMA Counts ==
    ASSUME Agreement, NEW o \in Orders
    PROVE  /\ Heard(o) \in Nat /\ again[o] \in Nat
           /\ Cardinality(Flying(o)) \in Nat
  <1>1. told[o] \in [Decisions -> Nat] /\ again[o] \in Nat
    BY DEF Agreement, TypeOK
  <1>2. told[o].PAID \in Nat /\ told[o].EXPIRED \in Nat
    BY <1>1 DEF Decisions
  <1>3. Cardinality(Flying(o)) \in Nat
    BY SubsetCounted DEF Flying
  <1> QED
    BY <1>1, <1>2, <1>3 DEF Heard

(* A step of a handler that is not at the message about p.                 *)
LEMMA ExplainedElsewhere ==
    ASSUME NEW p \in Orders, Explained(p), NEW h \in Handlers,
           \A g \in Handlers \ {h} : handler'[g] = handler[g],
           ~InFlush(h, p), ~InFlush(h, p)',
           told'[p] = told[p], again'[p] = again[p],
           Pending(p)' => Pending(p)
    PROVE  Explained(p)'
  <1>1. Flying(p)' = Flying(p)
    BY DEF Flying, InFlush
  <1>2. Heard(p)' = Heard(p)
    BY DEF Heard
  <1>3. \A g \in Handlers : InFlush(g, p)' <=> InFlush(g, p)
    BY DEF InFlush
  <1> QED
    BY <1>1, <1>2, <1>3 DEF Explained

LEMMA ExplainedStill ==
    ASSUME NEW p \in Orders, Explained(p), UNCHANGED handler,
           told'[p] = told[p], again'[p] = again[p],
           Pending(p)' => Pending(p)
    PROVE  Explained(p)'
  <1>1. Flying(p)' = Flying(p) /\ Heard(p)' = Heard(p)
    BY DEF Flying, Heard
  <1>2. \A g \in Handlers : InFlush(g, p)' <=> InFlush(g, p)
    BY DEF InFlush
  <1> QED
    BY <1>1, <1>2 DEF Explained

(* One more flush of the message about o is sending, or one less.          *)
LEMMA OneMoreFlying ==
    ASSUME NEW o \in Orders, NEW h \in Handlers,
           \A g \in Handlers \ {h} : handler'[g] = handler[g],
           handler[h].step # "sending",
           handler'[h].step = "sending", handler'[h].order = o
    PROVE  Cardinality(Flying(o)') = Cardinality(Flying(o)) + 1
  <1>1. Flying(o)' = Flying(o) \cup {h} /\ h \notin Flying(o)
    BY DEF Flying
  <1>2. Flying(o) \in SUBSET Handlers
    BY DEF Flying
  <1>3. IsFiniteSet(Flying(o))
    BY <1>2, SubsetCounted, Zenon
  <1>4. Cardinality(Flying(o) \cup {h}) = Cardinality(Flying(o)) + 1
    BY <1>1, <1>3, FS_AddElement
  <1> QED
    BY <1>1, <1>4, Zenon

LEMMA OneLessFlying ==
    ASSUME NEW o \in Orders, NEW h \in Handlers,
           \A g \in Handlers \ {h} : handler'[g] = handler[g],
           handler[h].step = "sending", handler[h].order = o,
           handler'[h].step # "sending"
    PROVE  Cardinality(Flying(o)') = Cardinality(Flying(o)) - 1
  <1>1. Flying(o)' = Flying(o) \ {h} /\ h \in Flying(o)
    BY DEF Flying
  <1>2. Flying(o) \in SUBSET Handlers
    BY DEF Flying
  <1>3. IsFiniteSet(Flying(o))
    BY <1>2, SubsetCounted, Zenon
  <1>4. Cardinality(Flying(o) \ {h}) = Cardinality(Flying(o)) - 1
    BY <1>1, <1>3, FS_RemoveElement
  <1> QED
    BY <1>1, <1>4, Zenon

LEMMA SomeCounted ==
    ASSUME NEW S \in SUBSET Handlers, NEW h \in S
    PROVE  Cardinality(S) \in Nat /\ Cardinality(S) >= 1
  <1>1. IsFiniteSet(S) /\ Cardinality(S) \in Nat
    BY SubsetCounted
  <1>2. IsFiniteSet(S \ {h}) /\ Cardinality(S \ {h}) = Cardinality(S) - 1
    BY <1>1, FS_RemoveElement
  <1>3. Cardinality(S \ {h}) \in Nat
    BY <1>2, FS_CardinalityType
  <1> QED
    BY <1>1, <1>2, <1>3

LEMMA NoneFlying ==
    ASSUME NEW o, \A h \in Handlers : ~InFlush(h, o)
    PROVE  Cardinality(Flying(o)) = 0
  <1>1. Flying(o) = {}
    BY DEF Flying, InFlush
  <1> QED
    BY <1>1, FS_EmptySet

LEMMA InitExplained == Init => \A o \in Orders : Explained(o)
  <1> SUFFICES ASSUME Init, NEW o \in Orders
               PROVE  Explained(o)
    OBVIOUS
  <1>1. Agreement
    BY InitAgrees
  <1>2. told[o].PAID = 0 /\ told[o].EXPIRED = 0 /\ again[o] = 0
    BY DEF Init, Decisions
  <1>3. \A h \in Handlers : ~InFlush(h, o)
    BY DEF Init, InFlush, Idle
  <1> QED
    BY <1>2, <1>3, NoneFlying DEF Explained, Heard

(* An order that is decided has not been spoken of before.                 *)
LEMMA DecidedExplained ==
    ASSUME Agreement, \A q \in Orders : Explained(q), NEW h \in Handlers,
           NEW o \in Orders, NEW k \in Decisions,
           order[o] = "AWAITING_PAYMENT", DecideOrder(o, k),
           \A g \in Handlers \ {h} : handler'[g] = handler[g],
           handler[h].step \notin {"sending", "received"},
           handler'[h].step \notin {"sending", "received"},
           UNCHANGED <<told, again>>, NEW p \in Orders
    PROVE  Explained(p)'
  <1>1. CASE p # o
    <2>1. outbox'[p] = outbox[p]
      BY <1>1 DEF DecideOrder, Agreement, TypeOK
    <2>2. Pending(p)' => Pending(p)
      BY <2>1 DEF Pending
    <2> QED
      BY <2>2, ExplainedElsewhere DEF InFlush
  <1>2. CASE p = o
    <2>1. Heard(o)' = 0 /\ again'[o] \in Nat
      <3>1. told[o] \in [Decisions -> Nat] /\ OrderAgrees(o)
        BY DEF Agreement, TypeOK
      <3>2. \A j \in Decisions : told[o][j] \in Nat /\ ~(told[o][j] > 0)
        BY <3>1 DEF OrderAgrees, Decisions
      <3>3. told[o].PAID = 0 /\ told[o].EXPIRED = 0
        BY <3>2 DEF Decisions
      <3> QED
        BY <3>3, Counts DEF Heard
    <2>2. Flying(o)' = Flying(o)
      BY DEF Flying
    <2>3. \A g \in Handlers : ~InFlush(g, o)
      BY DEF Agreement, WorkAgrees, InFlush, Decisions
    <2>4. Cardinality(Flying(o)') = 0
      BY <2>2, <2>3, NoneFlying
    <2> QED
      BY <1>2, <2>1, <2>4 DEF Explained
  <1> QED
    BY <1>1, <1>2

(* A flush begins: alone, or counted in again.                             *)
LEMMA BeginExplained ==
    ASSUME Agreement, \A q \in Orders : Explained(q), NEW h \in Handlers,
           NEW o \in Orders, BeginSending(h, o), Pending(o),
           handler[h].step \in {"flushing", "waking"},
           UNCHANGED <<outbox, told>>, NEW p \in Orders
    PROVE  Explained(p)'
  <1>1. /\ \A g \in Handlers \ {h} : handler'[g] = handler[g]
        /\ handler'[h].step = "sending" /\ handler'[h].order = o
    BY DEF BeginSending, Agreement, TypeOK, Handler
  <1>2. again \in [Orders -> Nat] /\ again' = [again EXCEPT ![o] = @ +
            (IF \E g \in Handlers : InFlush(g, o) THEN 1 ELSE 0)]
    BY DEF BeginSending, Agreement, TypeOK
  <1>3. CASE p # o
    <2>1. again'[p] = again[p]
      BY <1>2, <1>3
    <2>2. ~InFlush(h, p) /\ ~InFlush(h, p)'
      BY <1>1, <1>3 DEF InFlush
    <2>3. Pending(p)' => Pending(p)
      BY DEF Pending
    <2> QED
      BY <1>1, <2>1, <2>2, <2>3, ExplainedElsewhere
  <1>4. CASE p = o
    <2>1. InFlush(h, o)'
      BY <1>1 DEF InFlush
    <2>2. Cardinality(Flying(o)') = Cardinality(Flying(o)) + 1
      BY <1>1, OneMoreFlying
    <2>3. Heard(o)' = Heard(o)
      BY DEF Heard
    <2>4. Heard(o) \in Nat /\ again[o] \in Nat
             /\ Cardinality(Flying(o)) \in Nat
      BY Counts
    <2>5. Heard(o) + Cardinality(Flying(o)) + 1 <= 1 + again'[o]
      <3>1. CASE \E g \in Handlers : InFlush(g, o)
        <4>1. again'[o] = again[o] + 1
          BY <1>2, <3>1
        <4> QED
          BY <2>4, <4>1 DEF Explained
      <3>2. CASE \A g \in Handlers : ~InFlush(g, o)
        <4>1. again'[o] = again[o]
          BY <1>2, <2>4, <3>2
        <4>2. Cardinality(Flying(o)) = 0
          BY <3>2, NoneFlying
        <4> QED
          BY <2>4, <3>2, <4>1, <4>2 DEF Explained
      <3> QED
        BY <3>1, <3>2
    <2> QED
      BY <1>4, <2>1, <2>2, <2>3, <2>4, <2>5 DEF Explained
  <1> QED
    BY <1>3, <1>4

LEMMA ReceiveExplained ==
    ASSUME Agreement, \A q \in Orders : Explained(q), NEW h \in Handlers,
           Receive(h), NEW p \in Orders
    PROVE  Explained(p)'
  <1>1. PICK o \in Orders, k \in Decisions :
            o = handler[h].order /\ outbox[o].kind = k
    BY DEF Receive, Agreement, WorkAgrees, OrderAgrees
  <1>2. /\ \A g \in Handlers \ {h} : handler'[g] = handler[g]
        /\ handler[h].step = "sending" /\ handler[h].order = o
        /\ handler'[h].step = "received" /\ handler'[h].order = o
        /\ UNCHANGED <<outbox, again>>
    BY <1>1 DEF Receive, Agreement, TypeOK, Handler
  <1>3. /\ told'[o][k] = told[o][k] + 1
        /\ \A j \in Decisions \ {k} : told'[o][j] = told[o][j]
        /\ \A q \in Orders \ {o} : told'[q] = told[q]
    <2>1. told \in [Orders -> [Decisions -> Nat]]
             /\ told' = [told EXCEPT ![o][k] = @ + 1]
      BY <1>1 DEF Receive, Agreement, TypeOK
    <2> QED
      BY <2>1, ToldTypes
  <1>4. CASE p # o
    <2>1. ~InFlush(h, p) /\ ~InFlush(h, p)'
      BY <1>2, <1>4 DEF InFlush
    <2> QED
      BY <1>2, <1>3, <1>4, <2>1, ExplainedElsewhere DEF Pending
  <1>5. CASE p = o
    <2>1. Heard(o) \in Nat /\ again[o] \in Nat
             /\ Cardinality(Flying(o)) \in Nat
      BY Counts
    <2>2. Heard(o)' = Heard(o) + 1
      <3>1. told[o].PAID \in Nat /\ told[o].EXPIRED \in Nat
        BY DEF Agreement, TypeOK, Decisions
      <3>2. CASE k = "PAID"
        BY <1>3, <3>1, <3>2 DEF Heard, Decisions
      <3>3. CASE k = "EXPIRED"
        BY <1>3, <3>1, <3>3 DEF Heard, Decisions
      <3> QED
        BY <3>2, <3>3 DEF Decisions
    <2>3. Cardinality(Flying(o)') = Cardinality(Flying(o)) - 1
      BY <1>2, OneLessFlying
    <2>4. InFlush(h, o)'
      BY <1>2 DEF InFlush
    <2>5. Explained(o) /\ again'[o] = again[o]
      BY <1>2
    <2> QED
      BY <1>5, <2>1, <2>2, <2>3, <2>4, <2>5 DEF Explained
  <1> QED
    BY <1>4, <1>5

(* The flush of a handler ends.                                            *)
LEMMA FlushEnds ==
    ASSUME Agreement, NEW h \in Handlers,
           handler[h].step \in {"flushing", "sending", "received"},
           NEW d \in {"pending", "delivered"},
           handler' = [handler EXCEPT ![h].step = AfterFlush(h),
                                      ![h].delivery = d]
    PROVE  /\ \A g \in Handlers \ {h} : handler'[g] = handler[g]
           /\ handler'[h].step \notin {"sending", "received"}
           /\ handler'[h].order = handler[h].order
  <1> DEFINE s == AfterFlush(h)
  <1>1. handler' = [handler EXCEPT ![h].step = s, ![h].delivery = d]
    OBVIOUS
  <1>2. s \in {"looking", "answered"} /\ s \in HandlerSteps
    BY DEF AfterFlush, HandlerSteps
  <1>3. TypeOK /\ d \in {"none", "pending", "delivered"}
    BY DEF Agreement
  <1>4. s \notin {"sending", "received"}
    BY <1>2
  <1> HIDE DEF s
  <1>5. /\ \A g \in Handlers \ {h} : handler'[g] = handler[g]
        /\ handler'[h].step = s /\ handler'[h].order = handler[h].order
    BY <1>1, <1>2, <1>3, EndTypes, ZenonT(30)
  <1> QED
    BY <1>4, <1>5

LEMMA OtherOutbox ==
    ASSUME Agreement, NEW o, NEW s,
           outbox' = [outbox EXCEPT ![o].state = s], NEW p \in Orders \ {o}
    PROVE  Pending(p)' => Pending(p)
  BY DEF Agreement, TypeOK, Pending

LEMMA RecordDeliveryExplained ==
    ASSUME Agreement, \A q \in Orders : Explained(q), NEW h \in Handlers,
           RecordDelivery(h), NEW p \in Orders
    PROVE  Explained(p)'
  <1>1. PICK o \in Orders : o = handler[h].order
    BY DEF RecordDelivery, Agreement, WorkAgrees
  <1>2. /\ handler[h].step = "received"
        /\ outbox' = [outbox EXCEPT ![o].state = "delivered"]
        /\ handler' = [handler EXCEPT ![h].step = AfterFlush(h),
                                      ![h].delivery = "delivered"]
        /\ UNCHANGED <<told, again>>
    BY <1>1 DEF RecordDelivery
  <1>3. /\ \A g \in Handlers \ {h} : handler'[g] = handler[g]
        /\ handler'[h].step \notin {"sending", "received"}
        /\ handler'[h].order = o
    BY <1>1, <1>2, FlushEnds
  <1>4. CASE p # o
    <2>1. ~InFlush(h, p) /\ ~InFlush(h, p)'
      BY <1>1, <1>3, <1>4 DEF InFlush
    <2> QED
      BY <1>2, <1>3, <1>4, <2>1, OtherOutbox, ExplainedElsewhere
  <1>5. CASE p = o
    <2>1. ~Pending(o)'
      BY <1>2 DEF Pending, Agreement, TypeOK, Outbox
    <2>2. Flying(o)' = Flying(o) /\ Heard(o)' = Heard(o)
      BY <1>2, <1>3 DEF Flying, Heard
    <2> QED
      BY <1>2, <1>5, <2>1, <2>2 DEF Explained
  <1> QED
    BY <1>4, <1>5

(* A failed attempt: it was not heard, or what was heard counts in again.  *)
LEMMA AttemptFailsExplained ==
    ASSUME Agreement, \A q \in Orders : Explained(q), NEW h \in Handlers,
           SendFails(h) \/ AnswerLost(h), NEW p \in Orders
    PROVE  Explained(p)'
  <1>1. PICK o \in Orders : o = handler[h].order
    BY DEF SendFails, AnswerLost, Agreement, WorkAgrees
  <1>2. handler[h].step \in {"sending", "received"} /\ UNCHANGED told
           /\ RecordFailure(h)
    BY DEF SendFails, AnswerLost
  <1>3. PICK s : outbox' = [outbox EXCEPT ![o].state = s]
    BY <1>1, <1>2 DEF RecordFailure
  <1>4. /\ \A g \in Handlers \ {h} : handler'[g] = handler[g]
        /\ handler'[h].step \notin {"sending", "received"}
        /\ handler'[h].order = o
    BY <1>1, <1>2, FlushEnds DEF RecordFailure
  <1>5. again \in [Orders -> Nat]
           /\ (SendFails(h) => again' = again)
           /\ (AnswerLost(h) => again' = [again EXCEPT ![o] = @ + 1])
    BY <1>1 DEF SendFails, AnswerLost, Agreement, TypeOK
  <1>6. CASE p # o
    <2>1. ~InFlush(h, p) /\ ~InFlush(h, p)'
      BY <1>1, <1>4, <1>6 DEF InFlush
    <2>2. again'[p] = again[p]
      BY <1>5, <1>6
    <2> QED
      BY <1>2, <1>3, <1>4, <1>6, <2>1, <2>2, OtherOutbox, ExplainedElsewhere
  <1>7. CASE p = o
    <2>1. Heard(o) \in Nat /\ again[o] \in Nat
             /\ Cardinality(Flying(o)) \in Nat /\ Heard(o)' = Heard(o)
      BY <1>2, Counts DEF Heard
    <2>2. CASE SendFails(h)
      <3>1. Cardinality(Flying(o)') = Cardinality(Flying(o)) - 1
        BY <1>1, <1>4, <2>2, OneLessFlying DEF SendFails
      <3>2. h \in Flying(o)
        BY <1>1, <2>2 DEF Flying, SendFails
      <3>3. Cardinality(Flying(o)) >= 1
        BY <3>2, SomeCounted DEF Flying
      <3>4. again'[o] = again[o] /\ Explained(o)
        BY <1>5, <2>2
      <3> QED
        BY <1>7, <2>1, <3>1, <3>3, <3>4 DEF Explained
    <2>3. CASE AnswerLost(h)
      <3>1. Flying(o)' = Flying(o)
        BY <1>4, <2>3 DEF Flying, AnswerLost
      <3>2. again'[o] = again[o] + 1 /\ Explained(o)
        BY <1>5, <2>3
      <3> QED
        BY <1>7, <2>1, <3>1, <3>2 DEF Explained
    <2> QED
      BY <2>2, <2>3
  <1> QED
    BY <1>6, <1>7

(* An eviction: what was sending is not heard, what was heard counts.      *)
LEMMA EvictExplained ==
    ASSUME Agreement, \A q \in Orders : Explained(q), Evict,
           NEW o \in Orders
    PROVE  Explained(o)'
  <1> DEFINE R == {h \in Handlers : handler[h].order = o
                                     /\ handler[h].step = "received"}
  <1>1. again'[o] = again[o] + Cardinality(R) /\ UNCHANGED <<outbox, told>>
    BY DEF Evict
  <1>2. Heard(o) \in Nat /\ again[o] \in Nat /\ Cardinality(R) \in Nat
           /\ Cardinality(Flying(o)) \in Nat
    BY Counts, SubsetCounted
  <1>3. Heard(o)' = Heard(o) /\ (Pending(o)' <=> Pending(o))
    BY <1>1 DEF Heard, Pending
  <1>4. \A h \in Handlers : handler'[h].step \notin {"sending", "received"}
    <2>1. ASSUME NEW h \in Handlers
          PROVE  handler'[h].step \notin {"sending", "received"}
      <3>1. CASE h = Alarm
        BY <3>1 DEF Evict, Idle
      <3>2. CASE h # Alarm /\ handler[h].step \in {"draining", "sending",
                                                   "received"}
        <4>1. handler'[h] = [handler[h] EXCEPT !.step = "answered",
                                               !.outcome = Lost(h)]
          BY <3>2 DEF Evict
        <4>2. handler[h] \in Handler
          BY DEF Agreement, TypeOK
        <4>3. handler'[h].step = "answered"
          BY <4>1, <4>2 DEF Handler
        <4> QED
          BY <4>3
      <3>3. CASE h # Alarm /\ handler[h].step \notin {"draining", "sending",
                                                      "received"}
        BY <3>3 DEF Evict
      <3> QED
        BY <3>1, <3>2, <3>3
    <2> QED
      BY <2>1
  <1>5. Cardinality(Flying(o)') = 0
    <2>1. Flying(o)' = {}
      BY <1>4 DEF Flying
    <2> QED
      BY <2>1, FS_EmptySet
  <1>6. Pending(o) => Heard(o) <= again[o] + Cardinality(R)
    <2>1. CASE \A h \in Handlers : ~InFlush(h, o)
      BY <1>2, <2>1 DEF Explained
    <2>2. ASSUME NEW h \in Handlers, handler[h].order = o,
                 handler[h].step = "sending"
          PROVE  Heard(o) <= again[o]
      <3>1. h \in Flying(o)
        BY <2>2 DEF Flying
      <3>2. Cardinality(Flying(o)) >= 1
        BY <3>1, SomeCounted DEF Flying
      <3>3. Explained(o)
        OBVIOUS
      <3> QED
        BY <1>2, <3>2, <3>3 DEF Explained
    <2>3. ASSUME NEW h \in Handlers, handler[h].order = o,
                 handler[h].step = "received"
          PROVE  Cardinality(R) >= 1
      <3>1. h \in R
        BY <2>3
      <3> QED
        BY <3>1, SomeCounted
    <2>4. Explained(o)
      OBVIOUS
    <2> HIDE DEF R
    <2> QED
      BY <1>2, <2>1, <2>2, <2>3, <2>4 DEF InFlush, Explained
  <1> HIDE DEF R
  <1>7. Explained(o)
    OBVIOUS
  <1> QED
    BY <1>1, <1>2, <1>3, <1>5, <1>6, <1>7 DEF Explained

LEMMA NextExplained ==
    ASSUME Agreement, \A q \in Orders : Explained(q), [Next]_vars,
           NEW p \in Orders
    PROVE  Explained(p)'
  <1>1. handler \in [Handlers -> Handler] /\ Alarm \in Handlers
           /\ \A c \in Calls : c \in Handlers
    BY DEF Agreement, TypeOK, Handlers
  <1>2. ASSUME UNCHANGED <<handler, outbox, told, again>>
        PROVE  Explained(p)'
    BY <1>2, ExplainedStill DEF Pending
  <1>3. ASSUME NEW h \in Handlers, UNCHANGED <<outbox, told, again>>,
               \A g \in Handlers \ {h} : handler'[g] = handler[g],
               handler[h].step \notin {"sending", "received"},
               handler'[h].step \notin {"sending", "received"}
        PROVE  Explained(p)'
    BY <1>3, ExplainedElsewhere DEF InFlush, Pending
  <1>4. ASSUME NEW o \in Orders, Place(o) \/ Cancel(o)
        PROVE  Explained(p)'
    BY <1>2, <1>4 DEF Place, Cancel
  <1>5. CASE ChatSchedules \/ Redeliver
    BY <1>2, <1>5 DEF ChatSchedules, Redeliver
  <1>6. ASSUME NEW c \in Calls, NEW o \in Orders, NEW k \in Decisions,
               Ask(c, o, k)
        PROVE  Explained(p)'
    <2> DEFINE r == [Idle EXCEPT !.step = "asked", !.order = o, !.action = k]
    <2>1. r.step = "asked"
      BY DEF Idle
    <2>2. handler' = [handler EXCEPT ![c] = r] /\ handler[c].step = "idle"
             /\ UNCHANGED <<outbox, told, again>>
      BY <1>6 DEF Ask
    <2> HIDE DEF r
    <2> QED
      BY <1>1, <1>3, <2>1, <2>2
  <1>7. ASSUME NEW c \in Calls, CallResolves(c)
        PROVE  Explained(p)'
    <2>1. /\ \A g \in Handlers \ {c} : handler'[g] = handler[g]
          /\ handler[c].step = "asked" /\ handler'[c].step = "draining"
          /\ UNCHANGED <<told, again>>
      BY <1>1, <1>7 DEF CallResolves, Resolve, Handler
    <2>2. PICK o \in Orders, k \in Decisions :
              o = handler[c].order /\ k = handler[c].action
      BY <2>1 DEF Agreement, CallAgrees
    <2>3. CASE order[o] = "AWAITING_PAYMENT"
      <3>1. DecideOrder(o, k)
        BY <1>7, <2>2, <2>3 DEF CallResolves, Resolve
      <3> QED
        BY <1>1, <2>1, <2>3, <3>1, DecidedExplained
    <2>4. CASE order[o] # "AWAITING_PAYMENT"
      <3>1. UNCHANGED outbox
        BY <1>7, <2>2, <2>4 DEF CallResolves, Resolve
      <3> QED
        BY <1>1, <1>3, <2>1, <3>1
    <2> QED
      BY <2>3, <2>4
  <1>8. ASSUME NEW c \in Calls, CallEnds(c)
        PROVE  Explained(p)'
    <2>1. handler' = [handler EXCEPT ![c] = Idle] /\ Idle.step = "idle"
             /\ handler[c].step = "answered"
             /\ UNCHANGED <<outbox, told, again>>
      BY <1>8 DEF CallEnds, Idle
    <2> QED
      BY <1>1, <1>3, <2>1
  <1>9. ASSUME NEW h \in Handlers, DrainEnds(h)
        PROVE  Explained(p)'
    <2>1. /\ \A g \in Handlers \ {h} : handler'[g] = handler[g]
          /\ handler[h].step = "draining"
          /\ handler'[h].step \in {"flushing", "answered"}
          /\ UNCHANGED <<outbox, told, again>>
      BY <1>1, <1>9 DEF DrainEnds, Handler
    <2> QED
      BY <1>3, <2>1
  <1>10. ASSUME NEW h \in Handlers, FlushReads(h)
         PROVE  Explained(p)'
    <2>1. handler[h].step = "flushing" /\ UNCHANGED <<outbox, told>>
             /\ handler[h].order \in Orders
      BY <1>10 DEF FlushReads, Agreement, WorkAgrees
    <2>2. CASE Pending(handler[h].order)
      BY <1>10, <2>1, <2>2, BeginExplained DEF FlushReads
    <2>3. CASE ~Pending(handler[h].order)
      <3>1. handler' = [handler EXCEPT ![h].step = AfterFlush(h),
                                       ![h].delivery = "delivered"]
               /\ UNCHANGED again
        BY <1>10, <2>3 DEF FlushReads
      <3>2. /\ \A g \in Handlers \ {h} : handler'[g] = handler[g]
            /\ handler'[h].step \notin {"sending", "received"}
        BY <2>1, <3>1, FlushEnds
      <3> QED
        BY <1>3, <2>1, <3>1, <3>2
    <2> QED
      BY <2>2, <2>3
  <1>11. ASSUME NEW h \in Handlers, Receive(h) \/ RecordDelivery(h)
         PROVE  Explained(p)'
    BY <1>11, ReceiveExplained, RecordDeliveryExplained
  <1>12. ASSUME NEW h \in Handlers, SendFails(h) \/ AnswerLost(h)
         PROVE  Explained(p)'
    BY <1>12, AttemptFailsExplained
  <1>13. ASSUME NEW s \in {"waking", "looking", "answered"},
                handler' = [handler EXCEPT ![Alarm].step = s],
                handler[Alarm].step \notin {"sending", "received"},
                UNCHANGED <<outbox, told, again>>
         PROVE  Explained(p)'
    <2>1. /\ \A g \in Handlers \ {Alarm} : handler'[g] = handler[g]
          /\ handler'[Alarm].step = s
      BY <1>1, <1>13 DEF Handler
    <2> QED
      BY <1>1, <1>3, <1>13, <2>1
  <1>14. CASE AlarmFires \/ AlarmPicksNothing \/ AlarmLeaves
    BY <1>13, <1>14 DEF AlarmFires, AlarmPicksNothing, AlarmLeaves
  <1>15. ASSUME NEW o \in Orders, AlarmPicks(o)
         PROVE  Explained(p)'
    BY <1>1, <1>15, BeginExplained DEF AlarmPicks
  <1>16. ASSUME NEW o \in Orders, AlarmExpires(o)
         PROVE  Explained(p)'
    <2>1. /\ \A g \in Handlers \ {Alarm} : handler'[g] = handler[g]
          /\ handler[Alarm].step = "looking"
          /\ handler'[Alarm].step = "draining"
          /\ order[o] = "AWAITING_PAYMENT" /\ DecideOrder(o, "EXPIRED")
          /\ UNCHANGED <<told, again>>
      BY <1>1, <1>16 DEF AlarmExpires
    <2>2. "EXPIRED" \in Decisions
      BY DEF Decisions
    <2> QED
      BY <1>1, <2>1, <2>2, DecidedExplained
  <1>17. CASE AlarmEnds
    <2>1. handler' = [handler EXCEPT ![Alarm] = Idle] /\ Idle.step = "idle"
             /\ handler[Alarm].step = "answered"
             /\ UNCHANGED <<outbox, told, again>>
      BY <1>17 DEF AlarmEnds, Idle
    <2> QED
      BY <1>1, <1>3, <2>1
  <1>18. CASE Evict
    BY <1>18, EvictExplained
  <1>19. CASE UNCHANGED vars
    BY <1>2, <1>19 DEF vars
  <1> QED
    BY <1>4, <1>5, <1>6, <1>7, <1>8, <1>9, <1>10, <1>11, <1>12, <1>14,
       <1>15, <1>16, <1>17, <1>18, <1>19
    DEF Next, Flush

LEMMA ExplainedImplies ==
    ASSUME Agreement, \A o \in Orders : Explained(o)
    PROVE  RepeatsAreExplained
  <1> SUFFICES ASSUME NEW o \in Orders
               PROVE  Heard(o) <= 1 + again[o]
    BY DEF RepeatsAreExplained
  <1>1. Explained(o)
    OBVIOUS
  <1> QED
    BY <1>1, Counts DEF Explained

(* The customer hears of an order at most once more than Telegram's answer *)
(* was lost, to a timeout or with the object, or a flush started while     *)
(* another was at it.                                                      *)
THEOREM CustomersHearOnceOrExplained == Spec => []RepeatsAreExplained
  <1> DEFINE AllExplained == \A o \in Orders : Explained(o)
  <1>1. Init => AllExplained
    BY InitExplained
  <1>2. Agreement /\ AllExplained /\ [Next]_vars => AllExplained'
    BY NextExplained
  <1>3. Agreement /\ AllExplained => RepeatsAreExplained
    BY ExplainedImplies
  <1> HIDE DEF AllExplained
  <1> QED
    BY <1>1, <1>2, <1>3, AgreementHolds, PTL DEF Spec
-----------------------------------------------------------------------------
(* The object at rest.                                                     *)

(* No alarm is stored, the alarm handler is idle and no update is under    *)
(* way: nothing will happen here until somebody writes or asks.            *)
AtRest == ~alarm /\ handler[Alarm].step = "idle" /\ chat = "idle"

(* No order is left open, and the customer has heard of every decision.    *)
CustomersAreInformed ==
    \A o \in Orders :
        /\ order[o] # "AWAITING_PAYMENT"
        /\ order[o] \in Decisions => told[o][order[o]] > 0

(* Whatever failed, was lost or was evicted on the way, an object that is  *)
(* at rest owes its customer nothing: its orders are decided, and the      *)
(* message about each of them was received.                                *)
THEOREM RestMeansInformed == Spec => [](AtRest => CustomersAreInformed)
  <1>1. ASSUME Agreement, PendingWorkIsScheduled, AtRest, NEW o \in Orders
        PROVE  /\ order[o] # "AWAITING_PAYMENT"
               /\ order[o] \in Decisions => told[o][order[o]] > 0
    <2>1. Awaiting = {} /\ ~Pending(o)
      BY <1>1 DEF AtRest, PendingWorkIsScheduled
    <2>2. OrderAgrees(o) /\ outbox[o] \in Outbox
      BY <1>1 DEF Agreement, TypeOK
    <2>3. outbox[o].state \in {"none", "delivered"}
      BY <2>1, <2>2 DEF Pending, Outbox
    <2> QED
      BY <2>1, <2>2, <2>3 DEF Awaiting, OrderAgrees
  <1>2. Agreement /\ PendingWorkIsScheduled => (AtRest => CustomersAreInformed)
    BY <1>1 DEF CustomersAreInformed
  <1> QED
    BY <1>2, AgreementHolds, WorkIsNeverForgotten, PTL
-----------------------------------------------------------------------------
(* The refinement of OrderLifecycle.                                       *)

LEMMA LifecycleBegins == Init => Lifecycle!Init
  BY DEF Init, Lifecycle!Init, PerOrder

LEMMA LifecycleStutters ==
    ASSUME UNCHANGED order
    PROVE  UNCHANGED Lifecycle!vars
  BY DEF Lifecycle!vars, PerOrder

(* The chat places an order while no other one awaits payment.             *)
LEMMA LifecyclePlaces ==
    ASSUME Agreement, NEW o \in Orders, Place(o)
    PROVE  Lifecycle!Next
  <1>1. /\ order \in [Orders -> Statuses] /\ order[o] = "NONE"
        /\ order' = [order EXCEPT ![o] = "AWAITING_PAYMENT"]
        /\ \A x \in Orders : order[x] # "AWAITING_PAYMENT"
    BY DEF Agreement, TypeOK, Place, Awaiting
  <1>2. PerOrder("nobody", "chat")'
            = [PerOrder("nobody", "chat") EXCEPT ![o] = "chat"]
    BY <1>1 DEF PerOrder
  <1>3. PerOrder("nothing", "cart")'
            = [PerOrder("nothing", "cart") EXCEPT ![o] = "cart"]
    BY <1>1 DEF PerOrder
  <1>4. Lifecycle!Place("chat", o, "cart")
    BY <1>1, <1>2, <1>3 DEF Lifecycle!Place
  <1> QED
    BY <1>4 DEF Lifecycle!Next

(* Whoever decides an order finds it awaiting payment.                     *)
LEMMA LifecycleDecides ==
    ASSUME Agreement, NEW o \in Orders,
           NEW s \in {"PAID", "CANCELLED", "EXPIRED"},
           order[o] = "AWAITING_PAYMENT",
           order' = [order EXCEPT ![o] = s]
    PROVE  Lifecycle!Next
  <1>1. \A x \in Orders : (order'[x] = "NONE") <=> (order[x] = "NONE")
    BY DEF Agreement, TypeOK
  <1>2. UNCHANGED <<PerOrder("nobody", "chat"), PerOrder("nothing", "cart")>>
    BY <1>1 DEF PerOrder
  <1>3. Lifecycle!Decide(o, s)
    BY <1>2 DEF Lifecycle!Decide
  <1> QED
    BY <1>3 DEF Lifecycle!Next

LEMMA CallResolvesOnce ==
    ASSUME Agreement, NEW c \in Calls, CallResolves(c)
    PROVE  Lifecycle!Next \/ UNCHANGED Lifecycle!vars
  <1> DEFINE o == handler[c].order
  <1>1. o \in Orders /\ handler[c].action \in Decisions
    BY DEF Agreement, CallAgrees, CallResolves
  <1>2. CASE order[o] = "AWAITING_PAYMENT"
    <2>1. order' = [order EXCEPT ![o] = handler[c].action]
      BY <1>2 DEF CallResolves, Resolve, DecideOrder
    <2> QED
      BY <1>1, <1>2, <2>1, LifecycleDecides DEF Decisions
  <1>3. CASE order[o] # "AWAITING_PAYMENT"
    BY <1>3, LifecycleStutters DEF CallResolves, Resolve
  <1> QED
    BY <1>2, <1>3

LEMMA LifecycleMoves ==
    ASSUME Agreement, [Next]_vars
    PROVE  [Lifecycle!Next]_(Lifecycle!vars)
  <1>1. ASSUME NEW o \in Orders, Place(o)
        PROVE  Lifecycle!Next
    BY <1>1, LifecyclePlaces
  <1>2. ASSUME NEW o \in Orders, Cancel(o)
        PROVE  Lifecycle!Next
    BY <1>2, LifecycleDecides DEF Cancel
  <1>3. ASSUME NEW c \in Calls, CallResolves(c)
        PROVE  Lifecycle!Next \/ UNCHANGED Lifecycle!vars
    BY <1>3, CallResolvesOnce
  <1>4. ASSUME NEW o \in Orders, AlarmExpires(o)
        PROVE  Lifecycle!Next
    BY <1>4, LifecycleDecides DEF AlarmExpires, DecideOrder
  <1>5. ASSUME \/ ChatSchedules \/ Redeliver
               \/ \E c \in Calls : \/ \E o \in Orders, k \in Decisions :
                                         Ask(c, o, k)
                                  \/ CallEnds(c)
               \/ \E h \in Handlers :
                      DrainEnds(h) \/ Flush(h) \/ SendFails(h) \/ AnswerLost(h)
               \/ AlarmFires
               \/ \E o \in Orders : AlarmPicks(o)
               \/ AlarmPicksNothing \/ AlarmLeaves \/ AlarmEnds
               \/ Evict
               \/ UNCHANGED vars
        PROVE  UNCHANGED Lifecycle!vars
    <2>1. UNCHANGED order
      BY <1>5
      DEF ChatSchedules, Redeliver, Ask, CallEnds, DrainEnds, Flush,
          FlushReads, Receive, RecordDelivery, SendFails, AnswerLost,
          AlarmFires, AlarmPicks, AlarmPicksNothing, AlarmLeaves, AlarmEnds,
          Evict, vars
    <2> QED
      BY <2>1, LifecycleStutters
  <1> QED
    BY <1>1, <1>2, <1>3, <1>4, <1>5 DEF Next

(* The payments implement the abstract life of orders: the endpoint, the   *)
(* alarm and the chat, interleaved and evicted anywhere, place an order    *)
(* only when none awaits payment and decide each one once.                 *)
THEOREM PaymentsImplementLifecycle == Spec => OrdersAreDecidedOnce
  BY LifecycleBegins, LifecycleMoves, AgreementHolds, PTL
  DEF Spec, OrdersAreDecidedOnce, Lifecycle!Spec
=============================================================================
