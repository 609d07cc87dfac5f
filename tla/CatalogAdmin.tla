---------------------------- MODULE CatalogAdmin ----------------------------
(***************************************************************************)
(* The menu and the stock of the day in D1, and those who change them: an  *)
(* admin who talks to the bot (handleAdmin and setDailyStock of            *)
(* telegram-gateway/src/fastpath.ts), the scheduled job that copies the    *)
(* menu of the POS (syncCatalogFromPos of index.ts), and the customers     *)
(* whose orders take stock and give it back (reserveInventory and          *)
(* releaseInventory).                                                      *)
(*                                                                         *)
(* The updates of the admin's chat are processed one after the other, but  *)
(* without a transaction: the D1 calls come first, and only the end of the *)
(* processing puts the update on record.  An eviction or a failed call in  *)
(* between makes Telegram deliver the update again.  The POS changes while *)
(* its menu is being copied, and the day ends at any moment.               *)
(*                                                                         *)
(* Abstracted data: name and price of a product are one value.  An order   *)
(* takes one piece of one product (TelegramSession has the batches of      *)
(* several products).  Categories, which no code deactivates, are left     *)
(* out, and so are the commands that only show something.                  *)
(***************************************************************************)
EXTENDS Naturals, FiniteSets

CONSTANTS
    PosProducts,     \* products the POS may sell
    NewProducts,     \* ids that an admin's additions may draw
    Names,           \* values of a product: name and price
    Orders,          \* reservations
    None,            \* no product, no name
    AdminMessages,   \* what the admin may send
    Quantities,      \* stock an admin may set
    LastDay,         \* bound: days
    MaxUpdates,      \* bound: updates of the admin
    MaxPosChanges,   \* bound: changes of the POS menu
    MaxFaults        \* bound: updates of the admin cut short

Products == PosProducts \cup NewProducts
Days == 1 .. LastDay

(* The kinds of handleAdmin.  A text is a name, a price and a number in    *)
(* one; None is the "-" that keeps the value.                              *)
Kinds == {"cancel", "add", "edit", "text", "category", "stock", "on", "off"}

AdminMessage == [kind: Kinds, product: Products \cup {None},
                 name: Names \cup {None}, quantity: Quantities]

ASSUME CatalogAssumption ==
    /\ PosProducts \cap NewProducts = {}
    /\ None \notin Products \cup Names /\ Names # {}
    /\ AdminMessages \subseteq AdminMessage
    /\ \A m \in AdminMessages :
          m.kind \in {"edit", "stock", "on", "off"} => m.product \in Products
    /\ Quantities \subseteq Nat /\ IsFiniteSet(Orders)
    /\ LastDay \in Nat \ {0}
    /\ MaxUpdates \in Nat /\ MaxPosChanges \in Nat /\ MaxFaults \in Nat

VARIABLES
    product,      \* product[p]: its row in products
    stock,        \* stock[p][d]: its row in daily_inventory
    reservation,  \* reservation[o]: its row in inventory_reservations
    today,        \* vietnamBusinessDate()
    pos,          \* pos[p]: the product in the menu of the POS
    copied,       \* the menu that the scheduled job has fetched
    draft,        \* admin_drafts
    admin,        \* the update of the admin that is being processed
    updates,      \* updates of the admin so far, for the bound
    posChanges,   \* changes of the POS menu so far, for the bound
    faults        \* faults so far, for the bound

d1Vars    == <<product, stock, reservation>>
adminVars == <<draft, admin, updates>>
posVars   == <<pos, copied, posChanges>>
vars      == <<d1Vars, adminVars, posVars, today, faults>>

Row == [listed: BOOLEAN, available: BOOLEAN, name: Names \cup {None}]

NoRow == [listed |-> FALSE, available |-> FALSE, name |-> None]

NoMenu == [p \in PosProducts |-> NoRow]

(* back is history: what came back from orders that are older than the     *)
(* last time the stock was set.                                            *)
StockRow == [set: BOOLEAN, initial: Nat, remaining: Nat, back: Nat]

(* older is history: the stock was set after the reservation was made.     *)
Reservation == [status: {"none", "confirming", "RESERVED", "RELEASED"},
                product: Products \cup {None}, day: Days, older: BOOLEAN]

Drafts == {"none", "ADD_NAME", "ADD_PRICE", "ADD_CATEGORY", "ADD_STOCK",
           "EDIT_NAME", "EDIT_PRICE"}

NoDraft == [step |-> "none", product |-> None, name |-> None]

NoMessage == [kind |-> "none"]

IdleAdmin == [step |-> "idle", message |-> NoMessage, product |-> None]

TypeOK ==
    /\ product \in [Products -> Row]
    /\ stock \in [Products -> [Days -> StockRow]]
    /\ reservation \in [Orders -> Reservation]
    /\ today \in Days
    /\ pos \in [PosProducts -> Row]
    /\ copied \in [fetched: BOOLEAN, menu: [PosProducts -> Row]]
    /\ draft \in [step: Drafts, product: Products \cup {None},
                  name: Names \cup {None}]
    /\ admin \in [step: {"idle", "delivered", "inserted", "written"},
                  message: AdminMessages \cup {NoMessage},
                  product: Products \cup {None}]
    /\ updates \in Nat /\ posChanges \in Nat /\ faults \in Nat

Init ==
    /\ product = [p \in Products |->
           IF p \in PosProducts
           THEN [listed |-> TRUE, available |-> TRUE,
                 name |-> CHOOSE n \in Names : TRUE]
           ELSE NoRow]
    /\ stock = [p \in Products |-> [d \in Days |->
                   [set |-> FALSE, initial |-> 0, remaining |-> 0,
                    back |-> 0]]]
    /\ reservation = [o \in Orders |-> [status |-> "none", product |-> None,
                                        day |-> 1, older |-> FALSE]]
    /\ today = 1
    /\ pos = [p \in PosProducts |-> product[p]]
    /\ copied = [fetched |-> FALSE, menu |-> NoMenu]
    /\ draft = NoDraft /\ admin = IdleAdmin
    /\ updates = 0 /\ posChanges = 0 /\ faults = 0

Fails ==
    /\ faults < MaxFaults                                          \* bound
    /\ faults' = faults + 1

-----------------------------------------------------------------------------
(* The admin's chat.                                                       *)

Send(m) ==
    /\ admin.step = "idle" /\ updates < MaxUpdates                 \* bound
    /\ admin' = [IdleAdmin EXCEPT !.step = "delivered", !.message = m]
    /\ updates' = updates + 1
    /\ UNCHANGED <<d1Vars, draft, posVars, today, faults>>

(* handleAdmin returns and storeProcessed follows in the same turn.        *)
Done == admin' = IdleAdmin

Says(kind) == admin.step = "delivered" /\ admin.message.kind = kind

(* The commands come before the steps of a draft.                          *)
DraftAt(step) == Says("text") /\ draft.step = step

NewDraft(step) == draft' = [NoDraft EXCEPT !.step = step]

(* /quanly and /huyquanly.                                                 *)
CancelDraft ==
    /\ Says("cancel") /\ Done
    /\ draft' = NoDraft
    /\ UNCHANGED <<d1Vars, updates, posVars, today, faults>>

StartAdding ==
    /\ Says("add") /\ Done
    /\ NewDraft("ADD_NAME")
    /\ UNCHANGED <<d1Vars, updates, posVars, today, faults>>

AddName ==
    /\ DraftAt("ADD_NAME") /\ admin.message.name # None /\ Done
    /\ draft' = [draft EXCEPT !.step = "ADD_PRICE",
                              !.name = admin.message.name]
    /\ UNCHANGED <<d1Vars, updates, posVars, today, faults>>

AddPrice ==
    /\ DraftAt("ADD_PRICE") /\ admin.message.name # None /\ Done
    /\ draft' = [draft EXCEPT !.step = "ADD_CATEGORY"]
    /\ UNCHANGED <<d1Vars, updates, posVars, today, faults>>

(* Mutant: a category is taken at any step of an addition. *)
AddCategoryAnyStep ==
    /\ Says("category") /\ Done
    /\ draft.step \in {"ADD_NAME", "ADD_PRICE", "ADD_CATEGORY"}
    /\ draft' = [draft EXCEPT !.step = "ADD_STOCK"]
    /\ UNCHANGED <<d1Vars, updates, posVars, today, faults>>

AddCategory ==
    /\ Says("category") /\ draft.step = "ADD_CATEGORY" /\ Done
    /\ draft' = [draft EXCEPT !.step = "ADD_STOCK"]
    /\ UNCHANGED <<d1Vars, updates, posVars, today, faults>>

(* A new id at every attempt.  A button has no text, and no text is the    *)
(* number 0: a category that is pressed once more ends the addition.       *)
InsertProduct(p) ==
    /\ \/ DraftAt("ADD_STOCK") /\ admin.message.name # None
       \/ Says("category") /\ draft.step = "ADD_STOCK"
    /\ p \in NewProducts /\ ~product[p].listed
    /\ product' = [product EXCEPT ![p] = [listed |-> TRUE, available |-> TRUE,
                                          name |-> draft.name]]
    /\ admin' = [admin EXCEPT !.step = "inserted", !.product = p]
    /\ UNCHANGED <<stock, reservation, draft, updates, posVars, today, faults>>

(* The upsert of setDailyStock.                                            *)
UpsertStock(p, q) ==
    /\ stock' = [stock EXCEPT ![p][today] =
                     [set |-> TRUE, initial |-> q, remaining |-> q,
                      back |-> 0]]
    /\ reservation' = [o \in Orders |->
           IF reservation[o].product = p /\ reservation[o].day = today
              /\ reservation[o].status \in {"RESERVED", "RELEASED"}
           THEN [reservation[o] EXCEPT !.older = TRUE] ELSE reservation[o]]

(* Mutant: the stock of a new product is not set. *)
StockNoAddition ==
    /\ admin.step = "inserted"
    /\ admin' = [admin EXCEPT !.step = "written"]
    /\ UNCHANGED <<d1Vars, draft, updates, posVars, today, faults>>

StockAddition ==
    /\ admin.step = "inserted"
    /\ UpsertStock(admin.product, IF admin.message.kind = "category" THEN 0
                                  ELSE admin.message.quantity)
    /\ admin' = [admin EXCEPT !.step = "written"]
    /\ UNCHANGED <<product, draft, updates, posVars, today, faults>>

(* /ton.                                                                   *)
SetDailyStock ==
    LET p == admin.message.product IN
    /\ Says("stock") /\ product[p].listed
    /\ UpsertStock(p, admin.message.quantity)
    /\ admin' = [admin EXCEPT !.step = "written"]
    /\ UNCHANGED <<product, draft, updates, posVars, today, faults>>

(* /bat and /tat.                                                          *)
SwitchProduct ==
    LET p == admin.message.product IN
    /\ Says("on") \/ Says("off")
    /\ product[p].listed
    /\ product' = [product EXCEPT ![p].available =
                       (admin.message.kind = "on")]
    /\ admin' = [admin EXCEPT !.step = "written"]
    /\ UNCHANGED <<stock, reservation, draft, updates, posVars, today, faults>>

StartEditing ==
    LET p == admin.message.product IN
    /\ Says("edit") /\ product[p].listed /\ Done
    /\ draft' = [NoDraft EXCEPT !.step = "EDIT_NAME", !.product = p,
                                !.name = product[p].name]
    /\ UNCHANGED <<d1Vars, updates, posVars, today, faults>>

(* "-" keeps the name that /suamon has read.                               *)
EditName ==
    /\ DraftAt("EDIT_NAME") /\ Done
    /\ draft' = [draft EXCEPT
           !.step = "EDIT_PRICE",
           !.name = IF admin.message.name = None THEN @
                                                 ELSE admin.message.name]
    /\ UNCHANGED <<d1Vars, updates, posVars, today, faults>>

(* Name and price are written together; a kept price is the one that       *)
(* /suamon has read.                                                       *)
EditPrice ==
    /\ DraftAt("EDIT_PRICE")
    /\ product' = [product EXCEPT ![draft.product].name = draft.name]
    /\ admin' = [admin EXCEPT !.step = "written"]
    /\ UNCHANGED <<stock, reservation, draft, updates, posVars, today, faults>>

(* The D1 call has answered: a draft that is complete is cleared, and the  *)
(* update is put on record.                                                *)
Conclude ==
    /\ admin.step = "written" /\ Done
    /\ draft' = IF admin.message.kind \in {"text", "category"}
              THEN NoDraft ELSE draft
    /\ UNCHANGED <<d1Vars, updates, posVars, today, faults>>

(* An unknown product, a value that is not valid, a message that fits no   *)
(* step: only an answer.                                                   *)
NothingToDo ==
    /\ \/ /\ admin.step = "delivered"
          /\ admin.message.kind \in {"edit", "stock", "on", "off"}
          /\ ~product[admin.message.product].listed
       \/ Says("text") /\ draft.step \in {"none", "ADD_CATEGORY"}
       \/ /\ Says("text") /\ admin.message.name = None
          /\ draft.step \in {"ADD_NAME", "ADD_PRICE", "ADD_STOCK"}
       \/ /\ Says("category")
          /\ draft.step \notin {"ADD_CATEGORY", "ADD_STOCK"}
    /\ Done
    /\ UNCHANGED <<d1Vars, draft, updates, posVars, today, faults>>

(* An eviction, or a D1 call that fails or whose answer is lost: Telegram  *)
(* delivers the update again.                                              *)
CutShort ==
    /\ admin.step \in {"inserted", "written"} /\ Fails
    /\ admin' = [admin EXCEPT !.step = "delivered", !.product = None]
    /\ UNCHANGED <<d1Vars, draft, updates, posVars, today>>

Administrate ==
    \/ CancelDraft \/ StartAdding \/ AddName \/ AddPrice \/ AddCategory
    \/ \E p \in NewProducts : InsertProduct(p)
    \/ StockAddition \/ SetDailyStock \/ SwitchProduct
    \/ StartEditing \/ EditName \/ EditPrice
    \/ Conclude \/ NothingToDo

-----------------------------------------------------------------------------
(* The menu of the POS.                                                    *)

(* A product is removed or put back, switched off or on, or renamed.       *)
PosChanges(p) ==
    /\ posChanges < MaxPosChanges                                  \* bound
    /\ posChanges' = posChanges + 1
    /\ \/ pos[p].listed /\ pos' = [pos EXCEPT ![p] = NoRow]
       \/ pos[p].listed /\ pos' = [pos EXCEPT ![p].available = ~@]
       \/ \E n \in Names \ {pos[p].name} :
             pos' = [pos EXCEPT ![p] = [listed |-> TRUE, available |-> TRUE,
                                        name |-> n]]
    /\ UNCHANGED <<d1Vars, adminVars, copied, today, faults>>

InMenu(p) == p \in PosProducts /\ copied.menu[p].listed

FetchMenu ==
    /\ ~copied.fetched
    /\ copied' = [fetched |-> TRUE, menu |-> pos]
    /\ UNCHANGED <<d1Vars, adminVars, pos, posChanges, today, faults>>

(* Mutant: what the menu does not have any more is left as it is. *)
CopyWithoutDeactivating ==
    /\ copied.fetched
    /\ product' = [p \in Products |->
           IF InMenu(p) THEN copied.menu[p] ELSE product[p]]
    /\ copied' = [fetched |-> FALSE, menu |-> NoMenu]
    /\ UNCHANGED <<stock, reservation, adminVars, pos, posChanges, today,
                   faults>>

(* One batch: everything is deactivated, then the menu is upserted.        *)
CopyMenu ==
    /\ copied.fetched
    /\ product' = [p \in Products |->
           IF InMenu(p)
           THEN copied.menu[p]
           ELSE [product[p] EXCEPT !.available = FALSE]]
    /\ copied' = [fetched |-> FALSE, menu |-> NoMenu]
    /\ UNCHANGED <<stock, reservation, adminVars, pos, posChanges, today,
                   faults>>

(* The batch is rolled back, or not all of the menu is well formed.        *)
CopyFails ==
    /\ copied.fetched
    /\ copied' = [fetched |-> FALSE, menu |-> NoMenu]
    /\ UNCHANGED <<d1Vars, adminVars, pos, posChanges, today, faults>>

-----------------------------------------------------------------------------
(* The customers.                                                          *)

(* confirm_order: the day of the reservation is that of its first step.    *)
(* The cart is not held against the menu again: p was there once.          *)
Confirm(o, p) ==
    /\ reservation[o].status = "none"
    /\ product[p].listed
    /\ reservation' = [reservation EXCEPT
           ![o].status = "confirming", ![o].product = p, ![o].day = today]
    /\ UNCHANGED <<product, stock, adminVars, posVars, today, faults>>

(* Mutant: the stock of today is taken, not that of the reservation. *)
ReserveToday(o) ==
    LET p == reservation[o].product
        d == today
        s == stock[p][d] IN
    /\ reservation[o].status = "confirming"
    /\ ~s.set \/ s.remaining > 0
    /\ reservation' = [reservation EXCEPT ![o].status = "RESERVED"]
    /\ stock' = IF s.set THEN [stock EXCEPT ![p][d].remaining = @ - 1]
                         ELSE stock
    /\ UNCHANGED <<product, adminVars, posVars, today, faults>>

(* Mutant: what is left is not looked at. *)
ReserveUnguarded(o) ==
    LET p == reservation[o].product
        d == reservation[o].day IN
    /\ reservation[o].status = "confirming"
    /\ reservation' = [reservation EXCEPT ![o].status = "RESERVED"]
    /\ stock' = IF stock[p][d].set
                THEN [stock EXCEPT ![p][d].remaining = @ - 1] ELSE stock
    /\ UNCHANGED <<product, adminVars, posVars, today, faults>>

(* reserveInventory, one batch: a product without a row for the day is     *)
(* sold without limit.                                                     *)
Reserve(o) ==
    LET p == reservation[o].product
        d == reservation[o].day
        s == stock[p][d] IN
    /\ reservation[o].status = "confirming"
    /\ \/ /\ s.set /\ s.remaining > 0
          /\ stock' = [stock EXCEPT ![p][d].remaining = @ - 1]
          /\ reservation' = [reservation EXCEPT ![o].status = "RESERVED"]
       \/ /\ ~s.set
          /\ reservation' = [reservation EXCEPT ![o].status = "RESERVED"]
          /\ UNCHANGED stock
       \/ /\ s.set /\ s.remaining = 0
          /\ reservation' = [reservation EXCEPT ![o].status = "RELEASED"]
          /\ UNCHANGED stock
    /\ UNCHANGED <<product, adminVars, posVars, today, faults>>

(* releaseInventory, one batch: what was reserved is added to the row of   *)
(* its day, whoever has set that row since.                                *)
Release(o) ==
    LET p == reservation[o].product
        d == reservation[o].day IN
    /\ reservation[o].status = "RESERVED"
    /\ reservation' = [reservation EXCEPT ![o].status = "RELEASED"]
    /\ stock' = IF stock[p][d].set
                THEN [stock EXCEPT ![p][d].remaining = @ + 1,
                          ![p][d].back =
                              @ + (IF reservation[o].older THEN 1 ELSE 0)]
                ELSE stock
    /\ UNCHANGED <<product, adminVars, posVars, today, faults>>

Midnight ==
    /\ today < LastDay                                             \* bound
    /\ today' = today + 1
    /\ UNCHANGED <<d1Vars, adminVars, posVars, faults>>

-----------------------------------------------------------------------------
Next ==
    \/ \E m \in AdminMessages : Send(m)
    \/ Administrate \/ CutShort
    \/ \E p \in PosProducts : PosChanges(p)
    \/ FetchMenu \/ CopyMenu \/ CopyFails
    \/ \E o \in Orders :
          Reserve(o) \/ Release(o) \/ \E p \in Products : Confirm(o, p)
    \/ Midnight

Spec == Init /\ [][Next]_vars

(* Telegram delivers an update until it has been processed.  The job runs  *)
(* every five minutes, and does not fail every time.                       *)
Fairness ==
    /\ WF_vars(Administrate)
    /\ WF_vars(FetchMenu) /\ SF_vars(CopyMenu)

FairSpec == Spec /\ Fairness

-----------------------------------------------------------------------------
(* Properties.                                                             *)

(* Orders that have taken from the stock of p on d since it was last set.  *)
Taken(p, d) ==
    Cardinality({o \in Orders : /\ reservation[o].status = "RESERVED"
                                /\ reservation[o].product = p
                                /\ reservation[o].day = d
                                /\ ~reservation[o].older})

(* The books balance, over midnight, redelivered commands and releases of  *)
(* older orders: what is left of a stock is what was set, less the orders  *)
(* that have taken from it, plus what came back from orders before that.   *)
StockAddsUp ==
    \A p \in Products, d \in Days :
        LET s == stock[p][d] IN
        s.set => s.remaining + Taken(p, d) = s.initial + s.back

Stocked(p) == \E d \in Days : stock[p][d].set

(* Added products that never got a stock, and that no update of the admin  *)
(* is about to give one: they are sold without limit from the first day.   *)
LeftBehind ==
    {p \in NewProducts : /\ product[p].listed /\ ~Stocked(p)
                         /\ ~(admin.step = "inserted" /\ admin.product = p)}

(* Additions come out whole, however often they are cut short, delivered   *)
(* again, cancelled, begun anew or answered by a button of an older one:   *)
(* each update cut short leaves at most one product without a stock, and   *)
(* none goes on the menu with a value that was not entered.  Of the days   *)
(* after the first nothing is said: no code sets the stock of a new day.   *)
AdditionsAreWhole ==
    /\ Cardinality(LeftBehind) <= faults
    /\ \A p \in Products : product[p].listed => product[p].name # None

(* index.ts:337: a product removed from the POS cannot remain sellable for *)
(* ever; and what the POS has is sold under its name.                      *)
MenuFollowsPos ==
    <>[](/\ \A p \in PosProducts :
               /\ product[p].available = pos[p].available
               /\ pos[p].listed => product[p].name = pos[p].name
         /\ \A p \in NewProducts : ~product[p].available)
=============================================================================
