------------------------ MODULE CatalogAdmin_proofs ------------------------
(***************************************************************************)
(* Theorems about CatalogAdmin for every menu, every set of orders and any *)
(* number of days, admin commands, faults and changes at the POS: the      *)
(* books of the stock balance, and additions come out whole.               *)
(***************************************************************************)
EXTENDS CatalogAdmin, FiniteSetTheorems, TLAPS

-----------------------------------------------------------------------------
(* What the properties rest on.                                            *)

(* The types, by who writes the variables.                                 *)
D1Types ==
    /\ product \in [Products -> Row]
    /\ stock \in [Products -> [Days -> StockRow]]
    /\ reservation \in [Orders -> Reservation]

AdminTypes ==
    /\ draft \in [step: Drafts, product: Products \cup {None},
                  name: Names \cup {None}]
    /\ admin \in [step: {"idle", "delivered", "inserted", "written"},
                  message: AdminMessages \cup {NoMessage},
                  product: Products \cup {None}]
    /\ updates \in Nat /\ faults \in Nat

PosTypes ==
    /\ pos \in [PosProducts -> Row]
    /\ copied \in [fetched: BOOLEAN, menu: [PosProducts -> Row]]
    /\ posChanges \in Nat

LEMMA TypesSplit ==
    TypeOK <=> D1Types /\ AdminTypes /\ PosTypes /\ today \in Days
  BY DEF TypeOK, D1Types, AdminTypes, PosTypes

(* An update that is processed has a message; a draft of an edit and an    *)
(* addition that awaits its stock have a product.                          *)
ChatInv ==
    /\ admin.step # "idle" => admin.message \in AdminMessages
    /\ admin.step = "inserted" => admin.product \in NewProducts
    /\ draft.step \in {"EDIT_NAME", "EDIT_PRICE"} => draft.product \in Products

(* A stock can only be set again after a reservation that was made.        *)
ReservationInv ==
    \A o \in Orders :
        /\ reservation[o].status # "none" => reservation[o].product \in Products
        /\ reservation[o].status \in {"none", "confirming"} =>
              ~reservation[o].older

(* The products without a stock are counted by the updates cut short.      *)
AdditionInv == IsFiniteSet(LeftBehind) /\ Cardinality(LeftBehind) <= faults

CatalogInv == TypeOK /\ ChatInv /\ ReservationInv /\ StockAddsUp /\ AdditionInv

(* The orders that Taken counts. *)
Takers(p, d) ==
    {o \in Orders : /\ reservation[o].status = "RESERVED"
                    /\ reservation[o].product = p
                    /\ reservation[o].day = d
                    /\ ~reservation[o].older}

LEMMA TakenCounts ==
    ASSUME NEW p, NEW d
    PROVE  /\ Taken(p, d) = Cardinality(Takers(p, d))
           /\ IsFiniteSet(Takers(p, d)) /\ Taken(p, d) \in Nat
  <1>1. Taken(p, d) = Cardinality(Takers(p, d))
    BY DEF Taken, Takers
  <1>2. Takers(p, d) \subseteq Orders /\ IsFiniteSet(Orders)
    BY CatalogAssumption DEF Takers, CatalogAssumption
  <1>3. IsFiniteSet(Takers(p, d))
    BY <1>2, FS_Subset
  <1> QED
    BY <1>1, <1>3, FS_CardinalityType

(* A step that leaves no further product behind.                           *)
LEMMA NoneLeftBehind ==
    ASSUME AdditionInv, LeftBehind' \subseteq LeftBehind,
           faults \in Nat, faults' \in Nat, faults <= faults'
    PROVE  AdditionInv'
  <1>1. PICK S : S = LeftBehind
    OBVIOUS
  <1>2. PICK R : R = LeftBehind'
    OBVIOUS
  <1>3. IsFiniteSet(S) /\ Cardinality(S) <= faults /\ R \subseteq S
    BY <1>1, <1>2 DEF AdditionInv
  <1>4. IsFiniteSet(R) /\ Cardinality(R) <= Cardinality(S)
    BY <1>3, FS_Subset, ZenonT(30)
  <1>5. Cardinality(R) \in Nat /\ Cardinality(S) \in Nat
    BY <1>3, <1>4, FS_CardinalityType
  <1>6. Cardinality(R) <= faults'
    BY <1>3, <1>4, <1>5
  <1> QED
    BY <1>2, <1>4, <1>6 DEF AdditionInv

(* An update that is cut short leaves the product behind that it added.    *)
LEMMA OneLeftBehind ==
    ASSUME AdditionInv, NEW p, LeftBehind' \subseteq LeftBehind \cup {p},
           faults \in Nat, faults' = faults + 1
    PROVE  AdditionInv'
  <1>1. PICK S : S = LeftBehind
    OBVIOUS
  <1>2. PICK R : R = LeftBehind'
    OBVIOUS
  <1>3. PICK T : T = S \cup {p}
    OBVIOUS
  <1>4. IsFiniteSet(S) /\ Cardinality(S) <= faults /\ R \subseteq T
    BY <1>1, <1>2, <1>3 DEF AdditionInv
  <1>5. IsFiniteSet(T)
    BY <1>3, <1>4, FS_AddElement
  <1>6. Cardinality(T) = Cardinality(S) \/ Cardinality(T) = Cardinality(S) + 1
    <2>1. CASE p \in S
      <3>1. T = S
        BY <1>3, <2>1
      <3> QED
        BY <3>1
    <2>2. CASE p \notin S
      BY <1>3, <1>4, <2>2, FS_AddElement
    <2> QED
      BY <2>1, <2>2
  <1>7. IsFiniteSet(R) /\ Cardinality(R) <= Cardinality(T)
    BY <1>4, <1>5, FS_Subset, ZenonT(30)
  <1>8. /\ Cardinality(R) \in Nat /\ Cardinality(S) \in Nat
        /\ Cardinality(T) \in Nat
    BY <1>4, <1>5, <1>7, FS_CardinalityType
  <1>9. Cardinality(R) <= faults'
    BY <1>4, <1>6, <1>7, <1>8
  <1> QED
    BY <1>2, <1>7, <1>9 DEF AdditionInv

LEMMA InitCatalog == Init => CatalogInv
  <1> SUFFICES ASSUME Init PROVE CatalogInv
    OBVIOUS
  <1>1. PICK n \in Names : n = CHOOSE m \in Names : TRUE
    BY CatalogAssumption DEF CatalogAssumption
  <1>2. 1 \in Days
    BY CatalogAssumption DEF CatalogAssumption, Days
  <1>3. product = [p \in Products |->
            IF p \in PosProducts
            THEN [listed |-> TRUE, available |-> TRUE, name |-> n]
            ELSE NoRow]
    BY <1>1 DEF Init
  <1>4. /\ [listed |-> TRUE, available |-> TRUE, name |-> n] \in Row
        /\ NoRow \in Row
    BY DEF Row, NoRow
  <1>5. product \in [Products -> Row]
    BY <1>3, <1>4
  <1>6. \A p \in NewProducts : ~product[p].listed
    BY <1>3, CatalogAssumption DEF CatalogAssumption, Products, NoRow
  <1>7. stock \in [Products -> [Days -> StockRow]]
    <2>1. [set |-> FALSE, initial |-> 0, remaining |-> 0, back |-> 0] \in StockRow
      BY DEF StockRow
    <2> QED
      BY <2>1 DEF Init
  <1>8. reservation \in [Orders -> Reservation]
    BY <1>2 DEF Init, Reservation
  <1>9. D1Types
    BY <1>5, <1>7, <1>8 DEF D1Types
  <1>10. AdminTypes
    BY DEF Init, AdminTypes, NoDraft, Drafts, IdleAdmin
  <1>11. PosTypes
    <2>1. pos \in [PosProducts -> Row]
      BY <1>5 DEF Init, Products
    <2>2. NoMenu \in [PosProducts -> Row]
      BY <1>4 DEF NoMenu
    <2> QED
      BY <2>1, <2>2 DEF Init, PosTypes
  <1>12. TypeOK
    BY <1>2, <1>9, <1>10, <1>11, TypesSplit DEF Init
  <1>13. ChatInv /\ ReservationInv
    BY DEF Init, ChatInv, ReservationInv, NoDraft, IdleAdmin
  <1>14. StockAddsUp
    BY DEF Init, StockAddsUp
  <1>15. AdditionInv
    <2>1. LeftBehind = {}
      BY <1>6 DEF LeftBehind
    <2>2. faults = 0
      BY DEF Init
    <2> QED
      BY <2>1, <2>2, FS_EmptySet DEF AdditionInv
  <1> QED
    BY <1>12, <1>13, <1>14, <1>15 DEF CatalogInv

-----------------------------------------------------------------------------
(* The books.                                                              *)

BooksInv == D1Types /\ ReservationInv /\ StockAddsUp

LEMMA BooksStay ==
    ASSUME BooksInv, UNCHANGED <<stock, reservation>>,
           product' \in [Products -> Row]
    PROVE  BooksInv' /\ \A p \in Products : Stocked(p) => Stocked(p)'
  <1>1. D1Types' /\ ReservationInv'
    BY DEF BooksInv, D1Types, ReservationInv
  <1>2. \A p, d : Taken(p, d)' = Taken(p, d)
    BY DEF Taken
  <1>3. StockAddsUp'
    BY <1>2 DEF BooksInv, StockAddsUp
  <1> QED
    BY <1>1, <1>3 DEF BooksInv, Stocked

(* Setting a stock starts the books of that day anew.                      *)
LEMMA UpsertKeepsBooks ==
    ASSUME BooksInv, today \in Days, NEW p \in Products, NEW q \in Nat,
           UpsertStock(p, q), UNCHANGED product
    PROVE  /\ BooksInv' /\ Stocked(p)'
           /\ \A x \in Products : Stocked(x) => Stocked(x)'
  <1>1. PICK new : new = [set |-> TRUE, initial |-> q, remaining |-> q,
                          back |-> 0]
    OBVIOUS
  <1>2. /\ new \in StockRow /\ new.set
        /\ new.initial = q /\ new.remaining = q /\ new.back = 0
    BY <1>1 DEF StockRow
  <1>3. stock' = [stock EXCEPT ![p][today] = new]
    BY <1>1 DEF UpsertStock
  <1>4. stock \in [Products -> [Days -> StockRow]]
    BY DEF BooksInv, D1Types
  <1>5. /\ stock' \in [Products -> [Days -> StockRow]]
        /\ stock'[p][today] = new
        /\ \A x \in Products, d \in Days :
              x # p \/ d # today => stock'[x][d] = stock[x][d]
    BY <1>2, <1>3, <1>4
  <1>6. reservation \in [Orders -> Reservation]
    BY DEF BooksInv, D1Types
  <1>7. \A o \in Orders :
           \/ /\ reservation[o].product = p /\ reservation[o].day = today
              /\ reservation[o].status \in {"RESERVED", "RELEASED"}
              /\ reservation'[o] = [reservation[o] EXCEPT !.older = TRUE]
           \/ /\ ~(/\ reservation[o].product = p /\ reservation[o].day = today
                   /\ reservation[o].status \in {"RESERVED", "RELEASED"})
              /\ reservation'[o] = reservation[o]
    BY <1>6 DEF UpsertStock
  <1>8. \A r \in Reservation :
           /\ [r EXCEPT !.older = TRUE] \in Reservation
           /\ [r EXCEPT !.older = TRUE].older = TRUE
           /\ [r EXCEPT !.older = TRUE].status = r.status
           /\ [r EXCEPT !.older = TRUE].product = r.product
           /\ [r EXCEPT !.older = TRUE].day = r.day
    BY DEF Reservation
  <1>9. \A o \in Orders :
           /\ reservation'[o] \in Reservation
           /\ reservation'[o].status = reservation[o].status
           /\ reservation'[o].product = reservation[o].product
           /\ reservation'[o].day = reservation[o].day
           /\ reservation'[o].older <=>
                 \/ reservation[o].older
                 \/ /\ reservation[o].product = p /\ reservation[o].day = today
                    /\ reservation[o].status \in {"RESERVED", "RELEASED"}
    <2> SUFFICES ASSUME NEW o \in Orders
                 PROVE  /\ reservation'[o] \in Reservation
                        /\ reservation'[o].status = reservation[o].status
                        /\ reservation'[o].product = reservation[o].product
                        /\ reservation'[o].day = reservation[o].day
                        /\ reservation'[o].older <=>
                              \/ reservation[o].older
                              \/ /\ reservation[o].product = p
                                 /\ reservation[o].day = today
                                 /\ reservation[o].status \in
                                       {"RESERVED", "RELEASED"}
      OBVIOUS
    <2>1. reservation[o] \in Reservation
      BY <1>6
    <2> QED
      BY <1>7, <1>8, <2>1
  <1>10. reservation' \in [Orders -> Reservation]
    <2>1. reservation' = [o \in Orders |-> reservation'[o]]
      BY DEF UpsertStock
    <2> QED
      BY <1>9, <2>1
  <1>11. D1Types'
    BY <1>5, <1>10 DEF BooksInv, D1Types
  <1>12. ReservationInv'
    BY <1>9 DEF BooksInv, ReservationInv
  <1>13. StockAddsUp'
    <2>1. ASSUME NEW x \in Products, NEW d \in Days, stock'[x][d].set
          PROVE  stock'[x][d].remaining + Taken(x, d)'
                    = stock'[x][d].initial + stock'[x][d].back
      <3>1. CASE x = p /\ d = today
        <4>1. Takers(x, d)' = {}
          BY <1>9, <3>1 DEF Takers
        <4>2. Taken(x, d)' = 0
          <5>1. Taken(x, d)' = Cardinality(Takers(x, d)')
            BY DEF Taken, Takers
          <5> QED
            BY <4>1, <5>1, FS_EmptySet
        <4> QED
          BY <1>2, <1>5, <3>1, <4>2
      <3>2. CASE x # p \/ d # today
        <4>1. Takers(x, d)' = Takers(x, d)
          BY <1>9, <3>2 DEF Takers
        <4>2. Taken(x, d)' = Taken(x, d)
          BY <4>1 DEF Taken, Takers
        <4> QED
          BY <1>5, <2>1, <3>2, <4>2 DEF BooksInv, StockAddsUp
      <3> QED
        BY <3>1, <3>2
    <2> QED
      BY <2>1 DEF StockAddsUp
  <1>14. Stocked(p)'
    BY <1>2, <1>5 DEF Stocked
  <1>15. \A x \in Products : Stocked(x) => Stocked(x)'
    BY <1>2, <1>5 DEF Stocked
  <1> QED
    BY <1>11, <1>12, <1>13, <1>14, <1>15 DEF BooksInv

(* The orders counted for a product and a day, when one order moves.       *)
LEMMA OthersCountAlike ==
    ASSUME NEW o \in Orders, NEW x, NEW d,
           \A h \in Orders \ {o} : reservation'[h] = reservation[h],
           ~(/\ reservation[o].status = "RESERVED" /\ reservation[o].product = x
             /\ reservation[o].day = d /\ ~reservation[o].older),
           ~(/\ reservation'[o].status = "RESERVED" /\ reservation'[o].product = x
             /\ reservation'[o].day = d /\ ~reservation'[o].older)
    PROVE  Taken(x, d)' = Taken(x, d)
  <1>1. Takers(x, d)' = Takers(x, d)
    BY DEF Takers
  <1> QED
    BY <1>1 DEF Taken, Takers

LEMMA OneMore ==
    ASSUME NEW S, NEW T, NEW o, IsFiniteSet(S), T = S \cup {o}, o \notin S
    PROVE  Cardinality(T) = Cardinality(S) + 1
  BY FS_AddElement

LEMMA OneLess ==
    ASSUME NEW S, NEW T, NEW o, IsFiniteSet(S), T = S \ {o}, o \in S
    PROVE  Cardinality(T) = Cardinality(S) - 1
  BY FS_RemoveElement

LEMMA TakerJoins ==
    ASSUME NEW o \in Orders, NEW x, NEW d,
           \A h \in Orders \ {o} : reservation'[h] = reservation[h],
           reservation[o].status # "RESERVED",
           /\ reservation'[o].status = "RESERVED" /\ reservation'[o].product = x
           /\ reservation'[o].day = d /\ ~reservation'[o].older
    PROVE  Taken(x, d)' = Taken(x, d) + 1
  <1>1. Takers(x, d)' = Takers(x, d) \cup {o} /\ o \notin Takers(x, d)
    BY DEF Takers
  <1>2. Cardinality(Takers(x, d)') = Cardinality(Takers(x, d)) + 1
    <2>1. IsFiniteSet(Takers(x, d))
      BY TakenCounts
    <2> QED
      BY <1>1, <2>1, OneMore, ZenonT(30)
  <1>3. Taken(x, d)' = Cardinality(Takers(x, d)')
    BY DEF Taken, Takers
  <1> QED
    BY <1>2, <1>3, TakenCounts

LEMMA TakerLeaves ==
    ASSUME NEW o \in Orders, NEW x, NEW d,
           \A h \in Orders \ {o} : reservation'[h] = reservation[h],
           reservation'[o].status # "RESERVED",
           /\ reservation[o].status = "RESERVED" /\ reservation[o].product = x
           /\ reservation[o].day = d /\ ~reservation[o].older
    PROVE  Taken(x, d) = Taken(x, d)' + 1
  <1>1. Takers(x, d)' = Takers(x, d) \ {o} /\ o \in Takers(x, d)
    BY DEF Takers
  <1>2. Cardinality(Takers(x, d)') = Cardinality(Takers(x, d)) - 1
    <2>1. IsFiniteSet(Takers(x, d))
      BY TakenCounts
    <2> QED
      BY <1>1, <2>1, OneLess, ZenonT(30)
  <1>3. Taken(x, d)' = Cardinality(Takers(x, d)')
    BY DEF Taken, Takers
  <1> QED
    BY <1>2, <1>3, TakenCounts

(* A row of daily_inventory is written. *)
LEMMA StockWritten ==
    ASSUME stock \in [Products -> [Days -> StockRow]],
           NEW p \in Products, NEW d \in Days, stock[p][d].set,
           NEW n \in Nat, NEW b \in Nat,
           stock' = [stock EXCEPT ![p][d] =
                        [stock[p][d] EXCEPT !.remaining = n, !.back = b]]
    PROVE  /\ stock' \in [Products -> [Days -> StockRow]]
           /\ stock'[p][d].set /\ stock'[p][d].initial = stock[p][d].initial
           /\ stock'[p][d].remaining = n /\ stock'[p][d].back = b
           /\ \A x \in Products, e \in Days :
                 x # p \/ e # d => stock'[x][e] = stock[x][e]
           /\ \A x \in Products : Stocked(x) => Stocked(x)'
  <1>1. PICK new : new = [stock[p][d] EXCEPT !.remaining = n, !.back = b]
    OBVIOUS
  <1>2. stock[p][d] \in StockRow
    OBVIOUS
  <1>3. /\ new \in StockRow /\ new.set /\ new.initial = stock[p][d].initial
        /\ new.remaining = n /\ new.back = b
    BY <1>1, <1>2 DEF StockRow
  <1>4. stock' = [stock EXCEPT ![p][d] = new]
    BY <1>1
  <1>5. /\ stock' \in [Products -> [Days -> StockRow]]
        /\ stock'[p][d] = new
        /\ \A x \in Products, e \in Days :
              x # p \/ e # d => stock'[x][e] = stock[x][e]
    <2>1. new \in StockRow
      BY <1>3
    <2>2. PICK row : row = [stock[p] EXCEPT ![d] = new]
      OBVIOUS
    <2>3. /\ row \in [Days -> StockRow] /\ row[d] = new
          /\ \A e \in Days \ {d} : row[e] = stock[p][e]
      BY <2>1, <2>2
    <2>4. stock' = [stock EXCEPT ![p] = row]
      BY <1>4, <2>2
    <2>5. /\ stock' \in [Products -> [Days -> StockRow]] /\ stock'[p] = row
          /\ \A x \in Products \ {p} : stock'[x] = stock[x]
      BY <2>3, <2>4
    <2> QED
      BY <2>3, <2>5
  <1> QED
    BY <1>3, <1>5 DEF Stocked

(* A reservation changes its status. *)
LEMMA StatusWritten ==
    ASSUME reservation \in [Orders -> Reservation], NEW o \in Orders,
           NEW status \in {"RESERVED", "RELEASED"},
           reservation' = [reservation EXCEPT ![o].status = status]
    PROVE  /\ reservation' \in [Orders -> Reservation]
           /\ \A h \in Orders \ {o} : reservation'[h] = reservation[h]
           /\ reservation'[o].status = status
           /\ reservation'[o].product = reservation[o].product
           /\ reservation'[o].day = reservation[o].day
           /\ reservation'[o].older = reservation[o].older
  <1>1. PICK new : new = [reservation[o] EXCEPT !.status = status]
    OBVIOUS
  <1>2. reservation[o] \in Reservation
    OBVIOUS
  <1>3. /\ new \in Reservation /\ new.status = status
        /\ new.product = reservation[o].product
        /\ new.day = reservation[o].day /\ new.older = reservation[o].older
    BY <1>1, <1>2 DEF Reservation
  <1>4. reservation' = [reservation EXCEPT ![o] = new]
    BY <1>1
  <1> QED
    BY <1>3, <1>4

LEMMA ConfirmKeepsBooks ==
    ASSUME BooksInv, today \in Days, NEW o \in Orders, NEW p \in Products,
           Confirm(o, p)
    PROVE  BooksInv' /\ UNCHANGED stock
  <1>1. reservation \in [Orders -> Reservation] /\ reservation[o] \in Reservation
    BY DEF BooksInv, D1Types
  <1>2. PICK new : new = [reservation[o] EXCEPT
                             !.status = "confirming", !.product = p,
                             !.day = today]
    OBVIOUS
  <1>3. /\ new \in Reservation /\ new.status = "confirming"
        /\ new.product = p /\ new.older = reservation[o].older
    BY <1>1, <1>2 DEF Reservation
  <1>4. reservation' = [reservation EXCEPT ![o] = new]
    BY <1>2 DEF Confirm
  <1>5. /\ reservation' \in [Orders -> Reservation]
        /\ reservation'[o] = new
        /\ \A h \in Orders \ {o} : reservation'[h] = reservation[h]
    BY <1>1, <1>3, <1>4
  <1>6. reservation[o].status = "none" /\ UNCHANGED <<product, stock>>
    BY DEF Confirm
  <1>7. D1Types'
    BY <1>5, <1>6 DEF BooksInv, D1Types
  <1>8. ReservationInv'
    BY <1>3, <1>5, <1>6 DEF BooksInv, ReservationInv
  <1>9. \A x \in Products, d \in Days : Taken(x, d)' = Taken(x, d)
    BY <1>3, <1>5, <1>6, OthersCountAlike
  <1>10. StockAddsUp'
    BY <1>6, <1>9 DEF BooksInv, StockAddsUp
  <1> QED
    BY <1>6, <1>7, <1>8, <1>10 DEF BooksInv

LEMMA ReserveKeepsBooks ==
    ASSUME BooksInv, NEW o \in Orders, Reserve(o)
    PROVE  BooksInv' /\ \A x \in Products : Stocked(x) => Stocked(x)'
  <1>1. /\ reservation \in [Orders -> Reservation]
        /\ reservation[o] \in Reservation
        /\ stock \in [Products -> [Days -> StockRow]]
    BY DEF BooksInv, D1Types
  <1>2. reservation[o].status = "confirming" /\ UNCHANGED product
    BY DEF Reserve
  <1>3. PICK p \in Products, d \in Days :
            p = reservation[o].product /\ d = reservation[o].day
    BY <1>1, <1>2 DEF BooksInv, ReservationInv, Reservation
  <1>4. ~reservation[o].older
    BY <1>2 DEF BooksInv, ReservationInv
  <1>5. stock[p][d] \in StockRow
    BY <1>1
  <1>6. PICK status \in {"RESERVED", "RELEASED"} :
            reservation' = [reservation EXCEPT ![o].status = status]
    BY DEF Reserve
  <1>7. /\ reservation' \in [Orders -> Reservation]
        /\ \A h \in Orders \ {o} : reservation'[h] = reservation[h]
        /\ reservation'[o].status = status
        /\ reservation'[o].product = p /\ reservation'[o].day = d
        /\ ~reservation'[o].older
    BY <1>1, <1>3, <1>4, <1>6, StatusWritten
  <1>8. ReservationInv'
    BY <1>3, <1>7 DEF BooksInv, ReservationInv
  <1>9. \A x \in Products, e \in Days :
           x # p \/ e # d => Taken(x, e)' = Taken(x, e)
    BY <1>3, <1>7, OthersCountAlike
  <1>10. CASE stock[p][d].set /\ stock[p][d].remaining > 0
    <2>1. PICK n \in Nat : n + 1 = stock[p][d].remaining
      <3>1. stock[p][d].remaining \in Nat
        BY <1>5 DEF StockRow
      <3> QED
        BY <1>10, <3>1
    <2>2. stock[p][d].back \in Nat /\ stock[p][d].initial \in Nat
      BY <1>5 DEF StockRow
    <2>3. /\ stock' = [stock EXCEPT ![p][d].remaining = @ - 1]
          /\ reservation'[o].status = "RESERVED"
      <3>1. ~(stock[p][d].remaining = 0) /\ stock[p][d].set
        BY <1>10, <2>1
      <3>2. /\ stock' = [stock EXCEPT ![p][d].remaining = @ - 1]
            /\ reservation' = [reservation EXCEPT ![o].status = "RESERVED"]
        BY <1>3, <3>1 DEF Reserve
      <3> QED
        BY <1>1, <3>2, StatusWritten
    <2>4. PICK b \in Nat : b = stock[p][d].back
      BY <2>2
    <2>5. stock' = [stock EXCEPT ![p][d] =
                       [stock[p][d] EXCEPT !.remaining = n, !.back = b]]
      <3>1. stock[p][d].remaining - 1 = n
        BY <1>5, <2>1 DEF StockRow
      <3>2. [stock[p][d] EXCEPT !.remaining = n]
               = [stock[p][d] EXCEPT !.remaining = n, !.back = b]
        BY <1>5, <2>4 DEF StockRow
      <3> QED
        BY <2>3, <3>1, <3>2
    <2>6. /\ stock' \in [Products -> [Days -> StockRow]]
          /\ stock'[p][d].set /\ stock'[p][d].initial = stock[p][d].initial
          /\ stock'[p][d].remaining = n /\ stock'[p][d].back = b
          /\ \A x \in Products, e \in Days :
                x # p \/ e # d => stock'[x][e] = stock[x][e]
          /\ \A x \in Products : Stocked(x) => Stocked(x)'
      BY <1>1, <1>10, <2>5, StockWritten
    <2>7. Taken(p, d)' = Taken(p, d) + 1
      BY <1>2, <1>7, <2>3, TakerJoins
    <2>8. stock'[p][d].remaining + Taken(p, d)'
             = stock'[p][d].initial + stock'[p][d].back
      <3>1. stock[p][d].remaining + Taken(p, d)
               = stock[p][d].initial + stock[p][d].back
        BY <1>10 DEF BooksInv, StockAddsUp
      <3>2. PICK k \in Nat : k = Taken(p, d)
        BY TakenCounts
      <3>3. PICK i \in Nat : i = stock[p][d].initial
        BY <2>2
      <3>4. n + 1 + k = i + b
        BY <2>1, <2>4, <3>1, <3>2, <3>3
      <3>5. n + (k + 1) = i + b
        BY <3>4
      <3>6. /\ stock'[p][d].remaining = n /\ stock'[p][d].initial = i
            /\ stock'[p][d].back = b /\ Taken(p, d)' = k + 1
        BY <2>6, <2>7, <3>2, <3>3
      <3> QED
        BY <3>5, <3>6
    <2>9. StockAddsUp'
      BY <1>9, <2>6, <2>8 DEF BooksInv, StockAddsUp
    <2>10. D1Types'
      BY <1>2, <1>7, <2>6 DEF BooksInv, D1Types
    <2> QED
      BY <1>8, <2>6, <2>9, <2>10 DEF BooksInv
  <1>11. CASE ~(stock[p][d].set /\ stock[p][d].remaining > 0)
    <2>1. /\ UNCHANGED stock
          /\ \/ ~stock[p][d].set
             \/ reservation' = [reservation EXCEPT ![o].status = "RELEASED"]
      BY <1>3, <1>11 DEF Reserve
    <2>2. stock[p][d].set => Taken(p, d)' = Taken(p, d)
      <3>1. ASSUME stock[p][d].set
            PROVE  reservation'[o].status = "RELEASED"
        BY <1>1, <2>1, <3>1, StatusWritten
      <3> QED
        BY <1>2, <1>7, <3>1, OthersCountAlike
    <2>3. StockAddsUp'
      BY <1>9, <2>1, <2>2 DEF BooksInv, StockAddsUp
    <2>4. D1Types'
      BY <1>2, <1>7, <2>1 DEF BooksInv, D1Types
    <2> QED
      BY <1>8, <2>1, <2>3, <2>4 DEF BooksInv, Stocked
  <1> QED
    BY <1>10, <1>11

LEMMA ReleaseKeepsBooks ==
    ASSUME BooksInv, NEW o \in Orders, Release(o)
    PROVE  BooksInv' /\ \A x \in Products : Stocked(x) => Stocked(x)'
  <1>1. /\ reservation \in [Orders -> Reservation]
        /\ reservation[o] \in Reservation
        /\ stock \in [Products -> [Days -> StockRow]]
    BY DEF BooksInv, D1Types
  <1>2. /\ reservation[o].status = "RESERVED" /\ UNCHANGED product
        /\ reservation' = [reservation EXCEPT ![o].status = "RELEASED"]
    BY DEF Release
  <1>3. PICK p \in Products, d \in Days :
            p = reservation[o].product /\ d = reservation[o].day
    BY <1>1, <1>2 DEF BooksInv, ReservationInv, Reservation
  <1>4. stock[p][d] \in StockRow
    BY <1>1
  <1>5. /\ reservation' \in [Orders -> Reservation]
        /\ \A h \in Orders \ {o} : reservation'[h] = reservation[h]
        /\ reservation'[o].status = "RELEASED"
        /\ reservation'[o].product = p /\ reservation'[o].day = d
        /\ reservation'[o].older = reservation[o].older
    BY <1>1, <1>2, <1>3, StatusWritten
  <1>6. ReservationInv'
    BY <1>3, <1>5 DEF BooksInv, ReservationInv
  <1>7. \A x \in Products, e \in Days :
           x # p \/ e # d => Taken(x, e)' = Taken(x, e)
    BY <1>3, <1>5, OthersCountAlike
  <1>8. CASE stock[p][d].set
    <2>1. PICK more \in Nat : more = IF reservation[o].older THEN 1 ELSE 0
      OBVIOUS
    <2>2. /\ stock[p][d].remaining \in Nat /\ stock[p][d].back \in Nat
          /\ stock[p][d].initial \in Nat
      BY <1>4 DEF StockRow
    <2>3. PICK n \in Nat, b \in Nat :
              n = stock[p][d].remaining + 1 /\ b = stock[p][d].back + more
      BY <2>2
    <2>4. stock' = [stock EXCEPT ![p][d].remaining = @ + 1,
                                 ![p][d].back = @ + more]
      BY <1>3, <1>8, <2>1 DEF Release
    <2>5. stock' = [stock EXCEPT ![p][d] =
                       [stock[p][d] EXCEPT !.remaining = n, !.back = b]]
      <3>1. PICK s : s = [stock EXCEPT ![p][d].remaining = @ + 1]
        OBVIOUS
      <3>2. s[p][d] = [stock[p][d] EXCEPT !.remaining = n]
        BY <1>1, <2>3, <3>1
      <3>3. s[p][d].back = stock[p][d].back
        BY <1>4, <3>2 DEF StockRow
      <3>4. stock' = [s EXCEPT ![p][d].back = b]
        BY <2>3, <2>4, <3>1, <3>3
      <3>5. [s[p][d] EXCEPT !.back = b]
               = [stock[p][d] EXCEPT !.remaining = n, !.back = b]
        BY <1>4, <3>2 DEF StockRow
      <3> QED
        BY <1>1, <3>1, <3>4, <3>5
    <2>6. /\ stock' \in [Products -> [Days -> StockRow]]
          /\ stock'[p][d].set /\ stock'[p][d].initial = stock[p][d].initial
          /\ stock'[p][d].remaining = n /\ stock'[p][d].back = b
          /\ \A x \in Products, e \in Days :
                x # p \/ e # d => stock'[x][e] = stock[x][e]
          /\ \A x \in Products : Stocked(x) => Stocked(x)'
      BY <1>1, <1>8, <2>5, StockWritten
    <2>7. /\ Taken(p, d) \in Nat /\ Taken(p, d)' \in Nat
          /\ Taken(p, d)' + 1 = Taken(p, d) + more
      <3>1. CASE reservation[o].older
        <4>1. Taken(p, d)' = Taken(p, d)
          BY <1>5, <3>1, OthersCountAlike
        <4> QED
          BY <2>1, <3>1, <4>1, TakenCounts
      <3>2. CASE ~reservation[o].older
        <4>1. Taken(p, d) = Taken(p, d)' + 1
          BY <1>2, <1>3, <1>5, <3>2, TakerLeaves
        <4>2. Taken(p, d)' \in Nat
          <5>1. Taken(p, d)' = Cardinality(Takers(p, d)')
            BY DEF Taken, Takers
          <5>2. Takers(p, d)' \subseteq Orders /\ IsFiniteSet(Orders)
            BY CatalogAssumption DEF Takers, CatalogAssumption
          <5>3. IsFiniteSet(Takers(p, d)')
            BY <5>2, FS_Subset
          <5> QED
            BY <5>1, <5>3, FS_CardinalityType
        <4>3. more = 0
          BY <2>1, <3>2
        <4> QED
          BY <4>1, <4>2, <4>3, TakenCounts
      <3> QED
        BY <3>1, <3>2
    <2>8. stock'[p][d].remaining + Taken(p, d)'
             = stock'[p][d].initial + stock'[p][d].back
      <3>1. stock[p][d].remaining + Taken(p, d)
               = stock[p][d].initial + stock[p][d].back
        BY <1>8 DEF BooksInv, StockAddsUp
      <3>2. PICK t \in Nat, u \in Nat : t = Taken(p, d) /\ u = Taken(p, d)'
        BY <2>7
      <3>3. u + 1 = t + more
        BY <2>7, <3>2
      <3>4. stock[p][d].remaining + t = stock[p][d].initial + stock[p][d].back
        BY <3>1, <3>2
      <3>5. n + u = stock[p][d].initial + b
        BY <2>2, <2>3, <3>3, <3>4
      <3> QED
        BY <2>6, <3>2, <3>5
    <2>9. StockAddsUp'
      BY <1>7, <2>6, <2>8 DEF BooksInv, StockAddsUp
    <2>10. D1Types'
      BY <1>2, <1>5, <2>6 DEF BooksInv, D1Types
    <2> QED
      BY <1>6, <2>6, <2>9, <2>10 DEF BooksInv
  <1>9. CASE ~stock[p][d].set
    <2>1. UNCHANGED stock
      BY <1>3, <1>9 DEF Release
    <2>2. StockAddsUp'
      BY <1>7, <1>9, <2>1 DEF BooksInv, StockAddsUp
    <2>3. D1Types'
      BY <1>2, <1>5, <2>1 DEF BooksInv, D1Types
    <2> QED
      BY <1>6, <2>1, <2>2, <2>3 DEF BooksInv, Stocked
  <1> QED
    BY <1>8, <1>9

-----------------------------------------------------------------------------
(* The admin's chat.                                                       *)

(* A step of the chat that calls nothing. *)
LEMMA ChatOnly ==
    ASSUME CatalogInv, UNCHANGED <<d1Vars, posVars, today>>,
           AdminTypes', ChatInv',
           \/ admin.step # "inserted" /\ UNCHANGED faults
           \/ faults' = faults + 1
    PROVE  CatalogInv'
  <1>1. UNCHANGED <<product, stock, reservation, pos, copied, posChanges, today>>
    BY DEF d1Vars, posVars
  <1>2. BooksInv /\ D1Types
    BY TypesSplit DEF CatalogInv, BooksInv
  <1>3. BooksInv' /\ \A p \in Products : Stocked(p) => Stocked(p)'
    BY <1>1, <1>2, BooksStay DEF D1Types
  <1>4. TypeOK'
    <2>1. D1Types' /\ PosTypes' /\ today' \in Days
      BY <1>1, <1>2, TypesSplit DEF CatalogInv, D1Types, PosTypes
    <2> QED
      BY <2>1 DEF TypeOK, D1Types, PosTypes, AdminTypes
  <1>5. AdditionInv'
    <2>1. AdditionInv /\ faults \in Nat /\ faults' \in Nat
      BY TypesSplit DEF CatalogInv, AdminTypes
    <2>2. LeftBehind' \subseteq LeftBehind \cup {admin.product}
      BY <1>1 DEF LeftBehind, Stocked
    <2>3. admin.step # "inserted" => LeftBehind' \subseteq LeftBehind
      BY <1>1 DEF LeftBehind, Stocked
    <2>4. CASE faults' = faults + 1
      BY <2>1, <2>2, <2>4, OneLeftBehind
    <2>5. CASE admin.step # "inserted" /\ UNCHANGED faults
      BY <2>1, <2>3, <2>5, NoneLeftBehind
    <2> QED
      BY <2>4, <2>5
  <1> QED
    BY <1>3, <1>4, <1>5 DEF CatalogInv, BooksInv

LEMMA SendKeeps ==
    ASSUME CatalogInv, NEW m \in AdminMessages, Send(m)
    PROVE  CatalogInv'
  <1>1. AdminTypes
    BY TypesSplit DEF CatalogInv
  <1>2. /\ admin.step = "idle" /\ updates' = updates + 1
        /\ UNCHANGED <<d1Vars, draft, posVars, today, faults>>
        /\ admin' = [step |-> "delivered", message |-> m, product |-> None]
    BY DEF Send, IdleAdmin
  <1>3. AdminTypes'
    BY <1>1, <1>2 DEF AdminTypes
  <1>4. ChatInv'
    BY <1>2 DEF CatalogInv, ChatInv
  <1> QED
    BY <1>2, <1>3, <1>4, ChatOnly

(* The steps that end the processing of an update at once. *)
LEMMA DoneKeeps ==
    ASSUME CatalogInv, admin.step \in {"delivered", "written"}, Done,
           UNCHANGED <<d1Vars, updates, posVars, today, faults>>,
           draft' \in [step: Drafts, product: Products \cup {None},
                       name: Names \cup {None}],
           draft'.step \in {"EDIT_NAME", "EDIT_PRICE"} =>
              draft'.product \in Products
    PROVE  CatalogInv'
  <1>1. AdminTypes
    BY TypesSplit DEF CatalogInv
  <1>2. admin' = [step |-> "idle", message |-> NoMessage, product |-> None]
    BY DEF Done, IdleAdmin
  <1>3. AdminTypes'
    BY <1>1, <1>2 DEF AdminTypes
  <1>4. ChatInv'
    BY <1>2 DEF ChatInv
  <1> QED
    BY <1>3, <1>4, ChatOnly

LEMMA AnsweringKeeps ==
    ASSUME CatalogInv,
           \/ CancelDraft \/ StartAdding \/ AddName \/ AddPrice \/ AddCategory
           \/ StartEditing \/ EditName \/ Conclude \/ NothingToDo
    PROVE  CatalogInv'
  <1>1. /\ AdminTypes /\ ChatInv /\ product \in [Products -> Row]
    BY TypesSplit DEF CatalogInv, D1Types
  <1>2. /\ draft \in [step: Drafts, product: Products \cup {None},
                      name: Names \cup {None}]
        /\ admin.step # "idle" => admin.message \in AdminMessage
    BY <1>1, CatalogAssumption DEF AdminTypes, ChatInv, CatalogAssumption
  <1>3. admin.step # "idle" =>
           admin.message.name \in Names \cup {None}
    BY <1>2 DEF AdminMessage
  <1>4. NoDraft \in [step: Drafts, product: Products \cup {None},
                     name: Names \cup {None}]
    BY DEF NoDraft, Drafts
  <1>5. /\ admin.step \in {"delivered", "written"} /\ Done
        /\ UNCHANGED <<d1Vars, updates, posVars, today, faults>>
    BY DEF CancelDraft, StartAdding, AddName, AddPrice, AddCategory,
           StartEditing, EditName, Conclude, NothingToDo, Says, DraftAt
  <1>6. /\ draft' \in [step: Drafts, product: Products \cup {None},
                       name: Names \cup {None}]
        /\ draft'.step \in {"EDIT_NAME", "EDIT_PRICE"} =>
              draft'.product \in Products
    <2>1. CASE CancelDraft
      BY <1>4, <2>1 DEF CancelDraft, NoDraft
    <2>2. CASE StartAdding
      BY <1>4, <2>2 DEF StartAdding, NewDraft, NoDraft, Drafts
    <2>3. CASE AddName
      <3>1. admin.message.name \in Names \cup {None}
        BY <1>3, <2>3 DEF AddName, DraftAt, Says
      <3>2. draft' = [draft EXCEPT !.step = "ADD_PRICE",
                                   !.name = admin.message.name]
        BY <2>3 DEF AddName
      <3> QED
        BY <1>2, <3>1, <3>2 DEF Drafts
    <2>4. CASE AddPrice
      BY <1>2, <2>4 DEF AddPrice, Drafts
    <2>5. CASE AddCategory
      BY <1>2, <2>5 DEF AddCategory, Drafts
    <2>6. CASE StartEditing
      <3>1. admin.message \in AdminMessages /\ admin.message.kind = "edit"
        BY <1>1, <2>6 DEF StartEditing, Says, ChatInv
      <3>2. PICK p \in Products : p = admin.message.product
        BY <3>1, CatalogAssumption DEF CatalogAssumption
      <3>3. product[p].name \in Names \cup {None}
        BY <1>1 DEF Row
      <3>4. draft' = [step |-> "EDIT_NAME", product |-> p,
                      name |-> product[p].name]
        BY <2>6, <3>2 DEF StartEditing, NoDraft
      <3> QED
        BY <3>3, <3>4 DEF Drafts
    <2>7. CASE EditName
      <3>1. admin.message.name \in Names \cup {None}
        BY <1>3, <2>7 DEF EditName, DraftAt, Says
      <3>2. PICK n \in Names \cup {None} :
                n = IF admin.message.name = None THEN draft.name
                                                 ELSE admin.message.name
        BY <1>2, <3>1
      <3>3. draft' = [draft EXCEPT !.step = "EDIT_PRICE", !.name = n]
        BY <2>7, <3>2 DEF EditName
      <3>4. draft.product \in Products
        BY <1>1, <2>7 DEF EditName, DraftAt, ChatInv
      <3> QED
        BY <1>2, <3>3, <3>4 DEF Drafts
    <2>8. CASE Conclude
      BY <1>1, <1>2, <1>4, <2>8 DEF Conclude, ChatInv, NoDraft
    <2>9. CASE NothingToDo
      BY <1>1, <1>2, <2>9 DEF NothingToDo, ChatInv
    <2> QED
      BY <2>1, <2>2, <2>3, <2>4, <2>5, <2>6, <2>7, <2>8, <2>9
  <1> QED
    BY <1>5, <1>6, DoneKeeps

LEMMA CutShortKeeps ==
    ASSUME CatalogInv, CutShort
    PROVE  CatalogInv'
  <1>1. AdminTypes /\ ChatInv
    BY TypesSplit DEF CatalogInv
  <1>2. /\ admin.step \in {"inserted", "written"} /\ faults' = faults + 1
        /\ admin' = [admin EXCEPT !.step = "delivered", !.product = None]
        /\ UNCHANGED <<d1Vars, draft, updates, posVars, today>>
    BY DEF CutShort, Fails
  <1>3. /\ AdminTypes' /\ admin'.step = "delivered"
        /\ admin'.message = admin.message
    <2>1. faults' \in Nat
      BY <1>1, <1>2 DEF AdminTypes
    <2>2. /\ admin' \in [step: {"idle", "delivered", "inserted", "written"},
                         message: AdminMessages \cup {NoMessage},
                         product: Products \cup {None}]
          /\ admin'.step = "delivered" /\ admin'.message = admin.message
      BY <1>1, <1>2 DEF AdminTypes
    <2> QED
      BY <1>1, <1>2, <2>1, <2>2 DEF AdminTypes
  <1>4. ChatInv'
    BY <1>1, <1>2, <1>3 DEF ChatInv
  <1> QED
    BY <1>2, <1>3, <1>4, ChatOnly

-----------------------------------------------------------------------------
(* The menu.                                                               *)

(* A step that writes products, and neither stock nor orders. *)
LEMMA MenuKeeps ==
    ASSUME CatalogInv, UNCHANGED <<stock, reservation, today, faults>>,
           product' \in [Products -> Row], AdminTypes', PosTypes', ChatInv',
           \A p \in NewProducts :
              product'[p].listed =>
                 \/ Stocked(p)
                 \/ /\ product[p].listed
                    /\ admin.step = "inserted" =>
                          admin'.step = "inserted" /\ UNCHANGED admin
                 \/ admin'.step = "inserted" /\ admin'.product = p
    PROVE  CatalogInv'
  <1>1. BooksInv
    BY TypesSplit DEF CatalogInv, BooksInv
  <1>2. BooksInv' /\ \A p \in Products : Stocked(p) => Stocked(p)'
    BY <1>1, BooksStay
  <1>3. TypeOK'
    <2>1. D1Types' /\ today' \in Days
      BY <1>2, TypesSplit DEF CatalogInv, BooksInv
    <2> QED
      BY <2>1 DEF TypeOK, D1Types, PosTypes, AdminTypes
  <1>4. AdditionInv'
    <2>1. AdditionInv /\ faults \in Nat /\ UNCHANGED faults
      BY TypesSplit DEF CatalogInv, AdminTypes
    <2>2. ASSUME NEW p \in LeftBehind' PROVE p \in LeftBehind
      <3>1. /\ p \in NewProducts /\ product'[p].listed /\ ~Stocked(p)'
            /\ ~(admin'.step = "inserted" /\ admin'.product = p)
        BY <2>2 DEF LeftBehind
      <3>2. ~Stocked(p)
        BY <1>2, <3>1 DEF Products
      <3>3. /\ product[p].listed
            /\ admin.step = "inserted" => admin'.step = "inserted"
                                             /\ UNCHANGED admin
        BY <3>1, <3>2
      <3>4. ~(admin.step = "inserted" /\ admin.product = p)
        BY <3>1, <3>3
      <3> QED
        BY <3>1, <3>2, <3>3, <3>4 DEF LeftBehind
    <2>3. LeftBehind' \subseteq LeftBehind
      BY <2>2
    <2> QED
      BY <2>1, <2>3, NoneLeftBehind
  <1> QED
    BY <1>2, <1>3, <1>4 DEF CatalogInv, BooksInv

LEMMA InsertProductKeeps ==
    ASSUME CatalogInv, NEW p \in NewProducts, InsertProduct(p)
    PROVE  CatalogInv'
  <1>1. /\ AdminTypes /\ PosTypes /\ ChatInv /\ product \in [Products -> Row]
        /\ p \in Products
    BY TypesSplit DEF CatalogInv, D1Types, Products
  <1>2. /\ admin.step = "delivered" /\ draft.step = "ADD_STOCK"
        /\ admin' = [admin EXCEPT !.step = "inserted", !.product = p]
        /\ UNCHANGED <<stock, reservation, draft, updates, posVars, today,
                       faults>>
    BY DEF InsertProduct, DraftAt, Says
  <1>3. PICK row : row = [listed |-> TRUE, available |-> TRUE,
                          name |-> draft.name]
    OBVIOUS
  <1>4. row \in Row
    BY <1>1, <1>3 DEF AdminTypes, Row
  <1>5. product' = [product EXCEPT ![p] = row]
    BY <1>3 DEF InsertProduct
  <1>6. /\ product' \in [Products -> Row]
        /\ \A x \in Products \ {p} : product'[x] = product[x]
    BY <1>1, <1>4, <1>5
  <1>7. /\ AdminTypes' /\ admin'.step = "inserted" /\ admin'.product = p
        /\ admin'.message = admin.message
    BY <1>1, <1>2 DEF AdminTypes
  <1>8. ChatInv' /\ PosTypes'
    BY <1>1, <1>2, <1>7 DEF ChatInv, PosTypes, posVars
  <1>9. \A x \in NewProducts : product'[x].listed => product[x].listed \/ x = p
    BY <1>6 DEF Products
  <1> QED
    BY <1>2, <1>6, <1>7, <1>8, <1>9, MenuKeeps

LEMMA SwitchAndEditKeep ==
    ASSUME CatalogInv, SwitchProduct \/ EditPrice
    PROVE  CatalogInv'
  <1>1. /\ AdminTypes /\ PosTypes /\ ChatInv /\ product \in [Products -> Row]
    BY TypesSplit DEF CatalogInv, D1Types
  <1>2. /\ admin.step = "delivered"
        /\ admin' = [admin EXCEPT !.step = "written"]
        /\ UNCHANGED <<stock, reservation, draft, updates, posVars, today,
                       faults>>
    BY DEF SwitchProduct, EditPrice, DraftAt, Says
  <1>3. PICK p \in Products, row \in Row :
            product' = [product EXCEPT ![p] = row]
               /\ row.listed = product[p].listed
    <2>1. CASE SwitchProduct
      <3>1. /\ admin.message \in AdminMessages
            /\ admin.message.kind \in {"on", "off"}
        BY <1>1, <2>1 DEF SwitchProduct, Says, ChatInv
      <3>2. PICK p \in Products : p = admin.message.product
        BY <3>1, CatalogAssumption DEF CatalogAssumption
      <3>3. PICK on \in BOOLEAN : on = (admin.message.kind = "on")
        OBVIOUS
      <3>4. PICK row : row = [product[p] EXCEPT !.available = on]
        OBVIOUS
      <3>5. row \in Row /\ row.listed = product[p].listed
        BY <1>1, <3>4 DEF Row
      <3>6. product' = [product EXCEPT ![p] = row]
        BY <2>1, <3>2, <3>3, <3>4 DEF SwitchProduct
      <3> QED
        BY <3>5, <3>6
    <2>2. CASE EditPrice
      <3>1. PICK p \in Products : p = draft.product
        BY <1>1, <2>2 DEF EditPrice, DraftAt, ChatInv
      <3>2. PICK row : row = [product[p] EXCEPT !.name = draft.name]
        OBVIOUS
      <3>3. row \in Row /\ row.listed = product[p].listed
        BY <1>1, <3>2 DEF Row, AdminTypes
      <3>4. product' = [product EXCEPT ![p] = row]
        BY <2>2, <3>1, <3>2 DEF EditPrice
      <3> QED
        BY <3>3, <3>4
    <2> QED
      BY <2>1, <2>2
  <1>4. /\ product' \in [Products -> Row]
        /\ \A x \in Products : product'[x].listed => product[x].listed
    BY <1>1, <1>3
  <1>5. /\ AdminTypes' /\ admin'.step = "written"
        /\ admin'.message = admin.message
    BY <1>1, <1>2 DEF AdminTypes
  <1>6. ChatInv' /\ PosTypes'
    BY <1>1, <1>2, <1>5 DEF ChatInv, PosTypes, posVars
  <1>7. \A x \in NewProducts : product'[x].listed => product[x].listed
    BY <1>4 DEF Products
  <1> QED
    BY <1>2, <1>4, <1>5, <1>6, <1>7, MenuKeeps

LEMMA PosKeeps ==
    ASSUME CatalogInv,
           \/ \E p \in PosProducts : PosChanges(p)
           \/ FetchMenu \/ CopyMenu \/ CopyFails
    PROVE  CatalogInv'
  <1>1. /\ AdminTypes /\ PosTypes /\ ChatInv /\ product \in [Products -> Row]
    BY TypesSplit DEF CatalogInv, D1Types
  <1>2. UNCHANGED <<stock, reservation, adminVars, today, faults>>
    BY DEF PosChanges, FetchMenu, CopyMenu, CopyFails, d1Vars
  <1>3. AdminTypes' /\ ChatInv'
    BY <1>1, <1>2 DEF AdminTypes, ChatInv, adminVars
  <1>4. NoRow \in Row /\ NoMenu \in [PosProducts -> Row]
    BY DEF NoRow, NoMenu, Row
  <1>5. PosTypes'
    <2>1. CASE \E p \in PosProducts : PosChanges(p)
      <3>1. PICK p \in PosProducts : PosChanges(p)
        BY <2>1
      <3>2. posChanges' \in Nat /\ UNCHANGED copied
        BY <1>1, <3>1 DEF PosTypes, PosChanges
      <3>3. pos \in [PosProducts -> Row]
        BY <1>1 DEF PosTypes
      <3>4. PICK row \in Row : pos' = [pos EXCEPT ![p] = row]
        <4>1. CASE pos' = [pos EXCEPT ![p] = NoRow]
          BY <1>4, <4>1
        <4>2. CASE pos' = [pos EXCEPT ![p].available = ~@]
          <5>1. [pos[p] EXCEPT !.available = ~@] \in Row
            BY <3>3 DEF Row
          <5> QED
            BY <4>2, <5>1
        <4>3. CASE \E n \in Names \ {pos[p].name} :
                      pos' = [pos EXCEPT ![p] = [listed |-> TRUE,
                                 available |-> TRUE, name |-> n]]
          <5>1. PICK n \in Names :
                    pos' = [pos EXCEPT ![p] = [listed |-> TRUE,
                               available |-> TRUE, name |-> n]]
            BY <4>3
          <5>2. [listed |-> TRUE, available |-> TRUE, name |-> n] \in Row
            BY DEF Row
          <5> QED
            BY <5>1, <5>2
        <4> QED
          BY <3>1, <4>1, <4>2, <4>3 DEF PosChanges
      <3> QED
        BY <1>1, <3>2, <3>3, <3>4 DEF PosTypes
    <2>2. CASE FetchMenu \/ CopyMenu \/ CopyFails
      <3>1. /\ UNCHANGED <<pos, posChanges>>
            /\ \/ copied' = [fetched |-> TRUE, menu |-> pos]
               \/ copied' = [fetched |-> FALSE, menu |-> NoMenu]
        BY <2>2 DEF FetchMenu, CopyMenu, CopyFails
      <3>2. pos \in [PosProducts -> Row] /\ posChanges \in Nat
        BY <1>1 DEF PosTypes
      <3>3. copied' \in [fetched: BOOLEAN, menu: [PosProducts -> Row]]
        <4>1. CASE copied' = [fetched |-> TRUE, menu |-> pos]
          BY <3>2, <4>1
        <4>2. CASE copied' = [fetched |-> FALSE, menu |-> NoMenu]
          BY <1>4, <4>2
        <4> QED
          BY <3>1, <4>1, <4>2
      <3> QED
        BY <3>1, <3>2, <3>3 DEF PosTypes
    <2> QED
      BY <2>1, <2>2
  <1>6. /\ product' \in [Products -> Row]
        /\ \A x \in NewProducts : product'[x].listed => product[x].listed
    <2>1. CASE CopyMenu
      <3>1. \A x \in Products :
               /\ [product[x] EXCEPT !.available = FALSE] \in Row
               /\ [product[x] EXCEPT !.available = FALSE].listed
                     = product[x].listed
        <4>1. \A r \in Row : /\ [r EXCEPT !.available = FALSE] \in Row
                             /\ [r EXCEPT !.available = FALSE].listed = r.listed
          BY DEF Row
        <4> QED
          BY <1>1, <4>1
      <3>2. copied.menu \in [PosProducts -> Row]
        BY <1>1 DEF PosTypes
      <3>3. \A x \in Products :
               \/ InMenu(x) /\ product'[x] = copied.menu[x]
               \/ ~InMenu(x) /\ product'[x] =
                                   [product[x] EXCEPT !.available = FALSE]
        BY <2>1 DEF CopyMenu
      <3>4. product' = [x \in Products |-> product'[x]]
        BY <2>1 DEF CopyMenu
      <3>5. \A x \in Products : product'[x] \in Row
        BY <3>1, <3>2, <3>3 DEF InMenu
      <3>6. product' \in [Products -> Row]
        BY <3>4, <3>5
      <3>7. \A x \in NewProducts : x \in Products /\ ~InMenu(x)
        BY CatalogAssumption DEF CatalogAssumption, InMenu, Products
      <3> QED
        BY <3>1, <3>3, <3>6, <3>7
    <2>2. CASE ~CopyMenu
      <3>1. UNCHANGED product
        BY <2>2 DEF PosChanges, FetchMenu, CopyFails, d1Vars
      <3> QED
        BY <1>1, <3>1
    <2> QED
      BY <2>1, <2>2
  <1>7. UNCHANGED admin
    BY <1>2 DEF adminVars
  <1> QED
    BY <1>2, <1>3, <1>5, <1>6, <1>7, MenuKeeps

-----------------------------------------------------------------------------
(* The stock.                                                              *)

(* A step that writes stock and orders, and not the menu. *)
LEMMA StockKeeps ==
    ASSUME CatalogInv, BooksInv', UNCHANGED <<product, faults>>,
           \A p \in Products : Stocked(p) => Stocked(p)',
           AdminTypes', PosTypes', ChatInv', today' \in Days,
           \/ UNCHANGED admin
           \/ admin.step # "inserted"
           \/ \A p \in NewProducts : p = admin.product => Stocked(p)'
    PROVE  CatalogInv'
  <1>1. TypeOK'
    BY DEF BooksInv, TypeOK, D1Types, PosTypes, AdminTypes
  <1>2. AdditionInv'
    <2>1. AdditionInv /\ faults \in Nat /\ UNCHANGED faults
      BY TypesSplit DEF CatalogInv, AdminTypes
    <2>2. ASSUME NEW p \in LeftBehind' PROVE p \in LeftBehind
      <3>1. /\ p \in NewProducts /\ product[p].listed /\ ~Stocked(p)'
            /\ ~(admin'.step = "inserted" /\ admin'.product = p)
        BY <2>2 DEF LeftBehind
      <3>2. ~Stocked(p)
        BY <3>1 DEF Products
      <3>3. ~(admin.step = "inserted" /\ admin.product = p)
        BY <3>1
      <3> QED
        BY <3>1, <3>2, <3>3 DEF LeftBehind
    <2>3. LeftBehind' \subseteq LeftBehind
      BY <2>2
    <2> QED
      BY <2>1, <2>3, NoneLeftBehind
  <1> QED
    BY <1>1, <1>2 DEF CatalogInv, BooksInv

LEMMA SetStockKeeps ==
    ASSUME CatalogInv, StockAddition \/ SetDailyStock
    PROVE  CatalogInv'
  <1>1. /\ AdminTypes /\ PosTypes /\ ChatInv /\ BooksInv /\ today \in Days
    BY TypesSplit DEF CatalogInv, BooksInv
  <1>2. /\ admin.step \in {"inserted", "delivered"}
        /\ admin' = [admin EXCEPT !.step = "written"]
        /\ UNCHANGED <<product, draft, updates, posVars, today, faults>>
    BY DEF StockAddition, SetDailyStock, Says
  <1>3. admin.message \in AdminMessages /\ admin.message.quantity \in Nat
    <2>1. admin.message \in AdminMessages /\ AdminMessages \subseteq AdminMessage
             /\ Quantities \subseteq Nat
      BY <1>1, <1>2, CatalogAssumption DEF ChatInv, CatalogAssumption
    <2> QED
      BY <2>1 DEF AdminMessage
  <1>4. PICK p \in Products, q \in Nat :
            /\ UpsertStock(p, q)
            /\ admin.step = "inserted" => p = admin.product
    <2>1. CASE StockAddition
      <3>1. admin.step = "inserted" /\ admin.product \in Products
        BY <1>1, <2>1 DEF StockAddition, ChatInv, Products
      <3>2. PICK q \in Nat : q = IF admin.message.kind = "category" THEN 0
                                 ELSE admin.message.quantity
        BY <1>3
      <3>3. UpsertStock(admin.product, q)
        BY <2>1, <3>2 DEF StockAddition
      <3> QED
        BY <3>1, <3>3
    <2>2. CASE SetDailyStock
      <3>1. admin.step = "delivered" /\ admin.message.kind = "stock"
        BY <2>2 DEF SetDailyStock, Says
      <3>2. admin.message.product \in Products
        BY <1>3, <3>1, CatalogAssumption DEF CatalogAssumption
      <3>3. UpsertStock(admin.message.product, admin.message.quantity)
        BY <2>2 DEF SetDailyStock
      <3> QED
        BY <1>3, <3>1, <3>2, <3>3
    <2> QED
      BY <2>1, <2>2
  <1>5. /\ BooksInv' /\ Stocked(p)'
        /\ \A x \in Products : Stocked(x) => Stocked(x)'
    BY <1>1, <1>2, <1>4, UpsertKeepsBooks
  <1>6. /\ AdminTypes' /\ admin'.step = "written"
        /\ admin'.message = admin.message
    BY <1>1, <1>2 DEF AdminTypes
  <1>7. ChatInv' /\ PosTypes' /\ today' \in Days
    BY <1>1, <1>2, <1>3, <1>6 DEF ChatInv, PosTypes, posVars
  <1>8. \/ admin.step # "inserted"
        \/ \A x \in NewProducts : x = admin.product => Stocked(x)'
    BY <1>4, <1>5
  <1>9. UNCHANGED <<product, faults>>
    BY <1>2
  <1> QED
    BY <1>5, <1>6, <1>7, <1>8, <1>9, StockKeeps

LEMMA CustomersKeep ==
    ASSUME CatalogInv, NEW o \in Orders,
           Reserve(o) \/ Release(o) \/ \E p \in Products : Confirm(o, p)
    PROVE  CatalogInv'
  <1>1. /\ AdminTypes /\ PosTypes /\ ChatInv /\ BooksInv /\ today \in Days
    BY TypesSplit DEF CatalogInv, BooksInv
  <1>2. UNCHANGED <<product, adminVars, posVars, today, faults>>
    BY DEF Reserve, Release, Confirm
  <1>3. BooksInv' /\ \A x \in Products : Stocked(x) => Stocked(x)'
    <2>1. CASE \E p \in Products : Confirm(o, p)
      BY <1>1, <2>1, ConfirmKeepsBooks DEF Stocked
    <2> QED
      BY <1>1, <2>1, ReserveKeepsBooks, ReleaseKeepsBooks
  <1>4. AdminTypes' /\ PosTypes' /\ ChatInv' /\ today' \in Days
    BY <1>1, <1>2 DEF AdminTypes, PosTypes, ChatInv, adminVars, posVars
  <1>5. UNCHANGED <<product, faults, admin>>
    BY <1>2 DEF adminVars
  <1> QED
    BY <1>3, <1>4, <1>5, StockKeeps

LEMMA MidnightKeeps ==
    ASSUME CatalogInv, Midnight \/ UNCHANGED vars
    PROVE  CatalogInv'
  <1>1. /\ AdminTypes /\ PosTypes /\ ChatInv /\ BooksInv /\ today \in Days
    BY TypesSplit DEF CatalogInv, BooksInv
  <1>2. UNCHANGED <<product, stock, reservation, draft, admin, updates, pos,
                    copied, posChanges, faults>>
    BY DEF Midnight, vars, d1Vars, adminVars, posVars
  <1>3. today' \in Days
    <2>1. CASE Midnight
      BY <1>1, <2>1, CatalogAssumption DEF Midnight, Days, CatalogAssumption
    <2>2. CASE UNCHANGED vars
      BY <1>1, <2>2 DEF vars
    <2> QED
      BY <2>1, <2>2
  <1>4. BooksInv' /\ \A x \in Products : Stocked(x) => Stocked(x)'
    BY <1>1, <1>2, BooksStay DEF BooksInv, D1Types
  <1>5. AdminTypes' /\ PosTypes' /\ ChatInv'
    BY <1>1, <1>2 DEF AdminTypes, PosTypes, ChatInv
  <1>6. UNCHANGED <<product, faults, admin>>
    BY <1>2
  <1> QED
    BY <1>3, <1>4, <1>5, <1>6, StockKeeps

-----------------------------------------------------------------------------
LEMMA NextKeeps ==
    ASSUME CatalogInv, [Next]_vars
    PROVE  CatalogInv'
  <1>1. CASE \E m \in AdminMessages : Send(m)
    BY <1>1, SendKeeps
  <1>2. CASE Administrate
    BY <1>2, AnsweringKeeps, InsertProductKeeps, SetStockKeeps,
       SwitchAndEditKeep
    DEF Administrate
  <1>3. CASE CutShort
    BY <1>3, CutShortKeeps
  <1>4. CASE \/ \E p \in PosProducts : PosChanges(p)
             \/ FetchMenu \/ CopyMenu \/ CopyFails
    BY <1>4, PosKeeps
  <1>5. CASE \E o \in Orders :
                Reserve(o) \/ Release(o) \/ \E p \in Products : Confirm(o, p)
    BY <1>5, CustomersKeep
  <1>6. CASE Midnight \/ UNCHANGED vars
    BY <1>6, MidnightKeeps
  <1> QED
    BY <1>1, <1>2, <1>3, <1>4, <1>5, <1>6 DEF Next

(* The invariant: Spec => []CatalogInv. *)
THEOREM CatalogHolds == Spec => []CatalogInv
  BY InitCatalog, NextKeeps, PTL DEF Spec

(* Every reachable state is well typed; no stock is ever negative.         *)
THEOREM CatalogTypeCorrect == Spec => []TypeOK
  BY CatalogHolds, PTL DEF CatalogInv

(* The books of every product and day balance, over midnight, commands     *)
(* that Telegram repeats, and releases of orders older than the stock.     *)
THEOREM CatalogBooksBalance == Spec => []StockAddsUp
  BY CatalogHolds, PTL DEF CatalogInv

-----------------------------------------------------------------------------
(* The names: no menu has a product without one, and no draft gets beyond  *)
(* the step that asks for it.                                              *)

Named(row) == row.listed => row.name # None

NameInv ==
    /\ \A p \in Products : Named(product[p])
    /\ \A p \in PosProducts : Named(pos[p]) /\ Named(copied.menu[p])
    /\ draft.step \in {"ADD_PRICE", "ADD_CATEGORY", "ADD_STOCK",
                       "EDIT_NAME", "EDIT_PRICE"} => draft.name # None

LEMMA InitNames == Init => NameInv
  <1> SUFFICES ASSUME Init PROVE NameInv
    OBVIOUS
  <1>1. PICK n \in Names : n = CHOOSE m \in Names : TRUE
    BY CatalogAssumption DEF CatalogAssumption
  <1>2. n # None
    BY CatalogAssumption DEF CatalogAssumption
  <1>3. product = [p \in Products |->
            IF p \in PosProducts
            THEN [listed |-> TRUE, available |-> TRUE, name |-> n]
            ELSE NoRow]
    BY <1>1 DEF Init
  <1>4. \A p \in Products : Named(product[p])
    BY <1>2, <1>3 DEF Named, NoRow
  <1>5. \A p \in PosProducts : Named(pos[p])
    BY <1>4 DEF Init, Products
  <1>6. \A p \in PosProducts : Named(copied.menu[p])
    BY DEF Init, NoMenu, NoRow, Named
  <1> QED
    BY <1>4, <1>5, <1>6 DEF Init, NoDraft, NameInv

(* The steps of the admin that leave the products alone. *)
LEMMA DraftKeepsNames ==
    ASSUME CatalogInv, NameInv,
           \/ \E m \in AdminMessages : Send(m)
           \/ CancelDraft \/ StartAdding \/ AddName \/ AddPrice \/ AddCategory
           \/ StartEditing \/ EditName \/ Conclude \/ NothingToDo
           \/ StockAddition \/ SetDailyStock \/ CutShort
    PROVE  NameInv'
  <1>1. UNCHANGED <<product, pos, copied>>
    BY DEF Send, CancelDraft, StartAdding, AddName, AddPrice, AddCategory,
           StartEditing, EditName, Conclude, NothingToDo, StockAddition,
           SetDailyStock, CutShort, d1Vars, posVars
  <1>2. draft \in [step: Drafts, product: Products \cup {None},
                   name: Names \cup {None}]
    BY TypesSplit DEF CatalogInv, AdminTypes
  <1>3. draft'.step \in {"ADD_PRICE", "ADD_CATEGORY", "ADD_STOCK",
                         "EDIT_NAME", "EDIT_PRICE"} => draft'.name # None
    <2>1. CASE \/ \E m \in AdminMessages : Send(m)
               \/ NothingToDo \/ StockAddition \/ SetDailyStock \/ CutShort
      <3>1. UNCHANGED draft
        BY <2>1 DEF Send, NothingToDo, StockAddition, SetDailyStock, CutShort
      <3> QED
        BY <3>1 DEF NameInv
    <2>2. CASE CancelDraft \/ StartAdding
      BY <2>2 DEF CancelDraft, StartAdding, NewDraft, NoDraft
    <2>3. CASE AddName
      BY <1>2, <2>3 DEF AddName
    <2>4. CASE AddPrice \/ AddCategory
      BY <1>2, <2>4 DEF AddPrice, AddCategory, DraftAt, NameInv
    <2>5. CASE StartEditing
      <3>1. /\ admin.step = "delivered" /\ admin.message.kind = "edit"
            /\ product[admin.message.product].listed
            /\ draft'.name = product[admin.message.product].name
        BY <2>5 DEF StartEditing, Says, NoDraft
      <3>2. admin.message \in AdminMessages
        BY <3>1 DEF CatalogInv, ChatInv
      <3>3. admin.message.product \in Products
        BY <3>1, <3>2, CatalogAssumption DEF CatalogAssumption
      <3> QED
        BY <3>1, <3>3 DEF NameInv, Named
    <2>6. CASE EditName
      <3>1. /\ draft.step = "EDIT_NAME"
            /\ draft' = [draft EXCEPT
                   !.step = "EDIT_PRICE",
                   !.name = IF admin.message.name = None THEN @
                                                    ELSE admin.message.name]
        BY <2>6 DEF EditName, DraftAt
      <3>2. draft.name # None
        BY <3>1 DEF NameInv
      <3> QED
        BY <1>2, <3>1, <3>2
    <2>7. CASE Conclude
      BY <2>7 DEF Conclude, NoDraft, NameInv
    <2> QED
      BY <2>1, <2>2, <2>3, <2>4, <2>5, <2>6, <2>7
  <1> QED
    BY <1>1, <1>3 DEF NameInv

(* The steps of the admin that write a product. *)
LEMMA RowKeepsNames ==
    ASSUME CatalogInv, NameInv,
           \/ \E p \in NewProducts : InsertProduct(p)
           \/ SwitchProduct \/ EditPrice
    PROVE  NameInv'
  <1>1. product \in [Products -> Row]
    BY TypesSplit DEF CatalogInv, D1Types
  <1>2. UNCHANGED <<draft, pos, copied>>
    BY DEF InsertProduct, SwitchProduct, EditPrice, posVars
  <1>3. PICK p, row : /\ product' = [product EXCEPT ![p] = row]
                      /\ p \in Products => Named(row)
    <2>1. CASE \E p \in NewProducts : InsertProduct(p)
      <3>1. PICK p \in NewProducts : InsertProduct(p)
        BY <2>1
      <3>2. draft.step = "ADD_STOCK"
        BY <3>1 DEF InsertProduct, DraftAt
      <3>3. draft.name # None
        BY <3>2 DEF NameInv
      <3>4. PICK row : row = [listed |-> TRUE, available |-> TRUE,
                              name |-> draft.name]
        OBVIOUS
      <3>5. Named(row)
        BY <3>3, <3>4 DEF Named
      <3>6. product' = [product EXCEPT ![p] = row]
        BY <3>1, <3>4 DEF InsertProduct
      <3> QED
        BY <3>5, <3>6
    <2>2. CASE SwitchProduct
      <3>1. PICK p : p = admin.message.product
        OBVIOUS
      <3>2. PICK on : on = (admin.message.kind = "on")
        OBVIOUS
      <3>3. PICK row : row = [product[p] EXCEPT !.available = on]
        OBVIOUS
      <3>4. product' = [product EXCEPT ![p] = row]
        BY <2>2, <3>1, <3>2, <3>3 DEF SwitchProduct
      <3>5. p \in Products => Named(row)
        <4>1. ASSUME p \in Products PROVE Named(row)
          <5>1. product[p] \in Row /\ Named(product[p])
            BY <1>1, <4>1 DEF NameInv
          <5> QED
            BY <3>3, <5>1 DEF Row, Named
        <4> QED
          BY <4>1
      <3> QED
        BY <3>4, <3>5
    <2>3. CASE EditPrice
      <3>1. draft.step = "EDIT_PRICE"
        BY <2>3 DEF EditPrice, DraftAt
      <3>2. draft.name # None
        BY <3>1 DEF NameInv
      <3>3. PICK p : p = draft.product
        OBVIOUS
      <3>4. PICK row : row = [product[p] EXCEPT !.name = draft.name]
        OBVIOUS
      <3>5. product' = [product EXCEPT ![p] = row]
        BY <2>3, <3>3, <3>4 DEF EditPrice
      <3>6. p \in Products => Named(row)
        <4>1. ASSUME p \in Products PROVE Named(row)
          <5>1. product[p] \in Row
            BY <1>1, <4>1
          <5> QED
            BY <3>2, <3>4, <5>1 DEF Row, Named
        <4> QED
          BY <4>1
      <3> QED
        BY <3>5, <3>6
    <2> QED
      BY <2>1, <2>2, <2>3
  <1>4. \A x \in Products : Named(product'[x])
    BY <1>1, <1>3 DEF NameInv
  <1> QED
    BY <1>2, <1>4 DEF NameInv

LEMMA PosKeepsNames ==
    ASSUME CatalogInv, NameInv,
           \/ \E p \in PosProducts : PosChanges(p)
           \/ FetchMenu \/ CopyMenu \/ CopyFails
    PROVE  NameInv'
  <1>1. /\ product \in [Products -> Row] /\ pos \in [PosProducts -> Row]
        /\ copied \in [fetched: BOOLEAN, menu: [PosProducts -> Row]]
    BY TypesSplit DEF CatalogInv, D1Types, PosTypes
  <1>2. UNCHANGED draft
    BY DEF PosChanges, FetchMenu, CopyMenu, CopyFails, adminVars
  <1>3. \A p \in Products : Named(product'[p])
    <2>1. CASE CopyMenu
      <3>1. \A r \in Row : [r EXCEPT !.available = FALSE].listed = r.listed
                  /\ [r EXCEPT !.available = FALSE].name = r.name
        BY DEF Row
      <3>2. ASSUME NEW p \in Products PROVE Named(product'[p])
        <4>1. CASE InMenu(p)
          <5>1. product'[p] = copied.menu[p] /\ p \in PosProducts
            BY <2>1, <4>1 DEF CopyMenu, InMenu
          <5> QED
            BY <5>1 DEF NameInv
        <4>2. CASE ~InMenu(p)
          <5>1. product'[p] = [product[p] EXCEPT !.available = FALSE]
            BY <2>1, <4>2 DEF CopyMenu
          <5>2. product[p] \in Row /\ Named(product[p])
            BY <1>1 DEF NameInv
          <5> QED
            BY <3>1, <5>1, <5>2 DEF Named
        <4> QED
          BY <4>1, <4>2
      <3> QED
        BY <3>2
    <2>2. CASE ~CopyMenu
      <3>1. UNCHANGED product
        BY <2>2 DEF PosChanges, FetchMenu, CopyFails, d1Vars
      <3> QED
        BY <3>1 DEF NameInv
    <2> QED
      BY <2>1, <2>2
  <1>4. \A p \in PosProducts : Named(pos'[p])
    <2>1. CASE \E p \in PosProducts : PosChanges(p)
      <3>1. PICK p \in PosProducts : PosChanges(p)
        BY <2>1
      <3>2. PICK row : pos' = [pos EXCEPT ![p] = row] /\ Named(row)
        <4>1. CASE pos' = [pos EXCEPT ![p] = NoRow]
          <5>1. Named(NoRow)
            BY DEF NoRow, Named
          <5> QED
            BY <4>1, <5>1
        <4>2. CASE pos' = [pos EXCEPT ![p].available = ~@]
          <5>1. pos[p] \in Row /\ Named(pos[p])
            BY <1>1 DEF NameInv
          <5>2. Named([pos[p] EXCEPT !.available = ~@])
            BY <5>1 DEF Row, Named
          <5> QED
            BY <4>2, <5>2
        <4>3. CASE \E n \in Names \ {pos[p].name} :
                      pos' = [pos EXCEPT ![p] = [listed |-> TRUE,
                                 available |-> TRUE, name |-> n]]
          <5>1. PICK n \in Names :
                    pos' = [pos EXCEPT ![p] = [listed |-> TRUE,
                               available |-> TRUE, name |-> n]]
            BY <4>3
          <5>2. n # None
            BY CatalogAssumption DEF CatalogAssumption
          <5>3. Named([listed |-> TRUE, available |-> TRUE, name |-> n])
            BY <5>2 DEF Named
          <5> QED
            BY <5>1, <5>3
        <4> QED
          BY <3>1, <4>1, <4>2, <4>3 DEF PosChanges
      <3> QED
        BY <1>1, <3>2 DEF NameInv
    <2>2. CASE FetchMenu \/ CopyMenu \/ CopyFails
      <3>1. UNCHANGED pos
        BY <2>2 DEF FetchMenu, CopyMenu, CopyFails
      <3> QED
        BY <3>1 DEF NameInv
    <2> QED
      BY <2>1, <2>2
  <1>5. \A p \in PosProducts : Named(copied'.menu[p])
    <2>1. \/ UNCHANGED copied
          \/ copied' = [fetched |-> TRUE, menu |-> pos]
          \/ copied' = [fetched |-> FALSE, menu |-> NoMenu]
      BY DEF PosChanges, FetchMenu, CopyMenu, CopyFails
    <2>2. \A p \in PosProducts : Named(NoMenu[p])
      BY DEF NoMenu, NoRow, Named
    <2> QED
      BY <2>1, <2>2 DEF NameInv
  <1> QED
    BY <1>2, <1>3, <1>4, <1>5 DEF NameInv

LEMMA NamesKept ==
    ASSUME CatalogInv, NameInv, [Next]_vars
    PROVE  NameInv'
  <1>1. CASE (\E m \in AdminMessages : Send(m)) \/ Administrate \/ CutShort
    BY <1>1, DraftKeepsNames, RowKeepsNames DEF Administrate
  <1>2. CASE \/ \E p \in PosProducts : PosChanges(p)
             \/ FetchMenu \/ CopyMenu \/ CopyFails
    BY <1>2, PosKeepsNames
  <1>3. CASE \/ \E o \in Orders : \/ Reserve(o) \/ Release(o)
                                  \/ \E p \in Products : Confirm(o, p)
             \/ Midnight \/ UNCHANGED vars
    <2>1. UNCHANGED <<product, draft, pos, copied>>
      BY <1>3 DEF Reserve, Release, Confirm, Midnight, vars, d1Vars,
                  adminVars, posVars
    <2> QED
      BY <2>1 DEF NameInv
  <1> QED
    BY <1>1, <1>2, <1>3 DEF Next

THEOREM NamesHold == Spec => []NameInv
  BY InitNames, NamesKept, CatalogHolds, PTL DEF Spec

(* However often the additions of an admin are cut short, delivered again, *)
(* cancelled or answered by an old button, each update cut short leaves at *)
(* most one product without a stock, and no product is put on the menu     *)
(* with a value that was not entered.                                      *)
THEOREM AdditionsStayWhole == Spec => []AdditionsAreWhole
  <1>1. CatalogInv /\ NameInv => AdditionsAreWhole
    BY DEF CatalogInv, AdditionInv, NameInv, Named, AdditionsAreWhole
  <1> QED
    BY <1>1, CatalogHolds, NamesHold, PTL
=============================================================================
