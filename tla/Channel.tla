------------------------------ MODULE Channel ------------------------------
(***************************************************************************)
(* The two messaging adapters: how the buttons of an OutboundMessage are   *)
(* rendered, packed into the data of a Telegram callback or a Zalo query,  *)
(* and unpacked when the customer presses them.                            *)
(*   src/src/adapters/telegram/{renderOutboundMessage,mapInboundMessage}.js*)
(*   src/src/adapters/zalo/{renderOutboundMessage,mapInboundMessage}.js    *)
(*                                                                         *)
(* Packed data is an action with a sequence of arguments; URI encoding,    *)
(* labels, prices and the limits in bytes (64 and 1000) are left out.      *)
(***************************************************************************)
EXTENDS Naturals, Sequences

CONSTANTS
    Products,     \* productId values
    Categories,   \* categoryId values
    Rooms,        \* roomId values
    None          \* a field that is absent

Platforms == {"telegram", "zalo"}
Units     == {"hourly", "nightly"}

ASSUME ChannelAssumption ==
    None \notin Products \cup Categories \cup Rooms \cup Units

(* The payload of a button: its action and at most one of the ids; the     *)
(* quantity 0 stands for none.                                             *)
Action(a) == [action |-> a, productId |-> None, categoryId |-> None,
              roomId |-> None, unit |-> None, quantity |-> 0]

SelectCategory(k) == [Action("select_category") EXCEPT !.categoryId = k]
SelectRoom(r)     == [Action("select_room") EXCEPT !.roomId = r]
SelectUnit(u)     == [Action("select_unit") EXCEPT !.unit = u]
ViewProduct(p)    == [Action("view_product") EXCEPT !.productId = p]
AddItem(p, n)     == [Action("add_item") EXCEPT !.productId = p,
                                                !.quantity = n]
-----------------------------------------------------------------------------
(* Packing.                                                                *)

(* The one id that is packed.                                              *)
EntityId(p) == IF p.productId # None THEN p.productId
               ELSE IF p.categoryId # None THEN p.categoryId
               ELSE IF p.roomId # None THEN p.roomId ELSE p.unit

(* What encodeCallbackData and encodeQueryPayload do not throw at.         *)
Encodable(platform, p) ==
    /\ p.quantity > 0 => p.productId # None
    /\ platform = "zalo" /\ p.action = "select_category" =>
           p.categoryId # None

(* encodeCallbackData and encodeQueryPayload.                              *)
Encode(platform, p) ==
    [action |-> p.action,
     args |-> IF platform = "zalo" /\ p.action = "select_category"
              THEN <<p.categoryId>>
              ELSE (IF EntityId(p) = None THEN <<>> ELSE <<EntityId(p)>>)
                     \o (IF p.quantity > 0 THEN <<p.quantity>> ELSE <<>>)]

(* Unpacking: how many arguments an action takes; any other action takes   *)
(* none.                                                                   *)
TakesProduct(platform) ==
    {"add_item", "decrease_item", "remove_item"}
        \cup (IF platform = "telegram" THEN {"view_product"} ELSE {})

TakesCategory(platform) ==
    {"select_category"}
        \cup (IF platform = "telegram" THEN {"admin_category"} ELSE {})

Field(platform, action) ==
    CASE action \in TakesProduct(platform)  -> "productId"
      [] action \in TakesCategory(platform) -> "categoryId"
      [] action = "select_room"             -> "roomId"
      [] action = "select_unit"             -> "unit"
      [] OTHER                              -> "none"

(* Mutant: the case of the rooms is missing. *)
AcceptsNoRoom(platform, data) ==
    IF Field(platform, data.action) \in {"none", "roomId"}
    THEN data.args = <<>>
    ELSE /\ Len(data.args) \in (IF data.action = "add_item"
                                THEN {1, 2} ELSE {1})
         /\ data.action = "select_unit" => data.args[1] \in Units

Accepts(platform, data) ==
    IF Field(platform, data.action) = "none"
    THEN data.args = <<>>
    ELSE /\ Len(data.args) \in (IF data.action = "add_item"
                                THEN {1, 2} ELSE {1})
         /\ data.action = "select_unit" => data.args[1] \in Units

Decode(platform, data) ==
    LET field == Field(platform, data.action) IN
    IF field = "none"
    THEN Action(data.action)
    ELSE [Action(data.action) EXCEPT
              ![field] = data.args[1],
              !.quantity = IF data.action # "add_item" THEN 0
                           ELSE IF Len(data.args) = 2 THEN data.args[2]
                           ELSE 1]
-----------------------------------------------------------------------------
(* Rendering.  An OutboundMessage with buttons: the products or rooms it   *)
(* lists, and its buttons.                                                 *)

Buttons(buttons) == [type |-> "button", products |-> {}, rooms |-> {},
                     buttons |-> buttons]
ProductList(products, buttons) ==
    [type |-> "list", products |-> products, rooms |-> {},
     buttons |-> buttons]
RoomList(rooms) ==
    [type |-> "list", products |-> {}, rooms |-> rooms,
     buttons |-> {SelectRoom(r) : r \in rooms}]

(* The payloads on the customer's screen.  A list on Zalo has no buttons   *)
(* of its own, and its products go straight into the cart.                 *)
Rendered(platform, content) ==
    IF content.type = "button" THEN content.buttons
    ELSE {SelectRoom(r) : r \in content.rooms}
           \cup (IF platform = "telegram"
                 THEN {ViewProduct(p) : p \in content.products}
                          \cup content.buttons
                 ELSE {AddItem(p, 1) : p \in content.products})

(* A button on a screen that the adapter can unpack again.                 *)
Pressable(platform, p) ==
    Encodable(platform, p) /\ Accepts(platform, Encode(platform, p))

Pressed(platform, p) == Decode(platform, Encode(platform, p))

(* It comes back as the payload it was made from.                          *)
Works(platform, p) == Pressable(platform, p) /\ Pressed(platform, p) = p
-----------------------------------------------------------------------------
(* What the services send.                                                 *)

UnitQuestion  == Buttons({SelectUnit(u) : u \in Units})
RoomSummary   == Buttons({Action("confirm_booking"),
                          Action("cancel_booking")})

BookingContents ==
    {UnitQuestion, RoomSummary} \cup {RoomList(rooms) : rooms \in SUBSET Rooms}

Menu(categories) == Buttons({SelectCategory(k) : k \in categories}
                                \cup {Action("cart")})
ProductPage(p, k) == Buttons({AddItem(p, n) : n \in {1, 2, 3, 5}}
                                \cup {SelectCategory(k), Action("cart")})
CartLine(p) ==
    Buttons({[Action(a) EXCEPT !.productId = p] :
                a \in {"decrease_item", "remove_item"}}
        \cup {Action(a) : a \in {"cart", "checkout", "catalog"}})

(* The order service's answers: while the menu is open, about the cart,    *)
(* and otherwise.                                                          *)
BrowsingContents ==
         {Menu(Categories)}
    \cup {ProductList(products, {Action("catalog"), Action("cart")}) :
             products \in SUBSET Products \ {{}}}
    \cup {ProductPage(p, k) : p \in Products, k \in Categories}

Plain(actions) == Buttons({Action(a) : a \in actions})

CartContents ==
         {CartLine(p) : p \in Products}
    \cup {Plain({"checkout", "catalog", "cancel"}),
          Plain({"confirm_order", "cancel"})}

StatusContents ==
    {Plain({"resend_qr", "status", "cancel"}),
     Plain({"catalog", "cart", "status", "update_profile"}),
     Plain({"catalog", "status", "help"}),
     Plain({"new_order"})}

Contents == BrowsingContents \cup CartContents \cup StatusContents
                \cup BookingContents
=============================================================================
