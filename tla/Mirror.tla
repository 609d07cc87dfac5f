------------------------------- MODULE Mirror -------------------------------
(***************************************************************************)
(* What the mirror in Sheets promises of the snapshots of a chat, with no  *)
(* outbox, queue, script, lock, rows or markers: every snapshot is taken   *)
(* in one step, once, after it was made; and what is shown then is the     *)
(* latest one taken.  It promises that until a script dies between two     *)
(* writes, and nothing from then on.                                       *)
(***************************************************************************)
EXTENDS Naturals

CONSTANT Customers

VARIABLES
    latest,   \* latest[c]: snapshots made of customer c
    taken,    \* taken[c]: those that the sheets have taken
    shown,    \* shown[c]: the one that the sheets show, 0 before the first
    broken    \* a script has died

vars == <<latest, taken, shown, broken>>

Init ==
    /\ latest = [c \in Customers |-> 0]
    /\ taken = [c \in Customers |-> {}]
    /\ shown = [c \in Customers |-> 0]
    /\ broken = FALSE

Change(c) ==
    /\ latest' = [latest EXCEPT ![c] = @ + 1]
    /\ UNCHANGED <<taken, shown, broken>>

(* Snapshots come in any order; one that comes late is taken, not shown.   *)
Take(c, r) ==
    /\ r \in 1 .. latest[c] /\ r \notin taken[c]
    /\ taken' = [taken EXCEPT ![c] = @ \cup {r}]
    /\ shown' = [shown EXCEPT ![c] = IF r > @ THEN r ELSE @]
    /\ UNCHANGED <<latest, broken>>

Break == broken' = TRUE

Next ==
    \/ /\ ~broken
       /\ \E c \in Customers : Change(c) \/ \E r \in 1 .. latest[c] : Take(c, r)
    \/ Break

Spec == Init /\ [][Next]_vars
=============================================================================
