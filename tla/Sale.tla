-------------------------------- MODULE Sale --------------------------------
(***************************************************************************)
(* What checkout promises, whatever its requests and jobs do and in        *)
(* whatever order: an order is offered once, taken by one vendor or        *)
(* withdrawn (never both), and every taking allows one charge of the       *)
(* customer's card.  Module Checkout is shown to implement it.             *)
(***************************************************************************)
CONSTANTS
    Offers,   \* orders that may be placed, and holds that may be charged
    Takers,   \* vendors
    NoTaker

VARIABLES
    offer,    \* the state of each order
    taker,    \* who took it
    owed,     \* orders taken whose charge has not been attempted yet
    charged   \* holds that were charged

saleVars == <<offer, taker, owed, charged>>

SaleInit ==
    /\ offer = [o \in Offers |-> "none"]
    /\ taker = [o \in Offers |-> NoTaker]
    /\ owed = {}
    /\ charged = {}

Place(o) ==
    /\ offer[o] = "none"
    /\ offer' = [offer EXCEPT ![o] = "open"]
    /\ UNCHANGED <<taker, owed, charged>>

Take(o, v) ==
    /\ offer[o] = "open"
    /\ offer' = [offer EXCEPT ![o] = "accepted"]
    /\ taker' = [taker EXCEPT ![o] = v]
    /\ owed' = owed \cup {o}
    /\ UNCHANGED charged

Withdraw(o) ==
    /\ offer[o] = "open"
    /\ offer' = [offer EXCEPT ![o] = "cancelled"]
    /\ UNCHANGED <<taker, owed, charged>>

Charge(o, h) ==
    /\ o \in owed
    /\ h \notin charged
    /\ owed' = owed \ {o}
    /\ charged' = charged \cup {h}
    /\ UNCHANGED <<offer, taker>>

\* The attempt failed: the order stays taken and is never charged.
Forgo(o) ==
    /\ o \in owed
    /\ owed' = owed \ {o}
    /\ UNCHANGED <<offer, taker, charged>>

SaleNext ==
    \E o \in Offers :
        \/ Place(o) \/ Withdraw(o) \/ Forgo(o)
        \/ \E v \in Takers : Take(o, v)
        \/ \E h \in Offers : Charge(o, h)

SaleSpec == SaleInit /\ [][SaleNext]_saleVars
=============================================================================
