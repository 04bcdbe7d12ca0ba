------------------------------ MODULE Shipment ------------------------------
(***************************************************************************)
(* The shipping labels of one order (shipment_service.ts), and the carrier *)
(* scans that move the shipment and the order                              *)
(* (shipment_tracking_service.ts, easypost_webhooks_controller.ts).        *)
(*                                                                         *)
(* A request that buys a label claims the order's pending shipment by a    *)
(* short lease, calls EasyPost outside any transaction (create, then buy), *)
(* and records the label; a request that voids one asks EasyPost for a     *)
(* refund and cancels the shipment.  Any number of requests run at once.   *)
(*                                                                         *)
(* A shipment row is named by the request that inserts it, an EasyPost     *)
(* shipment by the request that creates it.                                *)
(***************************************************************************)
EXTENDS Naturals, FiniteSets

CONSTANTS
    Buys,      \* requests that buy a label for the order
    Voids,     \* requests that void one
    Mishaps,   \* what may go wrong, a subset of AllMishaps
    None

AllMishaps == {
    "crash",   \* a request dies between two steps
    "throw",   \* an EasyPost call throws without having had an effect
    "lost",    \* ... or after having had it
    "noRate",  \* no carrier rate matches the shipping method
    "slow"}    \* a request takes longer than its lease

ASSUME ShipmentAssumption ==
    /\ None \notin Buys \cup Voids
    /\ Mishaps \subseteq AllMishaps

VARIABLES
    order,     \* orders.status
    row,       \* shipments rows (EasyPost id, lease, tracking number)
    label,     \* the shipment at EasyPost: created, bought, refunded
    carrier,   \* where the carrier last scanned the label
    events,    \* tracker events not delivered yet
    buy,       \* what each buying request is doing and holds in memory
    void       \* the same for each voiding request

vars == <<order, row, label, carrier, events, buy, void>>
world == <<order, label, carrier, events>>

OrderStatus == {"ready_to_ship", "shipped", "delivered", "refunded"}
RowStatus == {"none", "pending", "label_created", "in_transit", "delivered", "cancelled"}
LabelStatus == {"none", "created", "bought", "refunded"}
Scans == {"in_transit", "delivered"}
BuySteps == {"idle", "load", "lookup", "create", "save", "buy", "release",
             "finalize", "done"}
VoidSteps == {"idle", "refund", "commit", "done"}
MaybeBuy == Buys \cup {None}

NoRow == [status |-> "none", ep |-> None, lease |-> "none", tracking |-> None]

Rows == {b \in Buys : row[b].status # "none"}
Active == {b \in Rows : row[b].status # "cancelled"}
Working(b) == \E r \in Buys : buy[r].row = b /\ buy[r].pc \notin {"idle", "done"}

BuyStep(r, pc) == buy' = [buy EXCEPT ![r].pc = pc]
VoidStep(v, pc) == void' = [void EXCEPT ![v].pc = pc]

Init ==
    /\ order = "ready_to_ship"
    /\ row = [b \in Buys |-> NoRow]
    /\ label = [e \in Buys |-> "none"]
    /\ carrier = [e \in Buys |-> "none"]
    /\ events = {}
    /\ buy = [r \in Buys |-> [pc |-> "idle", row |-> None, ep |-> None, note |-> "none"]]
    /\ void = [v \in Voids |-> [pc |-> "idle", row |-> None, ep |-> None]]

-----------------------------------------------------------------------------
(***************************************************************************)
(* Buying a label (createShipmentLabel).                                   *)
(***************************************************************************)

\* A pending shipment nobody is buying a label for.
Claimable(b) == row[b].status = "pending" /\ row[b].lease # "fresh"

\* claimPendingShipment, under the order's row lock: take over the pending
\* shipment, or insert one if no shipment of the order is live.
Claim(r) ==
    /\ buy[r].pc = "idle"
    /\ \/ \E b \in Active :
            /\ order = "ready_to_ship"
            /\ Claimable(b)
            /\ row' = [row EXCEPT ![b].lease = "fresh"]
            /\ buy' = [buy EXCEPT ![r].pc = "load", ![r].row = b]
       \/ /\ order = "ready_to_ship"
          /\ Active = {}
          /\ row' = [row EXCEPT ![r] = [NoRow EXCEPT !.status = "pending", !.lease = "fresh"]]
          /\ buy' = [buy EXCEPT ![r].pc = "load", ![r].row = r]
       \/ /\ order # "ready_to_ship" \/ \E b \in Active : ~Claimable(b)
          /\ BuyStep(r, "done")
          /\ UNCHANGED row
    /\ UNCHANGED <<world, void>>

\* The shipment is re-fetched (findOrFail).
Load(r) ==
    LET b == buy[r].row IN
    /\ buy[r].pc = "load"
    /\ \/ row[b].status = "none" /\ BuyStep(r, "done")
       \/ /\ row[b].status # "none"
          /\ buy' = [buy EXCEPT ![r].ep = row[b].ep,
                        ![r].pc = IF row[b].ep = None THEN "create" ELSE "lookup"]
    /\ UNCHANGED <<row, world, void>>

\* Slip: EasyPost is not asked about the id an earlier attempt left.
NeverBought(e) == FALSE

BoughtAt(e) == label[e] \in {"bought", "refunded"}

\* getPurchasedLabel: an earlier attempt may have bought the label.
LookUp(r) ==
    /\ buy[r].pc = "lookup"
    /\ \/ BuyStep(r, IF BoughtAt(buy[r].ep) THEN "finalize" ELSE "create")
       \/ "throw" \in Mishaps /\ BuyStep(r, "release")
    /\ UNCHANGED <<row, world, void>>

\* createShipment: an earlier, unbought EasyPost shipment is abandoned.
Create(r) ==
    /\ buy[r].pc = "create"
    /\ \/ /\ label' = [label EXCEPT ![r] = "created"]
          /\ buy' = [buy EXCEPT ![r].pc = "save", ![r].ep = r]
       \/ /\ "throw" \in Mishaps
          /\ BuyStep(r, "release")
          /\ UNCHANGED label
    /\ UNCHANGED <<row, order, carrier, events, void>>

\* The id is saved before the label is bought (an update of no row, if the row
\* has been deleted meanwhile, is no error).
SaveId(r) ==
    LET b == buy[r].row IN
    /\ buy[r].pc = "save"
    /\ row' = IF row[b].status = "none" THEN row ELSE [row EXCEPT ![b].ep = r]
    /\ BuyStep(r, "buy")
    /\ UNCHANGED <<world, void>>

\* Slip: a buy whose answer is lost counts as one that was never attempted.
LostMeansNotBought(r) ==
    /\ buy[r].pc = "buy"
    /\ \/ /\ label' = [label EXCEPT ![r] = "bought"]
          /\ \/ BuyStep(r, "finalize")
             \/ "lost" \in Mishaps
                /\ buy' = [buy EXCEPT ![r].pc = "release", ![r].note = "noRate"]
       \/ /\ "noRate" \in Mishaps
          /\ buy' = [buy EXCEPT ![r].pc = "release", ![r].note = "noRate"]
          /\ UNCHANGED label
    /\ UNCHANGED <<row, order, carrier, events, void>>

\* buyShipment
Buy(r) ==
    /\ buy[r].pc = "buy"
    /\ \/ /\ label' = [label EXCEPT ![r] = "bought"]
          /\ \/ BuyStep(r, "finalize")
             \/ "lost" \in Mishaps /\ BuyStep(r, "release")
       \/ /\ "throw" \in Mishaps
          /\ BuyStep(r, "release")
          /\ UNCHANGED label
       \/ /\ "noRate" \in Mishaps
          /\ buy' = [buy EXCEPT ![r].pc = "release", ![r].note = "noRate"]
          /\ UNCHANGED label
    /\ UNCHANGED <<row, order, carrier, events, void>>

\* Slip: the lease is marked, not cleared.
LeaseMarked(r) ==
    LET b == buy[r].row IN
    /\ buy[r].pc = "release"
    /\ row' = [row EXCEPT ![b].lease = "released"]
    /\ BuyStep(r, "done")
    /\ UNCHANGED <<world, void>>

\* releaseFailedClaim: if nothing can have been bought the row is deleted,
\* whatever it has become; otherwise only the lease is given up.
Release(r) ==
    LET b == buy[r].row IN
    /\ buy[r].pc = "release"
    /\ row' = IF row[b].status = "none" THEN row
              ELSE IF buy[r].ep = None \/ buy[r].note = "noRate"
              THEN [row EXCEPT ![b] = NoRow]
              ELSE [row EXCEPT ![b].lease = "none"]
    /\ BuyStep(r, "done")
    /\ UNCHANGED <<world, void>>

\* finalizeShipment; if the row was deleted meanwhile the label's foreign key
\* fails and nothing is written.  The EasyPost id is not written again.
Finalize(r) ==
    LET b == buy[r].row IN
    /\ buy[r].pc = "finalize"
    /\ row' = IF row[b].status = "none" THEN row
              ELSE [row EXCEPT ![b].status = "label_created", ![b].lease = "none",
                               ![b].tracking = buy[r].ep]
    /\ BuyStep(r, "done")
    /\ UNCHANGED <<world, void>>

BuyCrash(r) ==
    /\ "crash" \in Mishaps
    /\ buy[r].pc \notin {"idle", "done"}
    /\ BuyStep(r, "done")
    /\ UNCHANGED <<row, world, void>>

\* Two minutes pass.  Unless requests are slow, the one that took the lease has
\* ended by then.
LeaseExpires(b) ==
    /\ row[b].lease = "fresh"
    /\ "slow" \in Mishaps \/ ~Working(b)
    /\ row' = [row EXCEPT ![b].lease = "stale"]
    /\ UNCHANGED <<world, buy, void>>

-----------------------------------------------------------------------------
(***************************************************************************)
(* Voiding a label (voidShipmentLabel).                                    *)
(***************************************************************************)

\* The controller loads the shipment; only an unscanned label can be voided.
CheckVoid(v, b) ==
    /\ void[v].pc = "idle"
    /\ row[b].status = "label_created"
    /\ row[b].ep # None
    /\ void' = [void EXCEPT ![v] = [pc |-> "refund", row |-> b, ep |-> row[b].ep]]
    /\ UNCHANGED <<row, world, buy>>

\* refundLabel: the carrier refuses the refund of a label it has scanned, which
\* EasyPost may answer later; asking again may be an error.
Refund(v) ==
    LET e == void[v].ep IN
    /\ void[v].pc = "refund"
    /\ \/ /\ BoughtAt(e)
          /\ label' = [label EXCEPT ![e] = IF carrier[e] = "none" THEN "refunded" ELSE @]
          /\ VoidStep(v, "commit")
       \/ /\ BoughtAt(e) /\ "lost" \in Mishaps
          /\ label' = [label EXCEPT ![e] = IF carrier[e] = "none" THEN "refunded" ELSE @]
          /\ VoidStep(v, "done")
       \/ /\ label[e] # "bought" \/ "throw" \in Mishaps
          /\ VoidStep(v, "done")
          /\ UNCHANGED label
    /\ UNCHANGED <<row, order, carrier, events, buy>>

\* Slip: the shipment is cancelled whatever was scanned in the meantime.
CancelScannedToo(v) ==
    /\ void[v].pc = "commit"
    /\ row' = [row EXCEPT ![void[v].row].status = "cancelled"]
    /\ VoidStep(v, "done")
    /\ UNCHANGED <<world, buy>>

\* The labels are marked voided; a shipment scanned in the meantime stays live.
CommitVoid(v) ==
    LET b == void[v].row IN
    /\ void[v].pc = "commit"
    /\ row' = IF row[b].status = "label_created"
              THEN [row EXCEPT ![b].status = "cancelled"] ELSE row
    /\ VoidStep(v, "done")
    /\ UNCHANGED <<world, buy>>

VoidCrash(v) ==
    /\ "crash" \in Mishaps
    /\ void[v].pc \in {"refund", "commit"}
    /\ VoidStep(v, "done")
    /\ UNCHANGED <<row, world, buy>>

-----------------------------------------------------------------------------
(***************************************************************************)
(* The carrier, and EasyPost's tracker events: each is applied once        *)
(* (webhook_events) but in any order.                                      *)
(***************************************************************************)

\* The vendor has the label once it is recorded, and may use it even after
\* voiding it.
Printed(e) == \E b \in Buys : row[b].tracking = e

Scan(e, scan) ==
    /\ Printed(e)
    /\ carrier[e] # "delivered"
    /\ carrier' = [carrier EXCEPT ![e] = scan]
    /\ events' = events \cup {[ep |-> e, scan |-> scan]}
    /\ UNCHANGED <<order, row, label, buy, void>>

Rank(status) == CASE status = "pending" -> 0
                  [] status = "label_created" -> 1
                  [] status = "in_transit" -> 2
                  [] status = "delivered" -> 3

\* findShipment: by EasyPost id, or else by tracking code among live shipments.
ShipmentsOf(e) ==
    LET byId == {b \in Rows : row[b].ep = e} IN
    IF byId # {} THEN byId ELSE {b \in Active : row[b].tracking = e}

\* Where an update moves a live shipment: forward only.
Tracked(b, scan) == IF Rank(scan) > Rank(row[b].status) THEN scan ELSE row[b].status

\* Slip: a delivery reported before any other scan does not ship the order.
MovedOneStep(status, allDelivered) ==
    IF status = "ready_to_ship" THEN "shipped"
    ELSE IF status = "shipped" /\ allDelivered THEN "delivered" ELSE status

\* The order's two conditional transitions, one after the other.
Moved(status, allDelivered) ==
    IF status \notin {"ready_to_ship", "shipped"} THEN status
    ELSE IF allDelivered THEN "delivered" ELSE "shipped"

\* applyTrackerUpdate: a pending or voided shipment does not drive the order, a
\* delivered one drops late events.
ApplyUpdate(b, scan) ==
    \/ /\ \/ row[b].status \in {"pending", "cancelled"}
          \/ row[b].status = "delivered" /\ scan # "delivered"
       /\ UNCHANGED <<row, order>>
    \/ /\ \/ row[b].status \in {"label_created", "in_transit"}
          \/ row[b].status = "delivered" /\ scan = "delivered"
       /\ row' = [row EXCEPT ![b].status = Tracked(b, scan)]
       /\ order' = Moved(order, \A c \in Active : row'[c].status = "delivered")

Tracker(ev) ==
    /\ \/ \E b \in ShipmentsOf(ev.ep) : ApplyUpdate(b, ev.scan)
       \/ ShipmentsOf(ev.ep) = {} /\ UNCHANGED <<row, order>>
    /\ events' = events \ {ev}
    /\ UNCHANGED <<label, carrier, buy, void>>

\* A full refund of the order's payment (refund_service.ts), at any time.
RefundOrder ==
    /\ order # "refunded"
    /\ order' = "refunded"
    /\ UNCHANGED <<row, label, carrier, events, buy, void>>

-----------------------------------------------------------------------------
BuyNext(r) ==
    \/ Claim(r) \/ Load(r) \/ LookUp(r) \/ Create(r) \/ SaveId(r) \/ Buy(r)
    \/ Release(r) \/ Finalize(r) \/ BuyCrash(r) \/ LeaseExpires(r)

VoidNext(v) ==
    \/ \E b \in Buys : CheckVoid(v, b)
    \/ Refund(v) \/ CommitVoid(v) \/ VoidCrash(v)

CarrierNext == \E e \in Buys, scan \in Scans : Scan(e, scan)
TrackerNext == \E ev \in events : Tracker(ev)

Next ==
    \/ \E r \in Buys : BuyNext(r)
    \/ \E v \in Voids : VoidNext(v)
    \/ CarrierNext \/ TrackerNext
    \/ RefundOrder

Spec == Init /\ [][Next]_vars

\* EasyPost repeats an event until it is acknowledged, so each is applied in the
\* end.
Fairness ==
    \A e \in Buys, scan \in Scans :
        WF_vars([ep |-> e, scan |-> scan] \in events /\ Tracker([ep |-> e, scan |-> scan]))

FairSpec == Spec /\ Fairness

-----------------------------------------------------------------------------
(***************************************************************************)
(* Properties.                                                             *)
(***************************************************************************)

\* Rows, labels, scans and memories are of their kinds.
TypeOK ==
    /\ order \in OrderStatus
    /\ row \in [Buys -> [status : RowStatus, ep : MaybeBuy,
                         lease : {"none", "fresh", "stale"}, tracking : MaybeBuy]]
    /\ label \in [Buys -> LabelStatus]
    /\ carrier \in [Buys -> {"none"} \cup Scans]
    /\ events \subseteq [ep : Buys, scan : Scans]
    /\ buy \in [Buys -> [pc : BuySteps, row : MaybeBuy, ep : MaybeBuy,
                         note : {"none", "noRate"}]]
    /\ void \in [Voids -> [pc : VoidSteps, row : MaybeBuy, ep : MaybeBuy]]

\* No label is bought while another one the vendor has not used is paid for
\* (shipment_service.ts:12): requests, retries and voids buy one at a time.
Unused == {e \in Buys : label[e] = "bought" /\ carrier[e] = "none"}
BoughtOnce == Cardinality(Unused) <= 1

\* A label that is paid for and not used is the one of a live shipment, where
\* the next attempt or a void finds it (shipment_service.ts:12, 15-22).
NoLabelLost == \A e \in Unused : \E b \in Active : row[b].ep = e

\* A shipment never goes back: not by events out of order, a void after a scan,
\* or a retry (shipment_tracking_service.ts:32, shipment_service.ts:330-332).
ForwardOnly ==
    [][\A b \in Buys :
        LET old == row[b].status
            new == row'[b].status IN
        /\ old = "cancelled" => new = "cancelled"
        /\ old \in {"label_created", "in_transit", "delivered"} =>
              \/ new # "none" /\ new # "cancelled" /\ Rank(new) >= Rank(old)
              \/ new = "cancelled" /\ old = "label_created"]_vars

\* A delivery by the carrier reaches the order, in whatever order its scans are
\* reported, unless the shipment is voided or the order refunded first.
DeliveryReachesOrder ==
    \A b \in Buys, e \in Buys :
        (row[b].tracking = e /\ row[b].status \notin {"cancelled", "none"}
                             /\ carrier[e] = "delivered")
            ~> (order \in {"delivered", "refunded"} \/ row[b].status \in {"cancelled", "none"})
=============================================================================
