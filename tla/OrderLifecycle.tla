--------------------------- MODULE OrderLifecycle ---------------------------
(***************************************************************************)
(* One order from checkout to its vendor's payout, and back by a refund.   *)
(*                                                                         *)
(* Four services write the order and what hangs on it: acceptance and      *)
(* production (order_acceptance_service.ts, order_production_service.ts),  *)
(* tracking (shipment_tracking_service.ts), and the payment providers'     *)
(* webhooks, which tell of refunds and disputes the staff or the bank made *)
(* elsewhere (refund_service.ts, webhook_event_service.ts); the payout job *)
(* reads it all (vendor_payout_service.ts).  Checkout is taken as its      *)
(* promise (module Sale), and sending a payout as one step with one        *)
(* outcome: modules Checkout, Shipment and VendorPayout open these up.     *)
(***************************************************************************)
EXTENDS Naturals, Sequences

CONSTANTS
    Vendors,
    Providers,   \* payment providers a customer may choose
    Hooks,       \* webhook requests that may run at once
    Total,       \* the price, in the units refunds are made in
    MaxRefunds,  \* bound on the refunds of the payment
    None

ASSUME LifecycleAssumption ==
    /\ None \notin Vendors
    /\ Providers \subseteq {"stripe", "paypal"}
    /\ Total \in Nat \ {0}
    /\ MaxRefunds \in Nat \ {0}

VARIABLES
    order,      \* the orders row
    payment,    \* the payments row, and whether the card was charged
    payout,     \* the vendor_payouts row
    made,       \* at the provider: the sum refunded after each refund
    dispute,    \* at the provider: none, open or closed
    processed,  \* webhook_events
    refundRows, \* how many refunds rows tell of each refund
    disputed,   \* the recorded events of the dispute, in order (audit_events)
    hook,       \* what each webhook request is doing and holds in memory
    claim       \* the same for the job's claim of the payout

vars == <<order, payment, payout, made, dispute, processed, refundRows, disputed, hook,
          claim>>
provider == <<made, dispute>>
records == <<processed, refundRows, disputed>>

OrderStatus == {"none", "open", "accepted", "in_progress", "ready_to_ship",
                "shipped", "delivered", "refunded", "cancelled"}
PaymentStatus == {"authorized", "captured", "refunded", "cancelled"}
PayoutStatus == {"none", "pending", "held", "processing", "paid", "failed", "cancelled"}

RefundEvents == [kind : {"refund"}, number : 1 .. MaxRefunds]
DisputeEvents == [kind : {"dispute_created", "dispute_closed"}, number : {1}]
Events == RefundEvents \cup DisputeEvents

\* What the provider has told of so far; it repeats an event until it is
\* acknowledged, and sometimes after that.
Sent == [kind : {"refund"}, number : DOMAIN made]
        \cup (IF dispute = "none" THEN {} ELSE [kind : {"dispute_created"}, number : {1}])
        \cup (IF dispute = "closed" THEN [kind : {"dispute_closed"}, number : {1}] ELSE {})

\* FOR UPDATE: a claim under way keeps the payout's row.
Unclaimed == [pc |-> "idle", verdict |-> "none"]
Unlocked == claim.pc = "idle"

IdleHook == [pc |-> "idle", event |-> None, found |-> FALSE]

Init ==
    /\ order = [status |-> "none", vendor |-> None, capturing |-> FALSE]
    /\ payment \in [provider : Providers, status : {"authorized"}, charged : {FALSE}]
    /\ payout = [status |-> "none", vendor |-> None, eligible |-> FALSE, hold |-> "none",
                 reviewed |-> {}]
    /\ made = <<>>
    /\ dispute = "none"
    /\ processed = {}
    /\ refundRows = [k \in 1 .. MaxRefunds |-> 0]
    /\ disputed = <<>>
    /\ hook = [h \in Hooks |-> IdleHook]
    /\ claim = Unclaimed

-----------------------------------------------------------------------------
(***************************************************************************)
(* Checkout, acceptance and the capture, as Sale promises them.            *)
(***************************************************************************)

Place ==
    /\ order.status = "none"
    /\ order' = [order EXCEPT !.status = "open"]
    /\ UNCHANGED <<payment, payout, provider, records, hook, claim>>

\* Slip: the order's status is not looked at again under its lock.
WithdrawAnyway ==
    /\ order.status \in {"open", "accepted"}
    /\ order' = [order EXCEPT !.status = "cancelled"]
    /\ payment' = [payment EXCEPT !.status = "cancelled"]
    /\ UNCHANGED <<payout, provider, records, hook, claim>>

\* The expiry job.
Withdraw ==
    /\ order.status = "open"
    /\ order' = [order EXCEPT !.status = "cancelled"]
    /\ payment' = [payment EXCEPT !.status = "cancelled"]
    /\ UNCHANGED <<payout, provider, records, hook, claim>>

\* acceptOrder: the claim, with the vendor's payout in the same transaction.
Take(v) ==
    /\ order.status = "open"
    /\ order.vendor = None
    /\ order' = [status |-> "accepted", vendor |-> v, capturing |-> TRUE]
    /\ payout' = [payout EXCEPT !.status = "pending", !.vendor = v]
    /\ UNCHANGED <<payment, provider, records, hook, claim>>

\* captureCheckoutSession: it is done, or the provider captured and its
\* transaction was lost, or nothing was captured.  There is no second try.
Capture ==
    /\ order.capturing
    /\ order' = [order EXCEPT !.capturing = FALSE]
    /\ \/ payment' = [payment EXCEPT !.status = "captured", !.charged = TRUE]
       \/ payment' = [payment EXCEPT !.charged = TRUE]
       \/ UNCHANGED payment
    /\ UNCHANGED <<payout, provider, records, hook, claim>>

-----------------------------------------------------------------------------
(***************************************************************************)
(* Production, by the vendor, and the parcel, by the carrier's events.     *)
(***************************************************************************)

Advance(from, to) ==
    /\ order.status = from
    /\ order' = [order EXCEPT !.status = to]
    /\ UNCHANGED <<payment, payout, provider, records, hook, claim>>

StartProduction == Advance("accepted", "in_progress")
MarkReadyToShip == Advance("in_progress", "ready_to_ship")
FirstScan == Advance("ready_to_ship", "shipped")

\* Slip: whatever has become of the order.
DeliveredAnyway ==
    /\ order.status \in {"ready_to_ship", "shipped", "refunded"}
    /\ order' = [order EXCEPT !.status = "delivered"]
    /\ payout' = [payout EXCEPT !.eligible = @ \/ payout.status = "pending"]
    /\ UNCHANGED <<payment, provider, records, hook, claim>>

\* A delivery, which may be the first the platform hears of the parcel: both
\* transitions are made.  It starts the payout's clock (scheduleEligibility).
Delivered ==
    /\ order.status \in {"ready_to_ship", "shipped"}
    /\ order' = [order EXCEPT !.status = "delivered"]
    /\ payout' = [payout EXCEPT !.eligible = @ \/ payout.status = "pending"]
    /\ UNCHANGED <<payment, provider, records, hook, claim>>

-----------------------------------------------------------------------------
(***************************************************************************)
(* The provider: refunds made in its dashboard, and a dispute.             *)
(***************************************************************************)

Refunded(k) == IF k = 0 THEN 0 ELSE made[k]

MakeRefund(n) ==
    /\ payment.charged
    /\ Len(made) < MaxRefunds
    /\ Refunded(Len(made)) + n <= Total
    /\ made' = Append(made, Refunded(Len(made)) + n)
    /\ UNCHANGED <<order, payment, payout, dispute, records, hook, claim>>

Dispute(from, to) ==
    /\ payment.charged
    /\ dispute = from
    /\ dispute' = to
    /\ UNCHANGED <<order, payment, payout, made, records, hook, claim>>

\* The amount an event tells of: Stripe's carries the charge, with all that was
\* refunded of it so far; PayPal's carries the one refund.
Amount(e) ==
    CASE payment.provider = "stripe" -> made[e.number]
      [] payment.provider = "paypal" -> made[e.number] - Refunded(e.number - 1)

\* Slip: more than the full amount.
IsMoreThanFull(e) == Amount(e) > Total

\* recordRefund's isFullRefund.
IsFullRefund(e) == Amount(e) >= Total

\* A payment is found by its transaction id, which PayPal changes at the capture:
\* a PayPal payment whose capture was not recorded is not found.
Known == payment.provider = "paypal" => payment.status \in {"captured", "refunded"}

-----------------------------------------------------------------------------
(***************************************************************************)
(* A webhook request: one transaction, from the look at webhook_events to  *)
(* the row that marks the event.                                           *)
(***************************************************************************)

ReceiveEvent(h, e) ==
    /\ hook[h].pc = "idle"
    /\ e \in Sent \ processed
    /\ hook' = [hook EXCEPT ![h] = [pc |-> "apply", event |-> e, found |-> Known]]
    /\ UNCHANGED <<order, payment, payout, provider, records, claim>>

\* Slip: without the unique index.
MarkTwice(e) == processed' = processed \cup {e}

\* markProcessed: the unique index lets one of two deliveries commit.
MarkProcessed(e) ==
    /\ e \notin processed
    /\ processed' = processed \cup {e}

\* Slip: a status the payments table does not have.
RecordPartialRefund(e) ==
    /\ refundRows' = [refundRows EXCEPT ![e.number] = @ + 1]
    /\ payment' = [payment EXCEPT !.status =
                     IF IsFullRefund(e) THEN "refunded" ELSE "partially_refunded"]
    /\ order' = IF IsFullRefund(e) THEN [order EXCEPT !.status = "refunded"] ELSE order
    /\ UNCHANGED disputed

\* recordRefund: a row, the payment, and for a full refund the order, whatever it
\* is at.
RecordRefund(e) ==
    /\ refundRows' = [refundRows EXCEPT ![e.number] = @ + 1]
    /\ payment' = [payment EXCEPT !.status = "refunded"]
    /\ order' = IF IsFullRefund(e) THEN [order EXCEPT !.status = "refunded"] ELSE order
    /\ UNCHANGED disputed

RecordDispute(e) ==
    /\ disputed' = Append(disputed, e.kind)
    /\ UNCHANGED <<refundRows, payment, order>>

CommitEvent(h) ==
    LET e == hook[h].event IN
    /\ hook[h].pc = "apply"
    /\ MarkProcessed(e)
    /\ \/ /\ hook[h].found
          /\ IF e \in RefundEvents THEN RecordRefund(e) ELSE RecordDispute(e)
       \/ /\ ~hook[h].found
          /\ UNCHANGED <<refundRows, disputed, payment, order>>
    /\ hook' = [hook EXCEPT ![h] = IdleHook]
    /\ UNCHANGED <<payout, provider, claim>>

\* The transaction is rolled back: the event is already marked, or the request
\* dies.  The provider sends the event again.
RollBackEvent(h) ==
    /\ hook[h].pc = "apply"
    /\ hook' = [hook EXCEPT ![h] = IdleHook]
    /\ UNCHANGED <<order, payment, payout, provider, records, claim>>

-----------------------------------------------------------------------------
(***************************************************************************)
(* The payout.                                                             *)
(***************************************************************************)

ordering == <<order, payment, provider, records, hook>>

CancelForDeadOrder ==
    /\ Unlocked
    /\ payout.status \in {"pending", "held"}
    /\ order.status \in {"refunded", "cancelled"}
    /\ payout' = [payout EXCEPT !.status = "cancelled"]
    /\ UNCHANGED <<ordering, claim>>

\* The refunds recorded, and a dispute whose last recorded event opened it, are
\* reasons to hold the payout unless an administrator reviewed them.
Reasons ==
    {e \in RefundEvents : refundRows[e.number] > 0}
    \cup {e \in DisputeEvents : /\ disputed # <<>>
                               /\ disputed[Len(disputed)] = e.kind
                               /\ e.kind = "dispute_created"}
Unreviewed == Reasons \ payout.reviewed

\* Slip: orders refunded after their delivery are paid as well.
WasDelivered == order.status \in {"delivered", "refunded"}

\* processPayout goes on with delivered orders only.
Payable == order.status = "delivered"

\* processPayout's transaction locks the payout, reads the order, what concerns
\* it, and the vendor, whose account may be in order or not ...
ReadClaim ==
    /\ Unlocked
    /\ payout.status = "pending"
    /\ payout.eligible
    /\ Payable
    /\ \E verdict \in IF Unreviewed # {} THEN {"review"} ELSE {"method", "manual", "send"} :
          claim' = [pc |-> "commit", verdict |-> verdict]
    /\ UNCHANGED <<ordering, payout>>

\* ... and holds or claims it.
CommitClaim ==
    /\ claim.pc = "commit"
    /\ payout' = IF claim.verdict = "send"
                 THEN [payout EXCEPT !.status = "processing"]
                 ELSE [payout EXCEPT !.status = "held", !.hold = claim.verdict]
    /\ claim' = Unclaimed
    /\ UNCHANGED ordering

\* sendClaimed, its recovery and PayPal's events (module VendorPayout); a payout
\* PayPal completed may come back.
SettlePayout ==
    /\ \/ /\ payout.status = "processing"
          /\ \E outcome \in {"paid", "failed"} : payout' = [payout EXCEPT !.status = outcome]
       \/ /\ payout.status = "paid"
          /\ payout' = [payout EXCEPT !.status = "failed"]
    /\ UNCHANGED <<ordering, claim>>

\* releaseHeldPayout: whatever was recorded before the release is reviewed.  (The
\* code compares times; a row is taken to be as old as its commit.)
ReleasePayout ==
    /\ payout.status = "held"
    /\ Unlocked
    /\ payout' = [payout EXCEPT !.status = "pending", !.hold = "none",
                    !.reviewed = {e \in RefundEvents : refundRows[e.number] > 0}
                       \cup {e \in DisputeEvents :
                               \E i \in DOMAIN disputed : disputed[i] = e.kind}]
    /\ UNCHANGED <<ordering, claim>>

\* An administrator's retry, or the vendor's repaired account.
RequeuePayout ==
    /\ Unlocked
    /\ payout.status = "failed" \/ (payout.status = "held" /\ payout.hold = "method")
    /\ payout' = [payout EXCEPT !.status = "pending", !.hold = "none"]
    /\ UNCHANGED <<ordering, claim>>

CancelPayout ==
    /\ Unlocked
    /\ payout.status \in {"pending", "held", "failed"}
    /\ payout' = [payout EXCEPT !.status = "cancelled"]
    /\ UNCHANGED <<ordering, claim>>

-----------------------------------------------------------------------------
PayoutNext ==
    \/ CancelForDeadOrder \/ ReadClaim \/ CommitClaim \/ SettlePayout
    \/ ReleasePayout \/ RequeuePayout \/ CancelPayout

ProviderNext ==
    \/ \E n \in 1 .. Total : MakeRefund(n)
    \/ Dispute("none", "open") \/ Dispute("open", "closed")

HookNext(h) ==
    \/ \E e \in Events : ReceiveEvent(h, e)
    \/ CommitEvent(h) \/ RollBackEvent(h)

Next ==
    \/ Place \/ Withdraw \/ Capture \/ \E v \in Vendors : Take(v)
    \/ StartProduction \/ MarkReadyToShip \/ FirstScan \/ Delivered
    \/ ProviderNext
    \/ \E h \in Hooks : HookNext(h)
    \/ PayoutNext

Spec == Init /\ [][Next]_vars

(***************************************************************************)
(* Fairness: the payout job runs every hour, and its claims end.           *)
(***************************************************************************)
FairSpec ==
    /\ Spec
    /\ WF_vars(CancelForDeadOrder) /\ WF_vars(ReadClaim) /\ WF_vars(CommitClaim)

-----------------------------------------------------------------------------
(***************************************************************************)
(* Properties.                                                             *)
(***************************************************************************)

\* Rows, logs and memories are of their kinds.
TypeOK ==
    /\ order \in [status : OrderStatus, vendor : Vendors \cup {None}, capturing : BOOLEAN]
    /\ payment \in [provider : Providers, status : PaymentStatus, charged : BOOLEAN]
    /\ payout \in [status : PayoutStatus, vendor : Vendors \cup {None}, eligible : BOOLEAN,
                   hold : {"none", "review", "method", "manual"}, reviewed : SUBSET Events]
    /\ made \in Seq(1 .. Total) /\ Len(made) <= MaxRefunds
    /\ dispute \in {"none", "open", "closed"}
    /\ processed \subseteq Sent
    /\ refundRows \in [1 .. MaxRefunds -> Nat]
    /\ disputed \in Seq({"dispute_created", "dispute_closed"})
    /\ hook \in [Hooks -> [pc : {"idle", "apply"}, event : Events \cup {None},
                           found : BOOLEAN]]
    /\ claim \in [pc : {"idle", "commit"},
                  verdict : {"none", "review", "method", "manual", "send"}]

\* The ways an order may go.
Taken == {"accepted", "in_progress", "ready_to_ship", "shipped", "delivered"}
Forward ==
    {<<"none", "open">>, <<"open", "accepted">>, <<"open", "cancelled">>,
     <<"accepted", "in_progress">>, <<"in_progress", "ready_to_ship">>,
     <<"ready_to_ship", "shipped">>, <<"ready_to_ship", "delivered">>,
     <<"shipped", "delivered">>}
    \cup (Taken \X {"refunded"})

\* An order only moves forward, whoever moves it and however late: a refunded or
\* withdrawn order stays so, only a taken one is refunded, what was delivered is
\* not shipped again, and the vendor who took it keeps it
\* (order_production_service.ts:34-45, shipment_tracking_service.ts:15-19).
OneDirection ==
    [][/\ order'.status # order.status => <<order.status, order'.status>> \in Forward
       /\ order.vendor # None => order'.vendor = order.vendor]_vars

\* A webhook delivered twice, even twice at once, is recorded once
\* (webhook_event_service.ts:1-8).
RecordedOnce == \A k \in 1 .. MaxRefunds : refundRows[k] <= 1

\* All that was told of is processed.
AllProcessed == Sent \subseteq processed

\* However a Stripe payment is refunded, in one go or in parts, told of in any
\* order: once all of it is, and the events are in, the order is refunded.
StripeRefundReachesOrder ==
    /\ payment.provider = "stripe" /\ AllProcessed /\ Refunded(Len(made)) = Total
    => order.status = "refunded"

\* "An order refunded in full or cancelled never pays out, whatever stage its
\* payout reached short of being sent" (vendor_payout_service.ts:158-159): unless
\* a claim is already under way, its payout is cancelled in the end.
RefundStopsPayout ==
    order.status = "refunded" /\ payout.status \in {"pending", "held"} /\ Unlocked
        ~> payout.status = "cancelled"

\* Seen from the checkout this is the sale it promised: nothing that production,
\* carriers, refunds or payouts do undoes a taking or charges twice.
Orders == {"order"}
SaleStatus ==
    IF order.status \in {"none", "open", "cancelled"} THEN order.status ELSE "accepted"
Promise == INSTANCE Sale WITH
    Offers <- Orders, Takers <- Vendors, NoTaker <- None,
    offer <- [o \in Orders |-> SaleStatus],
    taker <- [o \in Orders |-> order.vendor],
    owed <- {o \in Orders : order.capturing},
    charged <- {o \in Orders : payment.charged}
SoldAsPromised == Promise!SaleSpec
=============================================================================
