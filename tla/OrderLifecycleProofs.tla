------------------------ MODULE OrderLifecycleProofs ------------------------
(***************************************************************************)
(* Proofs about OrderLifecycle, for any number of vendors, webhook         *)
(* requests and refunds, and any price.                                    *)
(***************************************************************************)
EXTENDS OrderLifecycle, TLAPS

(***************************************************************************)
(* The inductive invariant.                                                *)
(***************************************************************************)

\* Only a taken order's card is charged, once; and only a charge is refunded or
\* disputed.
ChargeOfTaken ==
    /\ order.capturing \/ payment.charged => order.status \in Taken \cup {"refunded"}
    /\ order.capturing => ~payment.charged
    /\ order.status = "none" => order.vendor = None
    /\ made # <<>> \/ dispute # "none" => payment.charged

\* A webhook request applies an event the provider sent, and has found the
\* payment if it is Stripe's.
AppliesSent ==
    \A h \in Hooks : hook[h].pc = "apply" =>
        /\ hook[h].event \in Sent
        /\ payment.provider = "stripe" => hook[h].found

\* A refund is recorded together with the mark of its event.
MarkedWhenRecorded ==
    \A k \in 1 .. MaxRefunds : [kind |-> "refund", number |-> k] \notin processed =>
        refundRows[k] = 0

\* A processed Stripe refund that completed the full amount reached the order.
FullRefundSeen ==
    \A e \in RefundEvents \cap processed :
        payment.provider = "stripe" /\ made[e.number] >= Total => order.status = "refunded"

IInv ==
    /\ TypeOK
    /\ ChargeOfTaken
    /\ AppliesSent
    /\ MarkedWhenRecorded
    /\ RecordedOnce
    /\ FullRefundSeen

-----------------------------------------------------------------------------
(***************************************************************************)
(* The events.                                                             *)
(***************************************************************************)

\* What the provider told of stays told, and is an event.
LEMMA SentTyped ==
  ASSUME TypeOK
  PROVE  Sent \subseteq Events
  <1>1. made \in Seq(1 .. Total) /\ Len(made) <= MaxRefunds
    BY DEF TypeOK
  <1>2. DOMAIN made = 1 .. Len(made) /\ Len(made) \in Nat
    BY <1>1
  <1>3. DOMAIN made \subseteq 1 .. MaxRefunds
    BY <1>1, <1>2, LifecycleAssumption
  <1>. QED
    BY <1>3 DEF Sent, Events, RefundEvents, DisputeEvents

\* The refunds of the steps that leave the provider alone.
LEMMA SentSame ==
  ASSUME UNCHANGED provider
  PROVE  Sent' = Sent
  BY DEF provider, Sent

\* A new refund's event was not sent before it.
LEMMA SentGrows ==
  ASSUME TypeOK, NEW n \in 1 .. Total, MakeRefund(n)
  PROVE  /\ Sent \subseteq Sent'
         /\ made' \in Seq(1 .. Total)
         /\ Len(made') = Len(made) + 1
         /\ \A k \in DOMAIN made : made'[k] = made[k]
         /\ [kind |-> "refund", number |-> Len(made')] \notin Sent
  <1>1. made \in Seq(1 .. Total) /\ Len(made) \in Nat
    BY DEF TypeOK
  <1>2. Refunded(Len(made)) \in 0 .. Total
    BY <1>1, LifecycleAssumption DEF Refunded
  <1>3. Refunded(Len(made)) + n \in 1 .. Total
    BY <1>2, LifecycleAssumption DEF MakeRefund
  <1>4. /\ made' = Append(made, Refunded(Len(made)) + n)
        /\ dispute' = dispute
    BY DEF MakeRefund
  <1>5. /\ made' \in Seq(1 .. Total) /\ Len(made') = Len(made) + 1
        /\ \A k \in DOMAIN made : made'[k] = made[k]
    BY <1>1, <1>3, <1>4
  <1>6. DOMAIN made = 1 .. Len(made) /\ DOMAIN made' = 1 .. Len(made) + 1
    BY <1>1, <1>5
  <1>. QED
    BY <1>1, <1>4, <1>5, <1>6 DEF Sent

-----------------------------------------------------------------------------
(***************************************************************************)
(* Each kind of step preserves the invariant.                              *)
(***************************************************************************)

\* What it takes when the provider, the payment and the webhooks are left alone:
\* the order stays well typed and, once it is taken, taken.
LEMMA OrderStep ==
  ASSUME IInv, UNCHANGED <<payment, provider, records, hook>>,
         TypeOK',
         payment.charged => order'.status \in Taken \cup {"refunded"},
         order'.capturing => /\ ~payment.charged
                             /\ order'.status \in Taken \cup {"refunded"},
         order'.status = "none" => order'.vendor = None,
         order.status = "refunded" => order'.status = "refunded"
  PROVE  IInv'
  <1>1. Sent' = Sent
    BY SentSame
  <1>2. ChargeOfTaken'
    BY DEF IInv, ChargeOfTaken, provider
  <1>3. AppliesSent'
    BY <1>1 DEF IInv, AppliesSent
  <1>4. MarkedWhenRecorded' /\ RecordedOnce'
    BY DEF IInv, MarkedWhenRecorded, RecordedOnce, records
  <1>5. FullRefundSeen'
    BY DEF IInv, FullRefundSeen, records, provider
  <1>. QED
    BY <1>2, <1>3, <1>4, <1>5 DEF IInv

\* The checkout, the vendor and the carrier.
LEMMA OrderNextSafe ==
  ASSUME IInv,
         \/ Place \/ (\E v \in Vendors : Take(v))
         \/ StartProduction \/ MarkReadyToShip \/ FirstScan \/ Delivered
  PROVE  IInv'
  <1>. USE DEF IInv, TypeOK, OrderStatus, PayoutStatus, provider, records
  <1>1. CASE Place
    <2>1. TypeOK'
      BY <1>1, SentSame DEF Place
    <2>. QED
      BY <1>1, <2>1, OrderStep DEF Place, ChargeOfTaken, Taken
  <1>2. CASE \E v \in Vendors : Take(v)
    <2>1. PICK v \in Vendors : Take(v)
      BY <1>2
    <2>2. TypeOK'
      BY <2>1, SentSame DEF Take
    <2>. QED
      BY <2>1, <2>2, OrderStep DEF Take, ChargeOfTaken, Taken
  <1>3. ASSUME NEW from \in Taken, NEW to \in Taken, Advance(from, to)
        PROVE  IInv'
    <2>1. TypeOK'
      <3>1. to \in OrderStatus
        BY DEF Taken
      <3>2. Sent' = Sent
        BY <1>3, SentSame DEF Advance
      <3>3. order' \in [status : OrderStatus, vendor : Vendors \cup {None},
                       capturing : BOOLEAN]
        BY <1>3, <3>1 DEF Advance
      <3>4. UNCHANGED <<payment, payout, made, dispute, processed, refundRows, disputed,
                        hook, claim>>
        BY <1>3 DEF Advance
      <3>. QED
        BY <3>2, <3>3, <3>4
    <2>. QED
      BY <1>3, <2>1, OrderStep DEF Advance, ChargeOfTaken, Taken
  <1>4. CASE StartProduction \/ MarkReadyToShip \/ FirstScan
    BY <1>3, <1>4 DEF StartProduction, MarkReadyToShip, FirstScan, Taken
  <1>5. CASE Delivered
    <2>1. TypeOK'
      BY <1>5, SentSame DEF Delivered
    <2>. QED
      BY <1>5, <2>1, OrderStep DEF Delivered, ChargeOfTaken, Taken
  <1>. QED
    BY <1>1, <1>2, <1>4, <1>5

\* The payout's steps leave the rest alone.
LEMMA PayoutSafe ==
  ASSUME IInv, PayoutNext
  PROVE  IInv'
  <1>1. UNCHANGED <<order, payment, provider, records, hook>>
    BY DEF PayoutNext, CancelForDeadOrder, ReadClaim, CommitClaim, SettlePayout,
           ReleasePayout, RequeuePayout, CancelPayout, ordering
  <1>2. /\ payout' \in [status : PayoutStatus, vendor : Vendors \cup {None},
                        eligible : BOOLEAN, hold : {"none", "review", "method", "manual"},
                        reviewed : SUBSET Events]
        /\ claim' \in [pc : {"idle", "commit"},
                       verdict : {"none", "review", "method", "manual", "send"}]
    <2>. USE DEF IInv, TypeOK, PayoutStatus
    <2>1. CASE CancelForDeadOrder
      BY <2>1 DEF CancelForDeadOrder
    <2>2. CASE ReadClaim
      BY <2>2 DEF ReadClaim
    <2>3. CASE CommitClaim
      <3>1. claim.verdict # "send" => payout'.hold \in {"none", "review", "method", "manual"}
        BY <2>3 DEF CommitClaim
      <3>. QED
        BY <2>3, <3>1 DEF CommitClaim, Unclaimed
    <2>4. CASE SettlePayout
      BY <2>4 DEF SettlePayout
    <2>5. CASE ReleasePayout
      BY <2>5 DEF ReleasePayout, Events
    <2>6. CASE RequeuePayout
      BY <2>6 DEF RequeuePayout
    <2>7. CASE CancelPayout
      BY <2>7 DEF CancelPayout
    <2>. QED
      BY <2>1, <2>2, <2>3, <2>4, <2>5, <2>6, <2>7 DEF PayoutNext
  <1>3. TypeOK'
    BY <1>1, <1>2, SentSame DEF IInv, TypeOK, provider, records
  <1>. QED
    BY <1>1, <1>3, OrderStep DEF IInv, ChargeOfTaken

\* The expiry job and the capture.
LEMMA CheckoutSafe ==
  ASSUME IInv, Withdraw \/ Capture
  PROVE  IInv'
  <1>1. Sent' = Sent
    BY SentSame DEF Withdraw, Capture, provider
  <1>2. /\ payment'.provider = payment.provider
        /\ payment'.charged => payment.charged \/ order.capturing
        /\ payment.charged => payment'.charged
    BY DEF Withdraw, Capture, IInv, TypeOK
  <1>3. /\ order'.vendor = order.vendor
        /\ order.status # "open" => order'.status = order.status
        /\ order'.status # "none"
        /\ ~order'.capturing
    BY DEF Withdraw, Capture, IInv, TypeOK, ChargeOfTaken, Taken
  <1>4. TypeOK'
    BY <1>1 DEF Withdraw, Capture, IInv, TypeOK, OrderStatus, PaymentStatus, provider, records
  <1>5. ChargeOfTaken'
    BY <1>2, <1>3 DEF Withdraw, Capture, IInv, ChargeOfTaken, Taken, provider
  <1>6. AppliesSent'
    BY <1>1, <1>2 DEF Withdraw, Capture, IInv, AppliesSent
  <1>7. MarkedWhenRecorded' /\ RecordedOnce'
    BY DEF Withdraw, Capture, IInv, MarkedWhenRecorded, RecordedOnce, records
  <1>8. FullRefundSeen'
    BY <1>2, <1>3 DEF Withdraw, Capture, IInv, FullRefundSeen, records, provider
  <1>. QED
    BY <1>4, <1>5, <1>6, <1>7, <1>8 DEF IInv

\* The provider's refunds and its dispute only add events.
LEMMA ProviderSafe ==
  ASSUME IInv, ProviderNext
  PROVE  IInv'
  <1>1. /\ UNCHANGED <<order, payment, payout, records, hook, claim>>
        /\ payment.charged
    BY DEF ProviderNext, MakeRefund, Dispute
  <1>2. /\ Sent \subseteq Sent'
        /\ made' \in Seq(1 .. Total) /\ Len(made') <= MaxRefunds
        /\ dispute' \in {"none", "open", "closed"}
        /\ \A e \in RefundEvents \cap Sent : made'[e.number] = made[e.number]
    <2>1. CASE \E n \in 1 .. Total : MakeRefund(n)
      <3>1. PICK n \in 1 .. Total : MakeRefund(n)
        BY <2>1
      <3>2. Len(made) \in Nat /\ Len(made) < MaxRefunds
        BY <3>1 DEF MakeRefund, IInv, TypeOK
      <3>3. \A e \in RefundEvents \cap Sent : e.number \in DOMAIN made
        BY DEF Sent, RefundEvents
      <3>4. Len(made') <= MaxRefunds
        BY <3>1, <3>2, SentGrows, LifecycleAssumption DEF IInv
      <3>. QED
        BY <3>1, <3>3, <3>4, SentGrows DEF MakeRefund, IInv, TypeOK
    <2>2. CASE Dispute("none", "open") \/ Dispute("open", "closed")
      BY <2>2 DEF Dispute, IInv, TypeOK, Sent
    <2>. QED
      BY <2>1, <2>2 DEF ProviderNext
  <1>3. TypeOK'
    BY <1>1, <1>2 DEF IInv, TypeOK, records
  <1>4. ChargeOfTaken'
    BY <1>1 DEF IInv, ChargeOfTaken
  <1>5. AppliesSent'
    BY <1>1, <1>2 DEF IInv, AppliesSent
  <1>6. MarkedWhenRecorded' /\ RecordedOnce'
    BY <1>1 DEF IInv, MarkedWhenRecorded, RecordedOnce, records
  <1>7. FullRefundSeen'
    BY <1>1, <1>2 DEF IInv, TypeOK, FullRefundSeen, records
  <1>. QED
    BY <1>3, <1>4, <1>5, <1>6, <1>7 DEF IInv

\* What a webhook request knows when it commits an event.
LEMMA Knows ==
  ASSUME IInv, NEW h \in Hooks, CommitEvent(h)
  PROVE  LET e == hook[h].event IN
         /\ e \in Events /\ e \in Sent /\ e \notin processed
         /\ payment.charged
         /\ payment.provider = "stripe" => hook[h].found
  <1>1. hook[h].pc = "apply" /\ hook[h].event \notin processed
    BY DEF CommitEvent, MarkProcessed
  <1>2. hook[h].event \in Sent /\ (payment.provider = "stripe" => hook[h].found)
    BY <1>1 DEF IInv, AppliesSent
  <1>3. hook[h].event \in Events
    BY <1>2, SentTyped DEF IInv
  <1>4. made # <<>> \/ dispute # "none"
    BY <1>2 DEF Sent
  <1>. QED
    BY <1>1, <1>2, <1>3, <1>4 DEF IInv, ChargeOfTaken

\* Committing an event: it is marked, and its refund recorded once.
LEMMA CommitSafe ==
  ASSUME IInv, NEW h \in Hooks, CommitEvent(h)
  PROVE  IInv'
  <1>. DEFINE e == hook[h].event
  <1>1. /\ e \in Events /\ e \in Sent /\ e \notin processed
        /\ payment.charged
        /\ payment.provider = "stripe" => hook[h].found
    BY Knows
  <1>2. /\ UNCHANGED <<payout, provider, claim>>
        /\ processed' = processed \cup {e}
        /\ hook' = [hook EXCEPT ![h] = IdleHook]
    BY DEF CommitEvent, MarkProcessed
  <1>3. Sent' = Sent
    BY <1>2, SentSame
  <1>4. \/ e \in RefundEvents /\ hook[h].found /\ RecordRefund(e)
        \/ e \in DisputeEvents /\ hook[h].found /\ RecordDispute(e)
        \/ ~hook[h].found /\ UNCHANGED <<refundRows, disputed, payment, order>>
    BY <1>1 DEF CommitEvent, Events
  <1>5. order.status \in Taken \cup {"refunded"} /\ ~order.capturing
    BY <1>1 DEF IInv, ChargeOfTaken
  <1>6. /\ order' = order \/ order' = [order EXCEPT !.status = "refunded"]
        /\ payment' = payment \/ payment' = [payment EXCEPT !.status = "refunded"]
    BY <1>4 DEF RecordRefund, RecordDispute
  <1>7. /\ \/ UNCHANGED refundRows
           \/ e \in RefundEvents /\ refundRows' = [refundRows EXCEPT ![e.number] = @ + 1]
        /\ \/ UNCHANGED disputed
           \/ e \in DisputeEvents /\ disputed' = Append(disputed, e.kind)
    BY <1>4 DEF RecordRefund, RecordDispute
  <1>8. TypeOK'
    <2>1. /\ order' \in [status : OrderStatus, vendor : Vendors \cup {None},
                         capturing : BOOLEAN]
          /\ payment' \in [provider : Providers, status : PaymentStatus, charged : BOOLEAN]
      BY <1>6 DEF IInv, TypeOK, OrderStatus, PaymentStatus
    <2>2. refundRows' \in [1 .. MaxRefunds -> Nat]
      BY <1>7 DEF IInv, TypeOK, RefundEvents
    <2>3. disputed' \in Seq({"dispute_created", "dispute_closed"})
      <3>1. e \in DisputeEvents => e.kind \in {"dispute_created", "dispute_closed"}
        BY DEF DisputeEvents
      <3>2. disputed \in Seq({"dispute_created", "dispute_closed"})
        BY DEF IInv, TypeOK
      <3>. QED
        BY <1>7, <3>1, <3>2
    <2>4. hook' \in [Hooks -> [pc : {"idle", "apply"}, event : Events \cup {None},
                              found : BOOLEAN]]
      BY <1>2 DEF IInv, TypeOK, IdleHook
    <2>5. processed' \subseteq Sent'
      BY <1>1, <1>2, <1>3 DEF IInv, TypeOK
    <2>. QED
      BY <1>2, <2>1, <2>2, <2>3, <2>4, <2>5 DEF IInv, TypeOK, provider
  <1>9. ChargeOfTaken'
    BY <1>1, <1>2, <1>5, <1>6 DEF IInv, TypeOK, ChargeOfTaken, provider
  <1>10. AppliesSent'
    BY <1>2, <1>3, <1>6 DEF IInv, TypeOK, AppliesSent, IdleHook
  <1>11. MarkedWhenRecorded' /\ RecordedOnce'
    <2>1. ASSUME NEW k \in 1 .. MaxRefunds
          PROVE  /\ [kind |-> "refund", number |-> k] \notin processed' => refundRows'[k] = 0
                 /\ refundRows'[k] <= 1
      <3>1. CASE e = [kind |-> "refund", number |-> k]
        <4>1. refundRows[k] = 0
          BY <1>1, <3>1 DEF IInv, MarkedWhenRecorded
        <4>2. e.number = k /\ refundRows \in [1 .. MaxRefunds -> Nat]
          BY <3>1 DEF IInv, TypeOK
        <4>3. refundRows' = refundRows \/ refundRows' = [refundRows EXCEPT ![k] = 1]
          BY <1>7, <4>1, <4>2
        <4>4. refundRows'[k] = 0 \/ refundRows'[k] = 1
          BY <4>1, <4>2, <4>3, Zenon
        <4>5. refundRows'[k] <= 1
          BY <4>4
        <4>. QED
          BY <1>2, <3>1, <4>5
      <3>2. CASE e # [kind |-> "refund", number |-> k]
        <4>1. e \in RefundEvents => e.number # k
          BY <3>2 DEF RefundEvents
        <4>2. refundRows'[k] = refundRows[k]
          BY <1>7, <4>1 DEF IInv, TypeOK
        <4>. QED
          BY <1>2, <4>2 DEF IInv, MarkedWhenRecorded, RecordedOnce
      <3>. QED
        BY <3>1, <3>2
    <2>. QED
      BY <2>1 DEF MarkedWhenRecorded, RecordedOnce
  <1>12. FullRefundSeen'
    <2>. SUFFICES ASSUME NEW f \in RefundEvents, f \in processed',
                         payment'.provider = "stripe", made'[f.number] >= Total
                  PROVE  order'.status = "refunded"
      BY DEF FullRefundSeen
    <2>1. payment.provider = "stripe" /\ made' = made
      BY <1>2, <1>6 DEF provider, IInv, TypeOK
    <2>2. CASE f \in processed
      <3>1. order.status = "refunded"
        BY <2>1, <2>2 DEF IInv, FullRefundSeen
      <3>. QED
        BY <1>6, <3>1 DEF IInv, TypeOK
    <2>3. CASE f = e
      <3>1. RecordRefund(e)
        BY <1>1, <1>4, <2>1, <2>3 DEF RefundEvents, DisputeEvents
      <3>2. IsFullRefund(e)
        BY <2>1, <2>3 DEF IsFullRefund, Amount
      <3>. QED
        BY <3>1, <3>2 DEF RecordRefund, IInv, TypeOK
    <2>. QED
      BY <1>2, <2>2, <2>3
  <1>. QED
    BY <1>8, <1>9, <1>10, <1>11, <1>12 DEF IInv

\* A webhook request.
LEMMA HookSafe ==
  ASSUME IInv, NEW h \in Hooks, HookNext(h)
  PROVE  IInv'
  <1>1. ASSUME UNCHANGED <<order, payment, payout, provider, records, claim>>,
               NEW m \in [pc : {"idle", "apply"}, event : Events \cup {None}, found : BOOLEAN],
               hook' = [hook EXCEPT ![h] = m],
               m.pc = "apply" =>
                  m.event \in Sent /\ (payment.provider = "stripe" => m.found)
        PROVE  IInv'
    <2>1. Sent' = Sent
      BY <1>1, SentSame
    <2>2. TypeOK'
      BY <1>1, <2>1 DEF IInv, TypeOK, provider, records
    <2>3. AppliesSent'
      BY <1>1, <2>1 DEF IInv, TypeOK, AppliesSent
    <2>4. ChargeOfTaken' /\ MarkedWhenRecorded' /\ RecordedOnce' /\ FullRefundSeen'
      BY <1>1 DEF IInv, ChargeOfTaken, MarkedWhenRecorded, RecordedOnce, FullRefundSeen,
                  provider, records
    <2>. QED
      BY <2>2, <2>3, <2>4 DEF IInv
  <1>2. ASSUME NEW e \in Events, ReceiveEvent(h, e)
        PROVE  IInv'
    <2>. DEFINE m == [pc |-> "apply", event |-> e, found |-> Known]
    <2>1. Known \in BOOLEAN /\ (payment.provider = "stripe" => Known)
      BY DEF Known
    <2>. QED
      BY <1>1, <1>2, <2>1 DEF ReceiveEvent
  <1>3. CASE CommitEvent(h)
    BY <1>3, CommitSafe
  <1>4. CASE RollBackEvent(h)
    <2>1. IdleHook \in [pc : {"idle", "apply"}, event : Events \cup {None}, found : BOOLEAN]
      BY DEF IdleHook
    <2>. QED
      BY <1>1, <1>4, <2>1 DEF RollBackEvent, IdleHook
  <1>. QED
    BY <1>2, <1>3, <1>4 DEF HookNext

-----------------------------------------------------------------------------
(***************************************************************************)
(* The theorems.                                                           *)
(***************************************************************************)

\* What the system starts with.
LEMMA InitSafe ==
  ASSUME Init
  PROVE  IInv
  <1>1. Sent = {}
    BY DEF Init, Sent
  <1>2. TypeOK
    <2>1. /\ order \in [status : OrderStatus, vendor : Vendors \cup {None},
                        capturing : BOOLEAN]
          /\ payment \in [provider : Providers, status : PaymentStatus, charged : BOOLEAN]
          /\ payout \in [status : PayoutStatus, vendor : Vendors \cup {None},
                         eligible : BOOLEAN,
                         hold : {"none", "review", "method", "manual"},
                         reviewed : SUBSET Events]
      BY DEF Init, OrderStatus, PaymentStatus, PayoutStatus
    <2>2. made \in Seq(1 .. Total) /\ Len(made) = 0
      BY DEF Init
    <2>3. 0 <= MaxRefunds
      BY LifecycleAssumption
    <2>4. dispute \in {"none", "open", "closed"} /\ processed \subseteq Sent
      BY DEF Init
    <2>5. refundRows \in [1 .. MaxRefunds -> Nat]
      BY DEF Init
    <2>6. disputed \in Seq({"dispute_created", "dispute_closed"})
      BY DEF Init
    <2>7. /\ hook \in [Hooks -> [pc : {"idle", "apply"}, event : Events \cup {None},
                                 found : BOOLEAN]]
          /\ claim \in [pc : {"idle", "commit"},
                        verdict : {"none", "review", "method", "manual", "send"}]
      BY DEF Init, IdleHook, Unclaimed
    <2>. QED
      BY <2>1, <2>2, <2>3, <2>4, <2>5, <2>6, <2>7 DEF TypeOK
  <1>3. ChargeOfTaken /\ AppliesSent /\ MarkedWhenRecorded /\ RecordedOnce
    <2>1. ChargeOfTaken
      BY DEF Init, ChargeOfTaken
    <2>2. AppliesSent
      BY DEF Init, AppliesSent, IdleHook
    <2>3. MarkedWhenRecorded
      BY DEF Init, MarkedWhenRecorded
    <2>4. RecordedOnce
      BY DEF Init, RecordedOnce
    <2>. QED
      BY <2>1, <2>2, <2>3, <2>4
  <1>4. FullRefundSeen
    BY DEF Init, FullRefundSeen
  <1>. QED
    BY <1>2, <1>3, <1>4 DEF IInv

\* The invariant holds in every reachable state.
THEOREM LifecycleInvariance == Spec => []IInv
  <1>1. Init => IInv
    BY InitSafe
  <1>2. IInv /\ [Next]_vars => IInv'
    <2>. SUFFICES ASSUME IInv, [Next]_vars PROVE IInv'
      OBVIOUS
    <2>1. CASE \/ Place \/ (\E v \in Vendors : Take(v))
               \/ StartProduction \/ MarkReadyToShip \/ FirstScan \/ Delivered
      BY <2>1, OrderNextSafe
    <2>2. CASE Withdraw \/ Capture
      BY <2>2, CheckoutSafe
    <2>3. CASE ProviderNext
      BY <2>3, ProviderSafe
    <2>4. CASE \E h \in Hooks : HookNext(h)
      BY <2>4, HookSafe
    <2>5. CASE PayoutNext
      BY <2>5, PayoutSafe
    <2>6. CASE UNCHANGED vars
      <3>1. TypeOK' /\ UNCHANGED <<order, payment, provider, records, hook>>
        BY <2>6, SentSame DEF vars, provider, records, IInv, TypeOK
      <3>. QED
        BY <3>1, OrderStep DEF IInv, ChargeOfTaken
    <2>. QED
      BY <2>1, <2>2, <2>3, <2>4, <2>5, <2>6 DEF Next
  <1>. QED
    BY <1>1, <1>2, PTL DEF Spec

\* Rows, logs and memories are of their kinds, for any price and number of refunds.
THEOREM LifecycleTypeCorrect == Spec => []TypeOK
  <1>1. IInv => TypeOK
    BY DEF IInv
  <1>. QED
    BY <1>1, LifecycleInvariance, PTL

\* A webhook delivered any number of times, by any number of requests at once, is
\* recorded once.
THEOREM RefundsRecordedOnce == Spec => []RecordedOnce
  <1>1. IInv => RecordedOnce
    BY DEF IInv
  <1>. QED
    BY <1>1, LifecycleInvariance, PTL

\* However a Stripe payment is refunded and in whatever order its events are
\* processed, once they are the fully refunded order is marked refunded.
THEOREM StripeRefundsReachOrder == Spec => []StripeRefundReachesOrder
  <1>1. IInv => StripeRefundReachesOrder
    <2>. SUFFICES ASSUME IInv, payment.provider = "stripe", AllProcessed,
                         Refunded(Len(made)) = Total
                  PROVE  order.status = "refunded"
      BY DEF StripeRefundReachesOrder
    <2>1. made \in Seq(1 .. Total) /\ Len(made) \in Nat /\ Len(made) <= MaxRefunds
      BY DEF IInv, TypeOK
    <2>2. Len(made) # 0 /\ made[Len(made)] = Total
      BY <2>1, LifecycleAssumption DEF Refunded
    <2>. DEFINE e == [kind |-> "refund", number |-> Len(made)]
    <2>3. e \in Sent /\ e \in RefundEvents
      BY <2>1, <2>2 DEF Sent, RefundEvents
    <2>4. e \in processed
      BY <2>3 DEF AllProcessed
    <2>5. made[e.number] >= Total
      BY <2>2, LifecycleAssumption
    <2>. QED
      BY <2>3, <2>4, <2>5 DEF IInv, FullRefundSeen
  <1>. QED
    BY <1>1, LifecycleInvariance, PTL

\* Nothing moves an order backwards or to another vendor: not a late scan, not a
\* repeated webhook, not a refund.
THEOREM OrdersGoOneWay == Spec => OneDirection
  <1>1. IInv /\ [Next]_vars =>
          [/\ order'.status # order.status => <<order.status, order'.status>> \in Forward
           /\ order.vendor # None => order'.vendor = order.vendor]_vars
    <2>. SUFFICES ASSUME IInv, Next
                  PROVE  /\ order'.status # order.status =>
                               <<order.status, order'.status>> \in Forward
                         /\ order.vendor # None => order'.vendor = order.vendor
      OBVIOUS
    <2>. USE DEF Forward, Taken
    <2>1. CASE \/ Place \/ Withdraw \/ Capture \/ (\E v \in Vendors : Take(v))
               \/ StartProduction \/ MarkReadyToShip \/ FirstScan \/ Delivered
      <3>1. order \in [status : OrderStatus, vendor : Vendors \cup {None},
                       capturing : BOOLEAN]
        BY DEF IInv, TypeOK
      <3>2. ASSUME NEW v \in Vendors, Take(v)
            PROVE  /\ order'.status # order.status =>
                         <<order.status, order'.status>> \in Forward
                   /\ order.vendor # None => order'.vendor = order.vendor
        BY <3>2 DEF Take
      <3>3. CASE Place
        BY <3>1, <3>3 DEF Place
      <3>4. CASE Withdraw \/ Capture
        BY <3>1, <3>4 DEF Withdraw, Capture
      <3>5. CASE StartProduction \/ MarkReadyToShip \/ FirstScan
        BY <3>1, <3>5 DEF StartProduction, MarkReadyToShip, FirstScan, Advance
      <3>6. CASE Delivered
        BY <3>1, <3>6 DEF Delivered
      <3>. QED
        BY <2>1, <3>2, <3>3, <3>4, <3>5, <3>6
    <2>2. CASE ProviderNext
      BY <2>2 DEF ProviderNext, MakeRefund, Dispute
    <2>3. CASE PayoutNext
      BY <2>3 DEF PayoutNext, CancelForDeadOrder, ReadClaim, CommitClaim, SettlePayout,
         ReleasePayout, RequeuePayout, CancelPayout, ordering
    <2>4. ASSUME NEW h \in Hooks, HookNext(h)
          PROVE  /\ order'.status # order.status =>
                       <<order.status, order'.status>> \in Forward
                 /\ order.vendor # None => order'.vendor = order.vendor
      <3>1. CASE CommitEvent(h)
        <4>1. order.status \in Taken \cup {"refunded"}
          BY <3>1, Knows DEF IInv, ChargeOfTaken
        <4>2. order' = order \/ order' = [order EXCEPT !.status = "refunded"]
          BY <3>1 DEF CommitEvent, RecordRefund, RecordDispute
        <4>. QED
          BY <4>1, <4>2 DEF IInv, TypeOK
      <3>2. CASE ~CommitEvent(h)
        BY <2>4, <3>2 DEF HookNext, ReceiveEvent, RollBackEvent
      <3>. QED
        BY <3>1, <3>2
    <2>. QED
      BY <2>1, <2>2, <2>3, <2>4 DEF Next
  <1>. QED
    BY <1>1, LifecycleInvariance, PTL DEF Spec, OneDirection

-----------------------------------------------------------------------------
(***************************************************************************)
(* The order's life implements the sale.                                   *)
(***************************************************************************)

\* Steps that the sale cannot see.
LEMMA UnseenStep ==
  ASSUME SaleStatus' = SaleStatus, order'.vendor = order.vendor,
         order'.capturing = order.capturing, payment'.charged = payment.charged
  PROVE  UNCHANGED Promise!saleVars
  <1>1. [o \in Orders |-> SaleStatus]' = [o \in Orders |-> SaleStatus]
    BY DEF Orders
  <1>2. [o \in Orders |-> order.vendor]' = [o \in Orders |-> order.vendor]
    BY DEF Orders
  <1>3. {o \in Orders : order.capturing}' = {o \in Orders : order.capturing}
    BY DEF Orders
  <1>4. {o \in Orders : payment.charged}' = {o \in Orders : payment.charged}
    BY DEF Orders
  <1>. QED
    BY <1>1, <1>2, <1>3, <1>4 DEF Promise!saleVars

\* The steps of the checkout are the sale's.
LEMMA SaleSteps ==
  ASSUME IInv, Place \/ Withdraw \/ Capture \/ (\E v \in Vendors : Take(v))
  PROVE  [Promise!SaleNext]_(Promise!saleVars)
  <1>. USE DEF Orders
  <1>1. order \in [status : OrderStatus, vendor : Vendors \cup {None}, capturing : BOOLEAN]
        /\ payment \in [provider : Providers, status : PaymentStatus, charged : BOOLEAN]
    BY DEF IInv, TypeOK
  <1>2. CASE Place
    <2>1. /\ SaleStatus = "none" /\ SaleStatus' = "open"
          /\ order'.vendor = order.vendor /\ order'.capturing = order.capturing
          /\ payment' = payment
      BY <1>1, <1>2 DEF Place, SaleStatus
    <2>2. Promise!Place("order")
      BY <2>1 DEF Promise!Place
    <2>. QED
      BY <2>2 DEF Promise!SaleNext
  <1>3. CASE Withdraw
    <2>1. /\ SaleStatus = "open" /\ SaleStatus' = "cancelled"
          /\ order'.vendor = order.vendor /\ order'.capturing = order.capturing
          /\ payment'.charged = payment.charged
      BY <1>1, <1>3 DEF Withdraw, SaleStatus
    <2>2. Promise!Withdraw("order")
      BY <2>1 DEF Promise!Withdraw
    <2>. QED
      BY <2>2 DEF Promise!SaleNext
  <1>4. CASE \E v \in Vendors : Take(v)
    <2>1. PICK v \in Vendors : Take(v)
      BY <1>4
    <2>2. /\ SaleStatus = "open" /\ SaleStatus' = "accepted"
          /\ order'.vendor = v /\ order'.capturing = TRUE
          /\ payment' = payment
      BY <1>1, <2>1 DEF Take, SaleStatus
    <2>3. {o \in Orders : order.capturing}' = {o \in Orders : order.capturing} \cup {"order"}
      BY <2>2
    <2>4. Promise!Take("order", v)
      BY <2>2, <2>3 DEF Promise!Take
    <2>. QED
      BY <2>4 DEF Promise!SaleNext
  <1>5. CASE Capture
    <2>1. /\ order.capturing /\ ~order'.capturing
          /\ SaleStatus' = SaleStatus /\ order'.vendor = order.vendor
          /\ ~payment.charged
      BY <1>1, <1>5 DEF Capture, SaleStatus, IInv, ChargeOfTaken
    <2>2. {o \in Orders : order.capturing}' = {o \in Orders : order.capturing} \ {"order"}
      BY <2>1
    <2>3. CASE payment'.charged
      <3>1. {o \in Orders : payment.charged}'
              = {o \in Orders : payment.charged} \cup {"order"}
        BY <2>1, <2>3
      <3>2. Promise!Charge("order", "order")
        BY <2>1, <2>2, <3>1 DEF Promise!Charge
      <3>. QED
        BY <3>2 DEF Promise!SaleNext
    <2>4. CASE ~payment'.charged
      <3>1. {o \in Orders : payment.charged}' = {o \in Orders : payment.charged}
        BY <2>1, <2>4
      <3>2. Promise!Forgo("order")
        BY <2>1, <2>2, <3>1 DEF Promise!Forgo
      <3>. QED
        BY <3>2 DEF Promise!SaleNext
    <2>. QED
      BY <2>3, <2>4
  <1>. QED
    BY <1>2, <1>3, <1>4, <1>5

\* What production, the carrier, the provider, webhooks and payouts do is nothing
\* the sale can see.
LEMMA OtherSteps ==
  ASSUME IInv,
         \/ StartProduction \/ MarkReadyToShip \/ FirstScan \/ Delivered
         \/ ProviderNext \/ (\E h \in Hooks : HookNext(h)) \/ PayoutNext
         \/ UNCHANGED vars
  PROVE  UNCHANGED Promise!saleVars
  <1>. USE DEF SaleStatus
  <1>1. order \in [status : OrderStatus, vendor : Vendors \cup {None}, capturing : BOOLEAN]
        /\ payment \in [provider : Providers, status : PaymentStatus, charged : BOOLEAN]
    BY DEF IInv, TypeOK
  <1>2. CASE UNCHANGED <<order, payment>>
    BY <1>2, UnseenStep
  <1>3. CASE StartProduction \/ MarkReadyToShip \/ FirstScan
    BY <1>1, <1>3, UnseenStep DEF StartProduction, MarkReadyToShip, FirstScan, Advance
  <1>4. CASE Delivered
    BY <1>1, <1>4, UnseenStep DEF Delivered
  <1>5. CASE ProviderNext
    BY <1>2, <1>5 DEF ProviderNext, MakeRefund, Dispute
  <1>6. CASE PayoutNext
    BY <1>2, <1>6 DEF PayoutNext, CancelForDeadOrder, ReadClaim, CommitClaim, SettlePayout,
       ReleasePayout, RequeuePayout, CancelPayout, ordering
  <1>7. ASSUME NEW h \in Hooks, HookNext(h)
        PROVE  UNCHANGED Promise!saleVars
    <2>1. CASE CommitEvent(h)
      <3>1. order.status \in Taken \cup {"refunded"}
        BY <2>1, Knows DEF IInv, ChargeOfTaken
      <3>2. /\ order' = order \/ order' = [order EXCEPT !.status = "refunded"]
            /\ payment' = payment \/ payment' = [payment EXCEPT !.status = "refunded"]
        BY <2>1 DEF CommitEvent, RecordRefund, RecordDispute
      <3>3. /\ SaleStatus' = SaleStatus /\ order'.vendor = order.vendor
            /\ order'.capturing = order.capturing /\ payment'.charged = payment.charged
        BY <1>1, <3>1, <3>2 DEF Taken
      <3>. QED
        BY <3>3, UnseenStep
    <2>2. CASE ~CommitEvent(h)
      BY <1>2, <1>7, <2>2 DEF HookNext, ReceiveEvent, RollBackEvent
    <2>. QED
      BY <2>1, <2>2
  <1>8. CASE UNCHANGED vars
    BY <1>2, <1>8 DEF vars
  <1>. QED
    BY <1>3, <1>4, <1>5, <1>6, <1>7, <1>8

\* Whatever becomes of the order after its checkout, refunds and webhooks in any
\* order included, it was sold as Sale promises: taken by one vendor or withdrawn,
\* and charged at most once, for a taking.
THEOREM LifeKeepsPromise == Spec => SoldAsPromised
  <1>1. Init => Promise!SaleInit
    <2>. SUFFICES ASSUME Init PROVE Promise!SaleInit
      OBVIOUS
    <2>1. SaleStatus = "none" /\ order.vendor = None /\ ~order.capturing
      BY DEF Init, SaleStatus
    <2>2. ~payment.charged
      BY DEF Init
    <2>. QED
      BY <2>1, <2>2 DEF Promise!SaleInit, Orders
  <1>2. IInv /\ [Next]_vars => [Promise!SaleNext]_(Promise!saleVars)
    <2>. SUFFICES ASSUME IInv, [Next]_vars PROVE [Promise!SaleNext]_(Promise!saleVars)
      OBVIOUS
    <2>1. CASE Place \/ Withdraw \/ Capture \/ (\E v \in Vendors : Take(v))
      BY <2>1, SaleSteps
    <2>2. CASE ~(Place \/ Withdraw \/ Capture \/ (\E v \in Vendors : Take(v)))
      <3>1. UNCHANGED Promise!saleVars
        BY <2>2, OtherSteps DEF Next
      <3>. QED
        BY <3>1
    <2>. QED
      BY <2>1, <2>2
  <1>. QED
    BY <1>1, <1>2, LifecycleInvariance, PTL DEF Spec, SoldAsPromised, Promise!SaleSpec
=============================================================================
