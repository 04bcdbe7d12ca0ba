------------------------------ MODULE Checkout ------------------------------
(***************************************************************************)
(* The checkout of one accepted quote: from the customer's pay calls to    *)
(* the capture of the held payment or its release.                         *)
(*                                                                         *)
(*   - pay requests (checkout_sessions_controller.ts, pay) find or open a  *)
(*     checkout session, authorize a hold at the payment provider, and     *)
(*     create the order vendors will see;                                  *)
(*   - vendors accept an open order (order_acceptance_service.ts) and the  *)
(*     acceptance captures the hold (checkout_service.ts,                  *)
(*     captureCheckoutSession);                                            *)
(*   - runs of the hourly job (jobs/expire_checkout_sessions.ts) release   *)
(*     the hold of a session no vendor accepted in time.                   *)
(*                                                                         *)
(* Every query in this code is filtered by the quote, so one quote is      *)
(* enough.  Each step below is one database statement, one transaction or  *)
(* one provider call; between two steps any other request may run.  A row  *)
(* is named by the pay request that inserts it: a request opens at most    *)
(* one session, hold, payment and order.                                   *)
(*                                                                         *)
(* `.first()` without an ORDER BY returns whichever matching row the       *)
(* database finds first: any matching row.                                 *)
(***************************************************************************)
EXTENDS Naturals, FiniteSets

CONSTANTS
    Pays,         \* the pay requests made for the quote
    Vendors,      \* vendors eligible to accept its order
    Jobs,         \* runs of ExpireCheckoutSessions that may overlap
    MaxInFlight,  \* how many pay requests may be running at one time
    Mishaps,      \* what may go wrong, a subset of AllMishaps
    None          \* no row

AllMishaps == {
    "decline",    \* the provider refuses the card
    "action",     \* the card needs 3D Secure
    "gateway",    \* retrieve or capture throws without having had an effect
    "cancel",     \* cancel throws without having had an effect
    "crash"}      \* a request dies between two steps (or its transaction
                  \* rolls back) after the provider has acted

ASSUME CheckoutAssumption ==
    /\ IsFiniteSet(Pays)
    /\ None \notin Pays \cup Vendors \cup Jobs
    /\ MaxInFlight \in Nat \ {0}
    /\ Mishaps \subseteq AllMishaps

VARIABLES
    session,      \* checkout_sessions.status, by the request that opened it
    payment,      \* payments.status, by the request that inserted it
    paidUnder,    \* payments.checkout_session_id
    hold,         \* the transaction at the payment provider
    order,        \* orders.status (the part of it checkout can see)
    orderVendor,  \* orders.vendor_id
    pay,          \* what each pay request is doing and holds in memory
    accept,       \* the same for each vendor's acceptance
    expire,       \* the same for each job run
    disturbed     \* history: requests have overlapped, one has died, or the card
                  \* has needed 3D Secure (see Disorder and Dies)

codeVars == <<session, payment, paidUnder, hold, order, orderVendor,
              pay, accept, expire>>
vars == <<codeVars, disturbed>>
rows == <<session, payment, paidUnder, order, orderVendor>>

SessionStatus == {"none", "active", "completed", "expired", "failed"}
PaymentStatus == {"none", "pending", "authorized", "captured", "cancelled", "failed"}
HoldStatus == {"none", "requires_action", "authorized", "captured", "cancelled", "failed"}
OrderStatus == {"none", "open", "accepted", "cancelled"}

PaySteps == {"idle", "session", "insert", "payment", "authorize", "retrieve",
             "record", "finalize", "failSession", "failPayment", "done"}
AcceptSteps == {"idle", "find", "capture", "commit"}
ExpireSteps == {"idle", "lock", "cancel", "commit"}

MaybePay == Pays \cup {None}

PayMemory == [pc : PaySteps, session : MaybePay, payment : MaybePay]
AcceptMemory == [pc : AcceptSteps, order : MaybePay, session : MaybePay, payment : MaybePay]
ExpireMemory == [pc : ExpireSteps, session : MaybePay, order : MaybePay, payment : MaybePay]

\* Vocabulary of the next-state relation.
Running(r) == pay[r].pc \notin {"idle", "done"}
InFlight == {r \in Pays : Running(r)}
Orders == {o \in Pays : order[o] # "none"}
Sessions == {s \in Pays : session[s] # "none"}
PaymentsOf(s) == {p \in Pays : payment[p] # "none" /\ paidUnder[p] = s}

\* Slip: the row is read without FOR UPDATE.
OrderUnlocked(o) == FALSE

\* SELECT ... FOR UPDATE: the transaction that holds the row lock.
OrderLocked(o) == \E j \in Jobs : expire[j].order = o
PaymentLocked(p) == \E v \in Vendors : accept[v].payment = p

PayStep(r, pc) == pay' = [pay EXCEPT ![r].pc = pc]

Init ==
    /\ session = [s \in Pays |-> "none"]
    /\ payment = [p \in Pays |-> "none"]
    /\ paidUnder = [p \in Pays |-> None]
    /\ hold = [h \in Pays |-> "none"]
    /\ order = [o \in Pays |-> "none"]
    /\ orderVendor = [o \in Pays |-> None]
    /\ pay = [r \in Pays |-> [pc |-> "idle", session |-> None, payment |-> None]]
    /\ accept = [v \in Vendors |-> [pc |-> "idle", order |-> None,
                                    session |-> None, payment |-> None]]
    /\ expire = [j \in Jobs |-> [pc |-> "idle", session |-> None,
                                 order |-> None, payment |-> None]]
    /\ disturbed = FALSE

-----------------------------------------------------------------------------
(***************************************************************************)
(* A pay request.                                                          *)
(***************************************************************************)

\* Slip: the order that exists is not looked for.
PayAgain(r) ==
    /\ pay[r].pc = "idle"
    /\ Cardinality(InFlight) < MaxInFlight
    /\ PayStep(r, "session")
    /\ UNCHANGED <<rows, hold, accept, expire>>

\* An order for the quote is returned as it is; otherwise checkout begins.
LookUpOrder(r) ==
    /\ pay[r].pc = "idle"
    /\ Cardinality(InFlight) < MaxInFlight
    /\ PayStep(r, IF Orders # {} THEN "done" ELSE "session")
    /\ UNCHANGED <<rows, hold, accept, expire>>

\* createCheckoutSession reads the active session ...
FindSession(r) ==
    /\ pay[r].pc = "session"
    /\ \/ \E s \in Pays :
            /\ session[s] = "active"
            /\ pay' = [pay EXCEPT ![r] = [@ EXCEPT !.pc = "payment", !.session = s]]
       \/ /\ \A s \in Pays : session[s] # "active"
          /\ PayStep(r, "insert")
    /\ UNCHANGED <<rows, hold, accept, expire>>

\* ... and inserts one in a second statement if it read none.
InsertSession(r) ==
    /\ pay[r].pc = "insert"
    /\ session' = [session EXCEPT ![r] = "active"]
    /\ pay' = [pay EXCEPT ![r] = [@ EXCEPT !.pc = "payment", !.session = r]]
    /\ UNCHANGED <<payment, paidUnder, order, orderVendor, hold, accept, expire>>

\* A payment past `pending` means the order exists (or a 404); a pending one
\* is resumed; with none the card is authorized.
FindPayment(r) ==
    /\ pay[r].pc = "payment"
    /\ LET found == PaymentsOf(pay[r].session) IN
       \/ /\ found = {}
          /\ PayStep(r, "authorize")
       \/ \E p \in found :
            \/ /\ payment[p] = "pending"
               /\ pay' = [pay EXCEPT ![r] = [@ EXCEPT !.pc = "retrieve", !.payment = p]]
            \/ /\ payment[p] # "pending"
               /\ PayStep(r, "done")
    /\ UNCHANGED <<rows, hold, accept, expire>>

\* getPaymentGateway(provider).authorize
Authorize(r) ==
    /\ pay[r].pc = "authorize"
    /\ \/ /\ hold' = [hold EXCEPT ![r] = "authorized"]
          /\ PayStep(r, "finalize")
       \/ /\ "action" \in Mishaps
          /\ hold' = [hold EXCEPT ![r] = "requires_action"]
          /\ PayStep(r, "record")
       \/ /\ "decline" \in Mishaps
          /\ PayStep(r, "failSession")
          /\ UNCHANGED hold
    /\ UNCHANGED <<rows, accept, expire>>

\* A card awaiting 3D Secure leaves a pending payment and the 202 answer.
RecordPending(r) ==
    /\ pay[r].pc = "record"
    /\ payment' = [payment EXCEPT ![r] = "pending"]
    /\ paidUnder' = [paidUnder EXCEPT ![r] = pay[r].session]
    /\ PayStep(r, "done")
    /\ UNCHANGED <<session, order, orderVendor, hold, accept, expire>>

\* The same attempt, resumed: getPaymentGateway(provider).retrieve
Retrieve(r) ==
    /\ pay[r].pc = "retrieve"
    /\ LET h == hold[pay[r].payment] IN
       \/ h = "requires_action" /\ PayStep(r, "done")
       \/ h = "authorized" /\ PayStep(r, "finalize")
       \/ /\ h \notin {"requires_action", "authorized"} \/ "gateway" \in Mishaps
          /\ PayStep(r, "failSession")
    /\ UNCHANGED <<rows, hold, accept, expire>>

\* finalizeAuthorization, one transaction: the payment (new, or the pending one
\* whatever it has become since it was read) is authorized, the order is open.
Finalize(r) ==
    LET p == IF pay[r].payment = None THEN r ELSE pay[r].payment IN
    /\ pay[r].pc = "finalize"
    /\ ~PaymentLocked(p)
    /\ payment' = [payment EXCEPT ![p] = "authorized"]
    /\ paidUnder' = [paidUnder EXCEPT ![p] = pay[r].session]
    /\ order' = [order EXCEPT ![r] = "open"]
    /\ PayStep(r, "done")
    /\ UNCHANGED <<session, orderVendor, hold, accept, expire>>

\* failAttempt: two saves by id, each whatever the row has become.
FailSession(r) ==
    /\ pay[r].pc = "failSession"
    /\ session' = [session EXCEPT ![pay[r].session] = "failed"]
    /\ PayStep(r, IF pay[r].payment = None THEN "done" ELSE "failPayment")
    /\ UNCHANGED <<payment, paidUnder, order, orderVendor, hold, accept, expire>>

FailPayment(r) ==
    /\ pay[r].pc = "failPayment"
    /\ ~PaymentLocked(pay[r].payment)
    /\ payment' = [payment EXCEPT ![pay[r].payment] = "failed"]
    /\ PayStep(r, "done")
    /\ UNCHANGED <<session, paidUnder, order, orderVendor, hold, accept, expire>>

PayCrash(r) ==
    /\ "crash" \in Mishaps
    /\ Running(r)
    /\ PayStep(r, "done")
    /\ UNCHANGED <<rows, hold, accept, expire>>

\* At the provider, the customer completes (or fails) 3D Secure.
CompleteAction(h, outcome) ==
    /\ hold[h] = "requires_action"
    /\ payment[h] # "none"
    /\ hold' = [hold EXCEPT ![h] = outcome]
    /\ UNCHANGED <<rows, pay, accept, expire>>

-----------------------------------------------------------------------------
(***************************************************************************)
(* A vendor's acceptance.                                                  *)
(***************************************************************************)

\* Slip: the update is not conditional on the order being open.
ClaimAnyOrder(v, o) ==
    /\ accept[v].pc = "idle"
    /\ order[o] # "none"
    /\ ~OrderLocked(o)
    /\ order' = [order EXCEPT ![o] = "accepted"]
    /\ orderVendor' = [orderVendor EXCEPT ![o] = v]
    /\ accept' = [accept EXCEPT ![v] = [@ EXCEPT !.pc = "find", !.order = o]]
    /\ UNCHANGED <<session, payment, paidUnder, hold, pay, expire>>

\* The conditional update of acceptOrder.  It waits for the row lock and then
\* re-reads the row, so an order no longer open is refused without a change.
ClaimOrder(v, o) ==
    /\ accept[v].pc = "idle"
    /\ order[o] = "open"
    /\ orderVendor[o] = None
    /\ ~OrderLocked(o)
    /\ order' = [order EXCEPT ![o] = "accepted"]
    /\ orderVendor' = [orderVendor EXCEPT ![o] = v]
    /\ accept' = [accept EXCEPT ![v] = [@ EXCEPT !.pc = "find", !.order = o]]
    /\ UNCHANGED <<session, payment, paidUnder, hold, pay, expire>>

\* The request answers, and its transaction (with its locks) is over.
AcceptEnds(v) ==
    accept' = [accept EXCEPT ![v] = [pc |-> "idle", order |-> None,
                                     session |-> None, payment |-> None]]

\* captureCheckoutSession: a session of the quote, whatever its status, and a
\* payment of that session FOR UPDATE, which must be authorized.
FindCapture(v) ==
    /\ accept[v].pc = "find"
    /\ \/ \E s \in Sessions : \E p \in PaymentsOf(s) :
            /\ ~PaymentLocked(p)
            /\ \/ /\ payment[p] = "authorized"
                  /\ accept' = [accept EXCEPT ![v] =
                        [@ EXCEPT !.pc = "capture", !.session = s, !.payment = p]]
               \/ /\ payment[p] # "authorized"     \* OrderNotCapturableError
                  /\ AcceptEnds(v)
       \/ /\ \E s \in Sessions : PaymentsOf(s) = {}     \* firstOrFail
          /\ AcceptEnds(v)
    /\ UNCHANGED <<rows, hold, pay, expire>>

\* getPaymentGateway(provider).capture
Capture(v) ==
    LET p == accept[v].payment IN
    /\ accept[v].pc = "capture"
    /\ \/ /\ hold[p] = "authorized"
          /\ hold' = [hold EXCEPT ![p] = "captured"]
          /\ accept' = [accept EXCEPT ![v].pc = "commit"]
       \/ /\ hold[p] # "authorized"
          /\ AcceptEnds(v)
          /\ UNCHANGED hold
    /\ UNCHANGED <<rows, pay, expire>>

\* Slip: the session's status is written to the payment.
CommitCompleted(v) ==
    /\ accept[v].pc = "commit"
    /\ payment' = [payment EXCEPT ![accept[v].payment] = "completed"]
    /\ session' = [session EXCEPT ![accept[v].session] = "completed"]
    /\ AcceptEnds(v)
    /\ UNCHANGED <<paidUnder, order, orderVendor, hold, pay, expire>>

CommitCapture(v) ==
    /\ accept[v].pc = "commit"
    /\ payment' = [payment EXCEPT ![accept[v].payment] = "captured"]
    /\ session' = [session EXCEPT ![accept[v].session] = "completed"]
    /\ AcceptEnds(v)
    /\ UNCHANGED <<paidUnder, order, orderVendor, hold, pay, expire>>

\* The acceptance dies after the claim: a crash, the capture throwing before or
\* after it captured, or the tax transaction failing to finalize.
AcceptCrash(v) ==
    /\ accept[v].pc # "idle"
    /\ "crash" \in Mishaps \/ ("gateway" \in Mishaps /\ accept[v].pc = "capture")
    /\ AcceptEnds(v)
    /\ UNCHANGED <<rows, hold, pay, expire>>

-----------------------------------------------------------------------------
(***************************************************************************)
(* A run of ExpireCheckoutSessions, one session at a time.                 *)
(***************************************************************************)

\* A session is due five days after it was opened: never while the request
\* that opened it is still running.
Due(s) == session[s] = "active" /\ ~Running(s)

PickExpired(j, s) ==
    /\ expire[j].pc = "idle"
    /\ Due(s)
    /\ expire' = [expire EXCEPT ![j] = [@ EXCEPT !.pc = "lock", !.session = s]]
    /\ UNCHANGED <<rows, hold, pay, accept>>

ExpireEnds(j) ==
    expire' = [expire EXCEPT ![j] = [pc |-> "idle", session |-> None,
                                     order |-> None, payment |-> None]]

\* Slip: the order's status is not looked at again under the lock.
NeverMoved(o) == FALSE

MovedOn(o) == o # None /\ order[o] # "open"

\* Slip: only a payment awaiting 3D Secure is released.
PendingPayments(s) == {p \in PaymentsOf(s) : payment[p] = "pending"}

LivePayments(s) == {p \in PaymentsOf(s) : payment[p] \in {"authorized", "pending"}}

\* Locks an order of the quote if there is one, and gives up if it has moved on;
\* otherwise reads the session's live payment.
LockOrder(j) ==
    /\ expire[j].pc = "lock"
    /\ \E o \in IF Orders = {} THEN {None} ELSE Orders :
        /\ o # None => ~OrderLocked(o)
        /\ \/ /\ MovedOn(o)
              /\ ExpireEnds(j)
           \/ /\ ~MovedOn(o)
              /\ LET live == LivePayments(expire[j].session) IN
                 \E p \in IF live = {} THEN {None} ELSE live :
                    expire' = [expire EXCEPT ![j] = [@ EXCEPT
                        !.pc = IF p = None THEN "commit" ELSE "cancel",
                        !.order = o, !.payment = p]]
    /\ UNCHANGED <<rows, hold, pay, accept>>

\* Slip: a refused cancellation is swallowed and the release goes on.
CancelSwallowed(j) ==
    LET p == expire[j].payment IN
    /\ expire[j].pc = "cancel"
    /\ expire' = [expire EXCEPT ![j].pc = "commit"]
    /\ hold' = IF hold[p] \in {"authorized", "requires_action"}
               THEN [hold EXCEPT ![p] = "cancelled"] ELSE hold
    /\ UNCHANGED <<rows, pay, accept>>

\* getPaymentGateway(provider).cancel: a transaction already captured or
\* cancelled cannot be cancelled and the whole transaction rolls back (one whose
\* 3D Secure failed can be at Stripe, and cannot at the in-memory gateway).
CancelHold(j) ==
    LET p == expire[j].payment IN
    /\ expire[j].pc = "cancel"
    /\ \/ /\ hold[p] \in {"authorized", "requires_action", "failed"}
          /\ hold' = [hold EXCEPT ![p] = "cancelled"]
          /\ expire' = [expire EXCEPT ![j].pc = "commit"]
       \/ /\ hold[p] \notin {"authorized", "requires_action"} \/ "cancel" \in Mishaps
          /\ ExpireEnds(j)
          /\ UNCHANGED hold
    /\ UNCHANGED <<rows, pay, accept>>

\* Slip: the order is left as it is.
CommitSessionOnly(j) ==
    LET e == expire[j] IN
    /\ e.pc = "commit"
    /\ e.payment # None => ~PaymentLocked(e.payment)
    /\ payment' = IF e.payment = None THEN payment
                  ELSE [payment EXCEPT ![e.payment] = "cancelled"]
    /\ session' = [session EXCEPT ![e.session] = "expired"]
    /\ ExpireEnds(j)
    /\ UNCHANGED <<paidUnder, order, orderVendor, hold, pay, accept>>

CommitExpiry(j) ==
    LET e == expire[j] IN
    /\ e.pc = "commit"
    /\ e.payment # None => ~PaymentLocked(e.payment)
    /\ payment' = IF e.payment = None THEN payment
                  ELSE [payment EXCEPT ![e.payment] = "cancelled"]
    /\ order' = IF e.order = None THEN order
                ELSE [order EXCEPT ![e.order] = "cancelled"]
    /\ session' = [session EXCEPT ![e.session] = "expired"]
    /\ ExpireEnds(j)
    /\ UNCHANGED <<paidUnder, orderVendor, hold, pay, accept>>

ExpireCrash(j) ==
    /\ "crash" \in Mishaps
    /\ expire[j].pc # "idle"
    /\ ExpireEnds(j)
    /\ UNCHANGED <<rows, hold, pay, accept>>

-----------------------------------------------------------------------------
PayRuns(r) ==
    \/ LookUpOrder(r) \/ FindSession(r) \/ InsertSession(r) \/ FindPayment(r)
    \/ Authorize(r) \/ RecordPending(r) \/ Retrieve(r) \/ Finalize(r)
    \/ FailSession(r) \/ FailPayment(r)

AcceptRuns(v) ==
    \/ \E o \in Pays : ClaimOrder(v, o)
    \/ FindCapture(v) \/ Capture(v) \/ CommitCapture(v)

ExpireRuns(j) ==
    \/ \E s \in Pays : PickExpired(j, s)
    \/ LockOrder(j) \/ CancelHold(j) \/ CommitExpiry(j)

Customer == \E h \in Pays, outcome \in {"authorized", "failed"} : CompleteAction(h, outcome)

Runs ==
    \/ \E r \in Pays : PayRuns(r)
    \/ Customer
    \/ \E v \in Vendors : AcceptRuns(v)
    \/ \E j \in Jobs : ExpireRuns(j)

Dies ==
    \/ \E r \in Pays : PayCrash(r)
    \/ \E v \in Vendors : AcceptCrash(v)
    \/ \E j \in Jobs : ExpireCrash(j)

\* Two pay requests are running, or a transaction waits for 3D Secure.
Disorder == Cardinality(InFlight) > 1 \/ \E h \in Pays : hold[h] = "requires_action"

Next ==
    \/ Runs /\ disturbed' = (disturbed \/ Disorder')
    \/ Dies /\ disturbed' = TRUE

Spec == Init /\ [][Next]_vars

(***************************************************************************)
(* Fairness.  A request that started runs to its end (the server does not  *)
(* stop for good); whether a vendor accepts, or the customer finishes 3D   *)
(* Secure, is up to them.  The job runs every hour and visits every due    *)
(* session, and the provider answers one of its repeated cancel calls.     *)
(***************************************************************************)
PayServed(r) == PayRuns(r) /\ Running(r)
AcceptServed(v) == FindCapture(v) \/ Capture(v) \/ CommitCapture(v)
CancelAnswered(j) == CancelHold(j) /\ expire'[j].pc = "commit"
ExpireServed(j) == LockOrder(j) \/ CancelHold(j) \/ CommitExpiry(j)

Fairness ==
    /\ \A r \in Pays : WF_codeVars(PayServed(r))
    /\ \A v \in Vendors : WF_codeVars(AcceptServed(v))
    /\ \A j \in Jobs :
        /\ WF_codeVars(ExpireServed(j))
        /\ SF_codeVars(CancelAnswered(j))
        /\ \A s \in Pays : SF_codeVars(PickExpired(j, s))

FairSpec == Spec /\ Fairness

-----------------------------------------------------------------------------
(***************************************************************************)
(* Properties.                                                             *)
(***************************************************************************)

\* The rows, the provider's transactions and what each process holds in memory
\* are of the kinds the schema and the code give them.
TypeOK ==
    /\ session \in [Pays -> SessionStatus]
    /\ payment \in [Pays -> PaymentStatus]
    /\ paidUnder \in [Pays -> MaybePay]
    /\ hold \in [Pays -> HoldStatus]
    /\ order \in [Pays -> OrderStatus]
    /\ orderVendor \in [Pays -> Vendors \cup {None}]
    /\ pay \in [Pays -> PayMemory]
    /\ accept \in [Vendors -> AcceptMemory]
    /\ expire \in [Jobs -> ExpireMemory]

\* Once a vendor's conditional update has claimed an order, no second vendor
\* and no expiry run ever takes it away (order_acceptance_service.ts:61-72).
AcceptedIsFinal ==
    [][\A o \in Pays : order[o] = "accepted" =>
          order'[o] = "accepted" /\ orderVendor'[o] = orderVendor[o]]_vars

\* The charge of an accepted order is owed while its acceptance still has a
\* capture to attempt.
Owing == {v \in Vendors : accept[v].pc \in {"find", "capture"}}
Owed == {accept[v].order : v \in Owing}
Charged == {h \in Pays : hold[h] = "captured"}
Taken == {o \in Pays : order[o] = "accepted"}

\* Checkout implements the sale it promises (module Sale).
Promise == INSTANCE Sale WITH
    Offers <- Pays, Takers <- Vendors, NoTaker <- None,
    offer <- order, taker <- orderVendor, owed <- Owed, charged <- Charged
KeepsPromise == Promise!SaleSpec

\* The customer's card is never charged more often than vendors accepted an
\* order (an acceptance under way has one charge left to make), however the pay
\* calls, acceptances and expiry runs interleave (checkout_service.ts:306-322).
ChargesBacked ==
    Cardinality(Charged) + Cardinality(Owed) <= Cardinality(Taken)

\* A payment row says captured or cancelled only of a transaction the provider
\* did capture or cancel: the rows are written after the provider's answer.
LedgerHonest ==
    \A p \in Pays :
        /\ payment[p] = "captured" => hold[p] = "captured"
        /\ payment[p] = "cancelled" => hold[p] = "cancelled"

\* A quote is never authorized twice (checkout_service.ts:55-58,
\* checkout_sessions_controller.ts:33-35): one live hold, one order.  Nothing
\* keeps it so once two pay requests overlapped, a request died with what it had
\* not recorded, or a 3D Secure answer was still to come.
AuthorizedOnce ==
    ~disturbed =>
        /\ Cardinality({h \in Pays : hold[h] \in {"authorized", "captured"}}) <= 1
        /\ Cardinality(Orders) <= 1

\* Every order a vendor can claim has its money behind it: an authorized
\* payment of an active session, held at the provider, unless the checkout was
\* disturbed before.
OpenOrderFunded ==
    ~disturbed =>
    \A o \in Pays : order[o] = "open" /\ ~OrderLocked(o) =>
        \E p \in Pays : /\ payment[p] = "authorized"
                        /\ hold[p] = "authorized"
                        /\ session[paidUnder[p]] = "active"

\* An acceptance that has ended captured the money it was accepted for
\* (order_acceptance_service.ts:129-134, docs/DATABASE_FLOW.md:411-415).
AcceptedIsPaid ==
    \A o \in Pays : order[o] = "accepted" =>
        \/ \E v \in Vendors : accept[v].order = o
        \/ \E p \in Pays : payment[p] = "captured"

\* No order waits for ever: a vendor claims it or the job withdraws it.
OpenOrderResolves ==
    \A o \in Pays : (order[o] = "open") ~> (order[o] \in {"accepted", "cancelled"})

\* The customer's first attempt was not declined.  After a declined one capture
\* may read the failed session instead of the one that was paid.
FirstAttempt == \A s \in Pays : session[s] # "failed"

\* On a first attempt that nothing disturbed, an acceptance that has ended was
\* paid.
PaidAtFirst == FirstAttempt /\ ~disturbed => AcceptedIsPaid

\* On a first attempt, no hold is kept for ever: it is captured or given back.
HoldResolves ==
    \A h \in Pays :
        (hold[h] = "authorized") ~> (hold[h] \in {"captured", "cancelled"} \/ ~FirstAttempt)
=============================================================================
