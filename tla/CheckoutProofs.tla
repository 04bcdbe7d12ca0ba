--------------------------- MODULE CheckoutProofs ---------------------------
(***************************************************************************)
(* Proofs about Checkout, for any number of pay requests, vendors and job  *)
(* runs: first whatever overlaps and goes wrong, with the refinement of    *)
(* the sale, then what holds until something disturbs the checkout.        *)
(***************************************************************************)
EXTENDS Checkout, FiniteSetTheorems, TLAPS

(***************************************************************************)
(* The steps, by who takes them, deaths included.                          *)
(***************************************************************************)

PayNext(r) == PayRuns(r) \/ PayCrash(r)
AcceptNext(v) == AcceptRuns(v) \/ AcceptCrash(v)
ExpireNext(j) == ExpireRuns(j) \/ ExpireCrash(j)

LEMMA NextMoves ==
  ASSUME Next
  PROVE  \/ \E r \in Pays : PayNext(r)
         \/ Customer
         \/ \E v \in Vendors : AcceptNext(v)
         \/ \E j \in Jobs : ExpireNext(j)
  BY DEF Next, Runs, Dies, PayNext, AcceptNext, ExpireNext

-----------------------------------------------------------------------------
(***************************************************************************)
(* The inductive invariant.                                                *)
(***************************************************************************)

\* The steps of a pay request before the provider has answered.
Early == {"idle", "session", "insert", "payment", "authorize"}

\* A request's own hold does not exist before it has called the provider ...
HoldFresh == \A r \in Pays : pay[r].pc \in Early => hold[r] = "none"

\* ... nor its order before it is done.
OrderFresh == \A r \in Pays : pay[r].pc # "done" => order[r] = "none"

\* An acceptance in progress is for an order its vendor owns, and captures a
\* payment it has found; once it has captured it, the hold is captured.
AcceptOwns ==
    \A v \in Vendors :
        /\ accept[v].pc # "idle" =>
              /\ accept[v].order \in Pays
              /\ order[accept[v].order] = "accepted"
              /\ orderVendor[accept[v].order] = v
        /\ accept[v].pc \in {"capture", "commit"} => accept[v].payment \in Pays
        /\ accept[v].pc = "commit" => hold[accept[v].payment] = "captured"

\* An expiry run keeps the order it locked open, and cancels a payment it has
\* read; once it has, the hold is cancelled.
ExpireLocks ==
    \A j \in Jobs :
        /\ expire[j].order # None => order[expire[j].order] = "open"
        /\ expire[j].pc = "cancel" => expire[j].payment \in Pays
        /\ expire[j].pc = "commit" /\ expire[j].payment # None
              => hold[expire[j].payment] = "cancelled"

\* No two runs lock the same order.
LocksExclusive ==
    \A j, k \in Jobs :
        expire[j].order = expire[k].order /\ expire[j].order # None => j = k

IInv ==
    /\ TypeOK
    /\ HoldFresh
    /\ OrderFresh
    /\ AcceptOwns
    /\ ExpireLocks
    /\ LocksExclusive
    /\ LedgerHonest

-----------------------------------------------------------------------------
(***************************************************************************)
(* Type correctness.                                                       *)
(***************************************************************************)

\* What the program starts with is well typed.
LEMMA InitTyped == Init => TypeOK
  BY CheckoutAssumption
  DEF Init, TypeOK, SessionStatus, PaymentStatus, HoldStatus, OrderStatus,
      PayMemory, AcceptMemory, ExpireMemory, PaySteps, AcceptSteps, ExpireSteps,
      MaybePay

\* What a pay request does keeps its memory well typed ...
LEMMA PayMemoryTyped ==
  ASSUME TypeOK, NEW r \in Pays, PayNext(r)
  PROVE  pay' \in [Pays -> PayMemory]
  <1>. USE DEF TypeOK, PayMemory, PaySteps, MaybePay, PayStep
  <1>1. CASE LookUpOrder(r)
    BY <1>1 DEF LookUpOrder
  <1>2. CASE FindSession(r)
    <2>1. CASE PayStep(r, "insert")
      BY <2>1
    <2>2. ASSUME NEW s \in Pays,
                 pay' = [pay EXCEPT ![r] = [@ EXCEPT !.pc = "payment", !.session = s]]
          PROVE  pay' \in [Pays -> PayMemory]
      BY <2>2
    <2>. QED
      BY <1>2, <2>1, <2>2 DEF FindSession
  <1>3. CASE InsertSession(r)
    BY <1>3 DEF InsertSession
  <1>4. CASE FindPayment(r)
    <2>1. CASE \E pc \in {"authorize", "done"} : PayStep(r, pc)
      BY <2>1
    <2>2. ASSUME NEW p \in Pays,
                 pay' = [pay EXCEPT ![r] = [@ EXCEPT !.pc = "retrieve", !.payment = p]]
          PROVE  pay' \in [Pays -> PayMemory]
      BY <2>2
    <2>. QED
      BY <1>4, <2>1, <2>2 DEF FindPayment, PaymentsOf
  <1>5. CASE Authorize(r)
    BY <1>5 DEF Authorize
  <1>6. CASE RecordPending(r)
    BY <1>6 DEF RecordPending
  <1>7. CASE Retrieve(r)
    BY <1>7 DEF Retrieve
  <1>8. CASE Finalize(r)
    BY <1>8 DEF Finalize
  <1>9. CASE FailSession(r)
    BY <1>9 DEF FailSession
  <1>10. CASE FailPayment(r)
    BY <1>10 DEF FailPayment
  <1>11. CASE PayCrash(r)
    BY <1>11 DEF PayCrash
  <1>. QED
    BY <1>1, <1>2, <1>3, <1>4, <1>5, <1>6, <1>7, <1>8, <1>9, <1>10, <1>11
    DEF PayNext, PayRuns

\* ... and the rows and the provider's transactions too.
LEMMA PayTyped ==
  ASSUME TypeOK, NEW r \in Pays, PayNext(r)
  PROVE  TypeOK'
  <1>1. pay' \in [Pays -> PayMemory]
    BY PayMemoryTyped
  <1>2. pay[r].session \in MaybePay /\ pay[r].payment \in MaybePay
    BY DEF TypeOK, PayMemory
  <1>. USE <1>1, <1>2
       DEF TypeOK, SessionStatus, PaymentStatus, HoldStatus, OrderStatus, rows
  <1>3. CASE LookUpOrder(r) \/ FindSession(r) \/ FindPayment(r) \/ Retrieve(r) \/ PayCrash(r)
    BY <1>3 DEF LookUpOrder, FindSession, FindPayment, Retrieve, PayCrash
  <1>4. CASE InsertSession(r)
    BY <1>4 DEF InsertSession
  <1>5. CASE Authorize(r)
    BY <1>5 DEF Authorize
  <1>6. CASE RecordPending(r)
    BY <1>6 DEF RecordPending
  <1>7. CASE Finalize(r)
    BY <1>7 DEF Finalize
  <1>8. CASE FailSession(r)
    BY <1>8 DEF FailSession
  <1>9. CASE FailPayment(r)
    BY <1>9 DEF FailPayment
  <1>. QED
    BY <1>3, <1>4, <1>5, <1>6, <1>7, <1>8, <1>9 DEF PayNext, PayRuns

\* What a vendor's acceptance does keeps the state well typed.
LEMMA AcceptTyped ==
  ASSUME TypeOK, NEW v \in Vendors, AcceptNext(v)
  PROVE  TypeOK'
  <1>1. accept' \in [Vendors -> AcceptMemory]
    <2>. USE DEF TypeOK, AcceptMemory, AcceptSteps, MaybePay, AcceptEnds
    <2>1. CASE \E o \in Pays : ClaimOrder(v, o)
      <3>1. PICK o \in Pays : ClaimOrder(v, o)
        BY <2>1
      <3>2. [accept[v] EXCEPT !.pc = "find", !.order = o] \in AcceptMemory
        OBVIOUS
      <3>. QED
        BY <3>1, <3>2 DEF ClaimOrder
    <2>2. CASE FindCapture(v)
      <3>1. CASE AcceptEnds(v)
        BY <3>1
      <3>2. ASSUME NEW s \in Pays, NEW p \in Pays,
                   accept' = [accept EXCEPT ![v] =
                     [@ EXCEPT !.pc = "capture", !.session = s, !.payment = p]]
            PROVE  accept' \in [Vendors -> AcceptMemory]
        BY <3>2
      <3>. QED
        BY <2>2, <3>1, <3>2 DEF FindCapture, PaymentsOf, Sessions
    <2>3. CASE Capture(v)
      BY <2>3 DEF Capture
    <2>4. CASE CommitCapture(v)
      BY <2>4 DEF CommitCapture
    <2>5. CASE AcceptCrash(v)
      BY <2>5 DEF AcceptCrash
    <2>. QED
      BY <2>1, <2>2, <2>3, <2>4, <2>5 DEF AcceptNext, AcceptRuns
  <1>. USE <1>1 DEF TypeOK, SessionStatus, PaymentStatus, HoldStatus, OrderStatus, rows
  <1>2. CASE \E o \in Pays : ClaimOrder(v, o)
    BY <1>2 DEF ClaimOrder
  <1>3. CASE FindCapture(v) \/ AcceptCrash(v)
    BY <1>3 DEF FindCapture, AcceptCrash
  <1>4. CASE Capture(v)
    BY <1>4 DEF Capture
  <1>5. CASE CommitCapture(v)
    BY <1>5 DEF CommitCapture
  <1>. QED
    BY <1>2, <1>3, <1>4, <1>5 DEF AcceptNext, AcceptRuns

\* What a run of the hourly job does keeps the state well typed.
LEMMA ExpireTyped ==
  ASSUME TypeOK, NEW j \in Jobs, ExpireNext(j)
  PROVE  TypeOK'
  <1>1. expire' \in [Jobs -> ExpireMemory]
    <2>. USE DEF TypeOK, ExpireMemory, ExpireSteps, MaybePay, ExpireEnds
    <2>1. CASE \E s \in Pays : PickExpired(j, s)
      <3>1. PICK s \in Pays : PickExpired(j, s)
        BY <2>1
      <3>2. [expire[j] EXCEPT !.pc = "lock", !.session = s] \in ExpireMemory
        OBVIOUS
      <3>. QED
        BY <3>1, <3>2 DEF PickExpired
    <2>2. CASE LockOrder(j)
      <3>1. CASE ExpireEnds(j)
        BY <3>1
      <3>2. ASSUME NEW o \in MaybePay, NEW p \in MaybePay,
                   expire' = [expire EXCEPT ![j] = [@ EXCEPT
                     !.pc = IF p = None THEN "commit" ELSE "cancel",
                     !.order = o, !.payment = p]]
            PROVE  expire' \in [Jobs -> ExpireMemory]
        <4>1. (IF p = None THEN "commit" ELSE "cancel") \in ExpireSteps
          OBVIOUS
        <4>2. [expire[j] EXCEPT !.pc = IF p = None THEN "commit" ELSE "cancel",
                                !.order = o, !.payment = p] \in ExpireMemory
          BY <4>1
        <4>. QED
          BY <3>2, <4>2
      <3>. QED
        BY <2>2, <3>1, <3>2 DEF LockOrder, LivePayments, PaymentsOf, Orders
    <2>3. CASE CancelHold(j)
      BY <2>3 DEF CancelHold
    <2>4. CASE CommitExpiry(j)
      BY <2>4 DEF CommitExpiry
    <2>5. CASE ExpireCrash(j)
      BY <2>5 DEF ExpireCrash
    <2>. QED
      BY <2>1, <2>2, <2>3, <2>4, <2>5 DEF ExpireNext, ExpireRuns
  <1>. USE <1>1 DEF TypeOK, SessionStatus, PaymentStatus, HoldStatus, OrderStatus, rows
  <1>2. CASE (\E s \in Pays : PickExpired(j, s)) \/ LockOrder(j) \/ ExpireCrash(j)
    BY <1>2 DEF PickExpired, LockOrder, ExpireCrash
  <1>3. CASE CancelHold(j)
    BY <1>3 DEF CancelHold
  <1>4. CASE CommitExpiry(j)
    BY <1>4 DEF CommitExpiry
  <1>. QED
    BY <1>2, <1>3, <1>4 DEF ExpireNext, ExpireRuns

\* The rows, the provider's transactions and every request's memory stay of
\* their kinds, whatever the number of requests, vendors and job runs.
THEOREM TypeCorrect == Spec => []TypeOK
  <1>1. Init => TypeOK
    BY InitTyped
  <1>2. TypeOK /\ [Next]_vars => TypeOK'
    <2>. SUFFICES ASSUME TypeOK, [Next]_vars PROVE TypeOK'
      OBVIOUS
    <2>1. CASE \E r \in Pays : PayNext(r)
      BY <2>1, PayTyped
    <2>2. CASE Customer
      BY <2>2 DEF Customer, CompleteAction, TypeOK, HoldStatus, rows
    <2>3. CASE \E v \in Vendors : AcceptNext(v)
      BY <2>3, AcceptTyped
    <2>4. CASE \E j \in Jobs : ExpireNext(j)
      BY <2>4, ExpireTyped
    <2>5. CASE UNCHANGED vars
      BY <2>5 DEF vars, codeVars, TypeOK
    <2>. QED
      BY <2>1, <2>2, <2>3, <2>4, <2>5, NextMoves
  <1>. QED
    BY <1>1, <1>2, PTL DEF Spec

-----------------------------------------------------------------------------
(***************************************************************************)
(* The invariant is preserved by every step.                               *)
(***************************************************************************)

\* A pay request touches no other request's memory and never goes back.
LEMMA PayMoves ==
  ASSUME TypeOK, NEW r \in Pays, PayNext(r)
  PROVE  /\ \A q \in Pays : q # r => pay'[q] = pay[q]
         /\ pay[r].pc # "done"
         /\ pay'[r].pc \in Early => pay[r].pc \in Early \ {"authorize"}
         /\ pay'[r].pc # "done" => pay[r].pc # "finalize"
  <1>. USE DEF TypeOK, PayMemory, PayStep, Early
  <1>1. CASE LookUpOrder(r)
    BY <1>1 DEF LookUpOrder
  <1>2. CASE FindSession(r)
    BY <1>2 DEF FindSession
  <1>3. CASE InsertSession(r)
    BY <1>3 DEF InsertSession
  <1>4. CASE FindPayment(r)
    BY <1>4 DEF FindPayment
  <1>5. CASE Authorize(r)
    BY <1>5 DEF Authorize
  <1>6. CASE RecordPending(r)
    BY <1>6 DEF RecordPending
  <1>7. CASE Retrieve(r)
    BY <1>7 DEF Retrieve
  <1>8. CASE Finalize(r)
    BY <1>8 DEF Finalize
  <1>9. CASE FailSession(r)
    BY <1>9 DEF FailSession
  <1>10. CASE FailPayment(r)
    BY <1>10 DEF FailPayment
  <1>11. CASE PayCrash(r)
    BY <1>11 DEF PayCrash, Running
  <1>. QED
    BY <1>1, <1>2, <1>3, <1>4, <1>5, <1>6, <1>7, <1>8, <1>9, <1>10, <1>11
    DEF PayNext, PayRuns

\* It places its own hold, opens its own order, and leaves the other ones and
\* every settled payment alone.
LEMMA PayWrites ==
  ASSUME TypeOK, HoldFresh, OrderFresh, NEW r \in Pays, PayNext(r)
  PROVE  /\ UNCHANGED <<orderVendor, accept, expire>>
         /\ \/ UNCHANGED hold
            \/ /\ pay[r].pc = "authorize"
               /\ hold[r] = "none"
               /\ hold' \in {[hold EXCEPT ![r] = "authorized"],
                             [hold EXCEPT ![r] = "requires_action"]}
         /\ \/ UNCHANGED order
            \/ /\ pay[r].pc = "finalize"
               /\ order[r] = "none"
               /\ order' = [order EXCEPT ![r] = "open"]
         /\ \A p \in Pays : \/ payment'[p] = payment[p]
                            \/ payment'[p] \in {"pending", "authorized", "failed"}
  <1>. USE DEF TypeOK, rows, HoldFresh, OrderFresh
  <1>1. CASE LookUpOrder(r) \/ FindSession(r) \/ FindPayment(r) \/ Retrieve(r) \/ PayCrash(r)
    BY <1>1 DEF LookUpOrder, FindSession, FindPayment, Retrieve, PayCrash
  <1>2. CASE InsertSession(r)
    BY <1>2 DEF InsertSession
  <1>3. CASE Authorize(r)
    BY <1>3 DEF Authorize, Early
  <1>4. CASE RecordPending(r)
    BY <1>4 DEF RecordPending
  <1>5. CASE Finalize(r)
    BY <1>5 DEF Finalize
  <1>6. CASE FailSession(r)
    BY <1>6 DEF FailSession
  <1>7. CASE FailPayment(r)
    BY <1>7 DEF FailPayment
  <1>. QED
    BY <1>1, <1>2, <1>3, <1>4, <1>5, <1>6, <1>7 DEF PayNext, PayRuns

\* A pay request's step preserves the invariant.
LEMMA PaySafe ==
  ASSUME IInv, NEW r \in Pays, PayNext(r)
  PROVE  IInv'
  <1>1. TypeOK /\ TypeOK'
    BY PayTyped DEF IInv
  <1>2. /\ \A q \in Pays : q # r => pay'[q] = pay[q]
        /\ pay[r].pc # "done"
        /\ pay'[r].pc \in Early => pay[r].pc \in Early \ {"authorize"}
        /\ pay'[r].pc # "done" => pay[r].pc # "finalize"
    BY <1>1, PayMoves
  <1>3. /\ UNCHANGED <<orderVendor, accept, expire>>
        /\ \/ UNCHANGED hold
           \/ /\ pay[r].pc = "authorize"
              /\ hold[r] = "none"
              /\ hold' \in {[hold EXCEPT ![r] = "authorized"],
                            [hold EXCEPT ![r] = "requires_action"]}
        /\ \/ UNCHANGED order
           \/ /\ pay[r].pc = "finalize"
              /\ order[r] = "none"
              /\ order' = [order EXCEPT ![r] = "open"]
        /\ \A p \in Pays : \/ payment'[p] = payment[p]
                           \/ payment'[p] \in {"pending", "authorized", "failed"}
    BY PayWrites DEF IInv
  <1>4. \A h \in Pays : hold[h] \notin {"none"} => hold'[h] = hold[h]
    BY <1>1, <1>3 DEF TypeOK
  <1>5. \A o \in Pays : order[o] # "none" => order'[o] = order[o]
    BY <1>1, <1>3 DEF TypeOK
  <1>6. HoldFresh'
    BY <1>1, <1>2, <1>3 DEF IInv, HoldFresh, Early, TypeOK
  <1>7. OrderFresh'
    BY <1>1, <1>2, <1>3 DEF IInv, OrderFresh, TypeOK
  <1>8. AcceptOwns'
    BY <1>3, <1>4, <1>5 DEF IInv, AcceptOwns
  <1>9. ExpireLocks'
    <2>1. \A j \in Jobs : expire[j].order \in MaybePay /\ expire[j].payment \in MaybePay
      BY <1>1 DEF TypeOK, ExpireMemory
    <2>. QED
      BY <2>1, <1>3, <1>4, <1>5 DEF IInv, ExpireLocks, MaybePay
  <1>10. LocksExclusive'
    BY <1>3 DEF IInv, LocksExclusive
  <1>11. LedgerHonest'
    BY <1>3, <1>4 DEF IInv, LedgerHonest
  <1>. QED
    BY <1>1, <1>6, <1>7, <1>8, <1>9, <1>10, <1>11 DEF IInv

\* The customer's answer to 3D Secure preserves the invariant.
LEMMA CustomerSafe ==
  ASSUME IInv, Customer
  PROVE  IInv'
  <1>1. TypeOK /\ TypeOK'
    BY DEF IInv, Customer, CompleteAction, TypeOK, HoldStatus, rows
  <1>2. /\ UNCHANGED <<order, orderVendor, payment, pay, accept, expire>>
        /\ \A h \in Pays : hold[h] # "requires_action" => hold'[h] = hold[h]
    BY <1>1 DEF Customer, CompleteAction, rows, TypeOK
  <1>3. HoldFresh' /\ OrderFresh'
    BY <1>2 DEF IInv, HoldFresh, OrderFresh
  <1>4. AcceptOwns'
    BY <1>2 DEF IInv, AcceptOwns
  <1>5. ExpireLocks'
    <2>1. \A j \in Jobs : expire[j].payment \in MaybePay
      BY <1>1 DEF TypeOK, ExpireMemory
    <2>. QED
      BY <2>1, <1>2 DEF IInv, ExpireLocks, MaybePay
  <1>6. LocksExclusive'
    BY <1>2 DEF IInv, LocksExclusive
  <1>7. LedgerHonest'
    BY <1>2 DEF IInv, LedgerHonest
  <1>. QED
    BY <1>1, <1>3, <1>4, <1>5, <1>6, <1>7 DEF IInv

\* Claiming an order does: it was open, and no expiry run had it locked.
LEMMA ClaimSafe ==
  ASSUME IInv, TypeOK', NEW v \in Vendors, NEW o \in Pays, ClaimOrder(v, o)
  PROVE  IInv'
  <1>1. /\ \A w \in Vendors : w # v => accept'[w] = accept[w]
        /\ accept'[v].pc = "find" /\ accept'[v].order = o
    BY DEF ClaimOrder, IInv, TypeOK, AcceptMemory
  <1>2. /\ \A q \in Pays : q # o => order'[q] = order[q] /\ orderVendor'[q] = orderVendor[q]
        /\ order[o] = "open" /\ order'[o] = "accepted" /\ orderVendor'[o] = v
        /\ ~OrderLocked(o)
    BY DEF ClaimOrder, IInv, TypeOK
  <1>3. UNCHANGED <<hold, payment, pay, expire>>
    BY DEF ClaimOrder
  <1>4. HoldFresh' /\ OrderFresh'
    BY <1>2, <1>3 DEF IInv, HoldFresh, OrderFresh
  <1>5. AcceptOwns'
    BY <1>1, <1>2, <1>3 DEF IInv, AcceptOwns
  <1>6. ExpireLocks'
    <2>1. \A j \in Jobs : expire[j].order # o /\ expire[j].order \in MaybePay
      BY <1>2 DEF OrderLocked, IInv, TypeOK, ExpireMemory
    <2>. QED
      BY <2>1, <1>2, <1>3 DEF IInv, ExpireLocks, MaybePay
  <1>7. LocksExclusive' /\ LedgerHonest'
    BY <1>3 DEF IInv, LocksExclusive, LedgerHonest
  <1>. QED
    BY <1>4, <1>5, <1>6, <1>7 DEF IInv

\* Finding the payment to capture does.
LEMMA FindCaptureSafe ==
  ASSUME IInv, TypeOK', NEW v \in Vendors, FindCapture(v)
  PROVE  IInv'
  <1>1. /\ \A w \in Vendors : w # v => accept'[w] = accept[w]
        /\ accept[v].pc = "find"
        /\ \/ accept'[v].pc = "idle"
           \/ /\ accept'[v].pc = "capture"
              /\ accept'[v].order = accept[v].order
              /\ accept'[v].payment \in Pays
    <2>1. CASE AcceptEnds(v)
      BY <2>1 DEF FindCapture, AcceptEnds, IInv, TypeOK, AcceptMemory
    <2>2. ASSUME NEW s \in Pays, NEW p \in Pays,
                 accept' = [accept EXCEPT ![v] =
                     [@ EXCEPT !.pc = "capture", !.session = s, !.payment = p]]
          PROVE  /\ \A w \in Vendors : w # v => accept'[w] = accept[w]
                 /\ accept'[v].pc = "capture"
                 /\ accept'[v].order = accept[v].order
                 /\ accept'[v].payment = p
      BY <2>2 DEF IInv, TypeOK, AcceptMemory
    <2>. QED
      BY <2>1, <2>2 DEF FindCapture, PaymentsOf, Sessions
  <1>2. UNCHANGED <<order, orderVendor, hold, payment, pay, expire>>
    BY DEF FindCapture, rows
  <1>. QED
    BY <1>1, <1>2 DEF IInv, HoldFresh, OrderFresh, AcceptOwns, ExpireLocks,
                      LocksExclusive, LedgerHonest

\* Capturing does: the hold was authorized, so no row called it settled.
LEMMA CaptureSafe ==
  ASSUME IInv, TypeOK', NEW v \in Vendors, Capture(v)
  PROVE  IInv'
  <1>1. accept[v].pc = "capture" /\ accept[v].payment \in Pays
    BY DEF Capture, IInv, AcceptOwns
  <1>2. /\ \A w \in Vendors : w # v => accept'[w] = accept[w]
        /\ \/ accept'[v].pc = "idle"
           \/ /\ accept'[v].pc = "commit"
              /\ accept'[v].order = accept[v].order
              /\ accept'[v].payment = accept[v].payment
              /\ hold'[accept[v].payment] = "captured"
    BY <1>1 DEF Capture, AcceptEnds, IInv, TypeOK, AcceptMemory
  <1>3. UNCHANGED <<order, orderVendor, payment, pay, expire>>
    BY DEF Capture, rows
  <1>4. \A h \in Pays : hold[h] # "authorized" => hold'[h] = hold[h]
    BY <1>1 DEF Capture, IInv, TypeOK
  <1>5. HoldFresh' /\ OrderFresh'
    BY <1>3, <1>4 DEF IInv, HoldFresh, OrderFresh
  <1>6. AcceptOwns'
    BY <1>1, <1>2, <1>3, <1>4 DEF IInv, AcceptOwns
  <1>7. ExpireLocks'
    <2>1. \A j \in Jobs : expire[j].payment \in MaybePay
      BY DEF IInv, TypeOK, ExpireMemory
    <2>. QED
      BY <2>1, <1>3, <1>4 DEF IInv, ExpireLocks, MaybePay
  <1>8. LocksExclusive' /\ LedgerHonest'
    BY <1>3, <1>4 DEF IInv, LocksExclusive, LedgerHonest
  <1>. QED
    BY <1>5, <1>6, <1>7, <1>8 DEF IInv

\* Recording the capture does: the provider has captured.
LEMMA CommitCaptureSafe ==
  ASSUME IInv, TypeOK', NEW v \in Vendors, CommitCapture(v)
  PROVE  IInv'
  <1>1. /\ \A w \in Vendors : w # v => accept'[w] = accept[w]
        /\ accept'[v].pc = "idle"
    BY DEF CommitCapture, AcceptEnds, IInv, TypeOK
  <1>2. UNCHANGED <<order, orderVendor, hold, pay, expire>>
    BY DEF CommitCapture
  <1>3. \A p \in Pays : payment'[p] # payment[p] =>
            payment'[p] = "captured" /\ hold[p] = "captured"
    BY DEF CommitCapture, IInv, TypeOK, AcceptOwns
  <1>4. LedgerHonest'
    BY <1>2, <1>3 DEF IInv, LedgerHonest
  <1>. QED
    BY <1>1, <1>2, <1>4 DEF IInv, HoldFresh, OrderFresh, AcceptOwns, ExpireLocks,
                            LocksExclusive

\* A vendor's step preserves the invariant.
LEMMA AcceptSafe ==
  ASSUME IInv, NEW v \in Vendors, AcceptNext(v)
  PROVE  IInv'
  <1>1. TypeOK'
    BY AcceptTyped DEF IInv
  <1>2. CASE \E o \in Pays : ClaimOrder(v, o)
    BY <1>1, <1>2, ClaimSafe
  <1>3. CASE FindCapture(v)
    BY <1>1, <1>3, FindCaptureSafe
  <1>4. CASE Capture(v)
    BY <1>1, <1>4, CaptureSafe
  <1>5. CASE CommitCapture(v)
    BY <1>1, <1>5, CommitCaptureSafe
  <1>6. CASE AcceptCrash(v)
    <2>1. /\ \A w \in Vendors : w # v => accept'[w] = accept[w]
          /\ accept'[v].pc = "idle"
      BY <1>6 DEF AcceptCrash, AcceptEnds, IInv, TypeOK
    <2>2. UNCHANGED <<order, orderVendor, hold, payment, pay, expire>>
      BY <1>6 DEF AcceptCrash, rows
    <2>. QED
      BY <1>1, <2>1, <2>2 DEF IInv, HoldFresh, OrderFresh, AcceptOwns, ExpireLocks,
                              LocksExclusive, LedgerHonest
  <1>. QED
    BY <1>2, <1>3, <1>4, <1>5, <1>6 DEF AcceptNext, AcceptRuns

\* A step of an expiry run that changes only its memory preserves the invariant,
\* if an order it newly holds is open and was not locked.
LEMMA ExpireQuiet ==
  ASSUME IInv, TypeOK', NEW j \in Jobs,
         UNCHANGED <<order, orderVendor, hold, payment, pay, accept>>,
         \A k \in Jobs : k # j => expire'[k] = expire[k],
         \/ expire'[j].order = None
         \/ /\ expire'[j].order \in Pays
            /\ ~OrderLocked(expire'[j].order)
            /\ order[expire'[j].order] = "open"
         \/ expire'[j].order = expire[j].order,
         expire'[j].pc = "cancel" => expire'[j].payment \in Pays,
         expire'[j].pc = "commit" => expire'[j].payment = None
  PROVE  IInv'
  <1>1. HoldFresh' /\ OrderFresh' /\ AcceptOwns' /\ LedgerHonest'
    BY DEF IInv, HoldFresh, OrderFresh, AcceptOwns, LedgerHonest
  <1>2. ExpireLocks'
    BY DEF IInv, ExpireLocks
  <1>3. LocksExclusive'
    BY DEF IInv, LocksExclusive, OrderLocked
  <1>. QED
    BY <1>1, <1>2, <1>3 DEF IInv

\* Locking the order does: it is open and nobody else has it locked.
LEMMA LockOrderSafe ==
  ASSUME IInv, TypeOK', NEW j \in Jobs, LockOrder(j)
  PROVE  IInv'
  <1>1. UNCHANGED <<order, orderVendor, hold, payment, pay, accept>>
    BY DEF LockOrder, rows
  <1>2. CASE ExpireEnds(j)
    <2>1. /\ \A k \in Jobs : k # j => expire'[k] = expire[k]
          /\ expire'[j].pc = "idle" /\ expire'[j].order = None
      BY <1>2 DEF ExpireEnds, IInv, TypeOK
    <2>. QED
      BY <1>1, <2>1, ExpireQuiet
  <1>3. ASSUME NEW o \in MaybePay, NEW p \in MaybePay,
               o # None => ~OrderLocked(o), ~MovedOn(o),
               expire' = [expire EXCEPT ![j] = [@ EXCEPT
                     !.pc = IF p = None THEN "commit" ELSE "cancel",
                     !.order = o, !.payment = p]]
        PROVE  IInv'
    <2>1. /\ \A k \in Jobs : k # j => expire'[k] = expire[k]
          /\ expire'[j].order = o
          /\ expire'[j].payment = p
          /\ expire'[j].pc = IF p = None THEN "commit" ELSE "cancel"
      BY <1>3 DEF IInv, TypeOK, ExpireMemory
    <2>2. o # None => order[o] = "open"
      BY <1>3 DEF MovedOn
    <2>. QED
      BY <1>1, <1>3, <2>1, <2>2, ExpireQuiet DEF MaybePay
  <1>. QED
    BY <1>2, <1>3 DEF LockOrder, LivePayments, PaymentsOf, Orders, MaybePay

\* Releasing the hold does: a captured or released one is refused.
LEMMA CancelHoldSafe ==
  ASSUME IInv, TypeOK', NEW j \in Jobs, CancelHold(j)
  PROVE  IInv'
  <1>1. expire[j].pc = "cancel" /\ expire[j].payment \in Pays
    BY DEF CancelHold, IInv, ExpireLocks
  <1>2. UNCHANGED <<order, orderVendor, payment, pay, accept>>
    BY DEF CancelHold, rows
  <1>3. /\ \A k \in Jobs : k # j => expire'[k] = expire[k]
        /\ expire'[j].order \in {None, expire[j].order}
        /\ \/ expire'[j].pc = "idle"
           \/ /\ expire'[j].pc = "commit"
              /\ expire'[j].payment = expire[j].payment
              /\ hold'[expire[j].payment] = "cancelled"
    BY <1>1 DEF CancelHold, ExpireEnds, IInv, TypeOK, ExpireMemory
  <1>4. \A h \in Pays : hold[h] \in {"none", "captured", "cancelled"} => hold'[h] = hold[h]
    BY <1>1 DEF CancelHold, IInv, TypeOK
  <1>5. HoldFresh' /\ OrderFresh' /\ AcceptOwns' /\ LedgerHonest'
    BY <1>2, <1>4 DEF IInv, HoldFresh, OrderFresh, AcceptOwns, LedgerHonest
  <1>6. ExpireLocks'
    <2>1. \A k \in Jobs : expire[k].payment \in MaybePay
      BY DEF IInv, TypeOK, ExpireMemory
    <2>. QED
      BY <1>1, <1>2, <1>3, <1>4, <2>1 DEF IInv, ExpireLocks, MaybePay
  <1>7. LocksExclusive'
    BY <1>3 DEF IInv, LocksExclusive
  <1>. QED
    BY <1>5, <1>6, <1>7 DEF IInv

\* Recording the expiry does: the order it withdraws is still open.
LEMMA CommitExpirySafe ==
  ASSUME IInv, TypeOK', NEW j \in Jobs, CommitExpiry(j)
  PROVE  IInv'
  <1>1. /\ expire[j].order \in MaybePay /\ expire[j].payment \in MaybePay
        /\ expire[j].order # None => order[expire[j].order] = "open"
        /\ expire[j].payment # None => hold[expire[j].payment] = "cancelled"
    BY DEF CommitExpiry, IInv, ExpireLocks, TypeOK, ExpireMemory
  <1>2. UNCHANGED <<orderVendor, hold, pay, accept>>
    BY DEF CommitExpiry
  <1>3. /\ \A k \in Jobs : k # j => expire'[k] = expire[k]
        /\ expire'[j].pc = "idle" /\ expire'[j].order = None
    BY DEF CommitExpiry, ExpireEnds, IInv, TypeOK
  <1>4. \A o \in Pays : order'[o] # order[o] => o = expire[j].order /\ order[o] = "open"
    BY <1>1 DEF CommitExpiry, IInv, TypeOK, MaybePay
  <1>5. \A p \in Pays : payment'[p] # payment[p] =>
            payment'[p] = "cancelled" /\ hold[p] = "cancelled"
    BY <1>1 DEF CommitExpiry, IInv, TypeOK, MaybePay
  <1>6. HoldFresh' /\ OrderFresh'
    BY <1>2, <1>4 DEF IInv, HoldFresh, OrderFresh
  <1>7. AcceptOwns'
    BY <1>2, <1>4 DEF IInv, AcceptOwns
  <1>8. ExpireLocks'
    <2>1. \A k \in Jobs : k # j /\ expire[k].order # None
              => expire[k].order # expire[j].order /\ expire[k].order \in Pays
      BY DEF IInv, LocksExclusive, TypeOK, ExpireMemory, MaybePay
    <2>. QED
      BY <1>2, <1>3, <1>4, <2>1 DEF IInv, ExpireLocks
  <1>9. LocksExclusive'
    BY <1>3 DEF IInv, LocksExclusive
  <1>10. LedgerHonest'
    BY <1>2, <1>5 DEF IInv, LedgerHonest
  <1>. QED
    BY <1>6, <1>7, <1>8, <1>9, <1>10 DEF IInv

\* A job's step preserves the invariant.
LEMMA ExpireSafe ==
  ASSUME IInv, NEW j \in Jobs, ExpireNext(j)
  PROVE  IInv'
  <1>1. TypeOK'
    BY ExpireTyped DEF IInv
  <1>2. CASE \E s \in Pays : PickExpired(j, s)
    <2>1. PICK s \in Pays : PickExpired(j, s)
      BY <1>2
    <2>2. /\ \A k \in Jobs : k # j => expire'[k] = expire[k]
          /\ expire'[j].pc = "lock" /\ expire'[j].order = expire[j].order
      BY <2>1 DEF PickExpired, IInv, TypeOK, ExpireMemory
    <2>3. UNCHANGED <<order, orderVendor, hold, payment, pay, accept>>
      BY <2>1 DEF PickExpired, rows
    <2>. QED
      BY <1>1, <2>2, <2>3, ExpireQuiet
  <1>3. CASE LockOrder(j)
    BY <1>1, <1>3, LockOrderSafe
  <1>4. CASE CancelHold(j)
    BY <1>1, <1>4, CancelHoldSafe
  <1>5. CASE CommitExpiry(j)
    BY <1>1, <1>5, CommitExpirySafe
  <1>6. CASE ExpireCrash(j)
    <2>1. /\ \A k \in Jobs : k # j => expire'[k] = expire[k]
          /\ expire'[j].pc = "idle" /\ expire'[j].order = None
      BY <1>6 DEF ExpireCrash, ExpireEnds, IInv, TypeOK
    <2>2. UNCHANGED <<order, orderVendor, hold, payment, pay, accept>>
      BY <1>6 DEF ExpireCrash, rows
    <2>. QED
      BY <1>1, <2>1, <2>2, ExpireQuiet
  <1>. QED
    BY <1>2, <1>3, <1>4, <1>5, <1>6 DEF ExpireNext, ExpireRuns

\* The invariant holds in every reachable state, for any number of pay requests,
\* vendors and job runs and whatever mishaps.
THEOREM Invariance == Spec => []IInv
  <1>1. Init => IInv
    <2>. SUFFICES ASSUME Init PROVE IInv
      OBVIOUS
    <2>1. TypeOK
      BY InitTyped
    <2>2. HoldFresh /\ OrderFresh /\ AcceptOwns /\ LedgerHonest
      BY DEF Init, HoldFresh, OrderFresh, AcceptOwns, LedgerHonest
    <2>3. ExpireLocks /\ LocksExclusive
      BY DEF Init, ExpireLocks, LocksExclusive
    <2>. QED
      BY <2>1, <2>2, <2>3 DEF IInv
  <1>2. IInv /\ [Next]_vars => IInv'
    <2>. SUFFICES ASSUME IInv, [Next]_vars PROVE IInv'
      OBVIOUS
    <2>1. CASE \E r \in Pays : PayNext(r)
      BY <2>1, PaySafe
    <2>2. CASE Customer
      BY <2>2, CustomerSafe
    <2>3. CASE \E v \in Vendors : AcceptNext(v)
      BY <2>3, AcceptSafe
    <2>4. CASE \E j \in Jobs : ExpireNext(j)
      BY <2>4, ExpireSafe
    <2>5. CASE UNCHANGED vars
      BY <2>5 DEF vars, codeVars, IInv, TypeOK, HoldFresh, OrderFresh, AcceptOwns, ExpireLocks,
                  LocksExclusive, LedgerHonest
    <2>. QED
      BY <2>1, <2>2, <2>3, <2>4, <2>5, NextMoves
  <1>. QED
    BY <1>1, <1>2, PTL DEF Spec

\* The payment rows never claim a capture or a release the provider did not make
\* (captureCheckoutSession and expireCheckoutSession write after the answer).
THEOREM LedgerIsHonest == Spec => []LedgerHonest
  <1>1. IInv => LedgerHonest
    BY DEF IInv
  <1>. QED
    BY <1>1, Invariance, PTL

-----------------------------------------------------------------------------
(***************************************************************************)
(* Checkout implements the sale of module Sale, and what follows from it.  *)
(***************************************************************************)

\* The first state of checkout is the first state of the sale.
LEMMA InitMaps == Init => Promise!SaleInit
  <1>. SUFFICES ASSUME Init PROVE Promise!SaleInit
    OBVIOUS
  <1>1. Owed = {}
    BY DEF Init, Owed, Owing
  <1>2. Charged = {}
    BY DEF Init, Charged
  <1>. QED
    BY <1>1, <1>2 DEF Init, Promise!SaleInit

\* An acceptance that has still (or still not) a capture to make owes the same.
LEMMA OwesStill ==
  ASSUME NEW v \in Vendors,
         \A w \in Vendors : w # v => accept'[w] = accept[w],
         v \in Owing <=> (v \in Owing)',
         v \in Owing => accept'[v].order = accept[v].order
  PROVE  Owed' = Owed
  <1>1. Owing' = Owing
    BY DEF Owing
  <1>2. \A w \in Owing : accept'[w].order = accept[w].order
    BY DEF Owing
  <1>. QED
    BY <1>1, <1>2 DEF Owed

\* One that gives up, or has captured, no longer owes its order, and nobody else
\* owed that order: its vendor owns it.
LEMMA OwesNoMore ==
  ASSUME IInv, NEW v \in Owing,
         \A w \in Vendors : w # v => accept'[w] = accept[w],
         (v \notin Owing)'
  PROVE  /\ accept[v].order \in Owed
         /\ accept[v].order \in Pays
         /\ Owed' = Owed \ {accept[v].order}
  <1>1. Owing' = Owing \ {v}
    BY DEF Owing
  <1>2. \A w \in Owing : /\ accept[w].order \in Pays
                         /\ w # v => accept[w].order # accept[v].order
    BY DEF Owing, IInv, AcceptOwns
  <1>3. \A w \in Owing \ {v} : accept'[w].order = accept[w].order
    BY DEF Owing
  <1>. QED
    BY <1>1, <1>2, <1>3 DEF Owed

\* A pay request places an order or does nothing the sale can see.
LEMMA PayMaps ==
  ASSUME IInv, NEW r \in Pays, PayNext(r)
  PROVE  [Promise!SaleNext]_(Promise!saleVars)
  <1>1. /\ UNCHANGED <<orderVendor, accept, expire>>
        /\ \/ UNCHANGED hold
           \/ /\ pay[r].pc = "authorize"
              /\ hold[r] = "none"
              /\ hold' \in {[hold EXCEPT ![r] = "authorized"],
                            [hold EXCEPT ![r] = "requires_action"]}
        /\ \/ UNCHANGED order
           \/ /\ pay[r].pc = "finalize"
              /\ order[r] = "none"
              /\ order' = [order EXCEPT ![r] = "open"]
    BY PayWrites DEF IInv
  <1>2. Owed' = Owed
    BY <1>1 DEF Owed, Owing
  <1>3. Charged' = Charged
    BY <1>1 DEF Charged, IInv, TypeOK
  <1>4. CASE UNCHANGED order
    BY <1>1, <1>2, <1>3, <1>4 DEF Promise!saleVars
  <1>5. CASE order[r] = "none" /\ order' = [order EXCEPT ![r] = "open"]
    <2>1. Promise!Place(r)
      BY <1>1, <1>2, <1>3, <1>5 DEF Promise!Place
    <2>. QED
      BY <2>1 DEF Promise!SaleNext
  <1>. QED
    BY <1>1, <1>4, <1>5

\* A vendor takes an order, charges for it, or gives up charging.
LEMMA AcceptMaps ==
  ASSUME IInv, NEW v \in Vendors, AcceptNext(v)
  PROVE  [Promise!SaleNext]_(Promise!saleVars)
  <1>. USE DEF IInv, TypeOK
  <1>1. ASSUME UNCHANGED <<order, orderVendor, Owed, Charged>>
        PROVE  [Promise!SaleNext]_(Promise!saleVars)
    BY <1>1 DEF Promise!saleVars
  <1>2. ASSUME v \in Owing, AcceptEnds(v), UNCHANGED <<order, orderVendor, hold>>
        PROVE  [Promise!SaleNext]_(Promise!saleVars)
    <2>1. /\ \A w \in Vendors : w # v => accept'[w] = accept[w]
          /\ (v \notin Owing)'
      BY <1>2 DEF AcceptEnds, Owing
    <2>2. Charged' = Charged
      BY <1>2 DEF Charged
    <2>3. accept[v].order \in Pays /\ Promise!Forgo(accept[v].order)
      BY <1>2, <2>1, <2>2, OwesNoMore DEF Promise!Forgo
    <2>. QED
      BY <2>3 DEF Promise!SaleNext
  <1>3. ASSUME NEW o \in Pays, ClaimOrder(v, o)
        PROVE  [Promise!SaleNext]_(Promise!saleVars)
    <2>1. /\ \A w \in Vendors : w # v => accept'[w] = accept[w]
          /\ accept[v].pc = "idle"
          /\ accept'[v].pc = "find" /\ accept'[v].order = o
      BY <1>3 DEF ClaimOrder, AcceptMemory
    <2>2. Owing' = Owing \cup {v} /\ v \notin Owing
      BY <2>1 DEF Owing
    <2>3. Owed' = Owed \cup {o}
      BY <2>1, <2>2 DEF Owed, Owing
    <2>4. Charged' = Charged
      BY <1>3 DEF ClaimOrder, Charged
    <2>5. Promise!Take(o, v)
      BY <1>3, <2>3, <2>4 DEF ClaimOrder, Promise!Take
    <2>. QED
      BY <2>5 DEF Promise!SaleNext
  <1>4. CASE FindCapture(v)
    <2>1. v \in Owing /\ UNCHANGED <<order, orderVendor, hold>>
      BY <1>4 DEF FindCapture, Owing, rows
    <2>2. CASE AcceptEnds(v)
      BY <1>2, <2>1, <2>2
    <2>3. ASSUME NEW s \in Pays, NEW p \in Pays,
                 accept' = [accept EXCEPT ![v] =
                     [@ EXCEPT !.pc = "capture", !.session = s, !.payment = p]]
          PROVE  [Promise!SaleNext]_(Promise!saleVars)
      <3>1. /\ \A w \in Vendors : w # v => accept'[w] = accept[w]
            /\ accept'[v].pc = "capture"
            /\ accept'[v].order = accept[v].order
        BY <2>3 DEF AcceptMemory
      <3>2. Owed' = Owed
        BY <2>1, <3>1, OwesStill DEF Owing
      <3>. QED
        BY <1>1, <2>1, <3>2 DEF Charged
    <2>. QED
      BY <1>4, <2>2, <2>3 DEF FindCapture, PaymentsOf, Sessions
  <1>5. CASE Capture(v)
    <2>1. /\ v \in Owing /\ UNCHANGED <<order, orderVendor>>
          /\ accept[v].payment \in Pays
      BY <1>5 DEF Capture, Owing, rows, AcceptOwns
    <2>2. CASE AcceptEnds(v) /\ UNCHANGED hold
      BY <1>2, <2>1, <2>2
    <2>3. CASE /\ hold[accept[v].payment] = "authorized"
               /\ hold' = [hold EXCEPT ![accept[v].payment] = "captured"]
               /\ accept' = [accept EXCEPT ![v].pc = "commit"]
      <3>1. /\ \A w \in Vendors : w # v => accept'[w] = accept[w]
            /\ (v \notin Owing)'
        BY <2>3 DEF Owing, AcceptMemory
      <3>2. /\ Charged' = Charged \cup {accept[v].payment}
            /\ accept[v].payment \notin Charged
        BY <2>1, <2>3 DEF Charged
      <3>3. /\ accept[v].order \in Pays
            /\ Promise!Charge(accept[v].order, accept[v].payment)
        BY <2>1, <3>1, <3>2, OwesNoMore DEF Promise!Charge
      <3>. QED
        BY <2>1, <3>3 DEF Promise!SaleNext
    <2>. QED
      BY <1>5, <2>2, <2>3 DEF Capture
  <1>6. CASE CommitCapture(v) \/ (AcceptCrash(v) /\ v \notin Owing)
    <2>1. /\ \A w \in Vendors : w # v => accept'[w] = accept[w]
          /\ v \notin Owing /\ (v \notin Owing)'
          /\ UNCHANGED <<order, orderVendor, hold>>
      BY <1>6 DEF CommitCapture, AcceptCrash, AcceptEnds, Owing, rows
    <2>2. Owed' = Owed
      BY <2>1, OwesStill
    <2>. QED
      BY <1>1, <2>1, <2>2 DEF Charged
  <1>7. CASE AcceptCrash(v) /\ v \in Owing
    BY <1>2, <1>7 DEF AcceptCrash, rows
  <1>. QED
    BY <1>3, <1>4, <1>5, <1>6, <1>7 DEF AcceptNext, AcceptRuns

\* A job withdraws an open order or does nothing the sale can see.
LEMMA ExpireMaps ==
  ASSUME IInv, NEW j \in Jobs, ExpireNext(j)
  PROVE  [Promise!SaleNext]_(Promise!saleVars)
  <1>1. UNCHANGED <<accept, orderVendor>> /\ Owed' = Owed
    BY DEF ExpireNext, ExpireRuns, PickExpired, LockOrder, CancelHold, CommitExpiry, ExpireCrash,
           rows, Owed, Owing
  <1>2. Charged' = Charged
    <2>1. CASE CancelHold(j)
      BY <2>1 DEF CancelHold, Charged, IInv, TypeOK, ExpireLocks
    <2>2. CASE UNCHANGED hold
      BY <2>2 DEF Charged
    <2>. QED
      BY <2>1, <2>2 DEF ExpireNext, ExpireRuns, PickExpired, LockOrder, CommitExpiry, ExpireCrash
  <1>3. CASE UNCHANGED order
    BY <1>1, <1>2, <1>3 DEF Promise!saleVars
  <1>4. CASE CommitExpiry(j) /\ order' # order
    <2>1. /\ expire[j].order \in Pays
          /\ order[expire[j].order] = "open"
          /\ order' = [order EXCEPT ![expire[j].order] = "cancelled"]
      BY <1>4 DEF CommitExpiry, IInv, ExpireLocks, TypeOK, ExpireMemory, MaybePay
    <2>2. Promise!Withdraw(expire[j].order)
      BY <1>1, <1>2, <2>1 DEF Promise!Withdraw
    <2>. QED
      BY <2>1, <2>2 DEF Promise!SaleNext
  <1>. QED
    BY <1>3, <1>4 DEF ExpireNext, ExpireRuns, PickExpired, LockOrder, CancelHold, ExpireCrash, rows

\* Every step of checkout is a step of the sale or a stutter.
LEMMA StepMaps ==
  ASSUME IInv, [Next]_vars
  PROVE  [Promise!SaleNext]_(Promise!saleVars)
  <1>1. CASE \E r \in Pays : PayNext(r)
    BY <1>1, PayMaps
  <1>2. CASE Customer
    <2>1. UNCHANGED <<order, orderVendor, Owed>>
      BY <1>2 DEF Customer, CompleteAction, rows, Owed, Owing
    <2>2. Charged' = Charged
      BY <1>2 DEF Customer, CompleteAction, Charged, IInv, TypeOK
    <2>. QED
      BY <2>1, <2>2 DEF Promise!saleVars
  <1>3. CASE \E v \in Vendors : AcceptNext(v)
    BY <1>3, AcceptMaps
  <1>4. CASE \E j \in Jobs : ExpireNext(j)
    BY <1>4, ExpireMaps
  <1>5. CASE UNCHANGED vars
    BY <1>5 DEF vars, codeVars, Promise!saleVars, Owed, Owing, Charged
  <1>. QED
    BY <1>1, <1>2, <1>3, <1>4, <1>5, NextMoves

\* Checkout implements the sale: an order is placed once, taken by one vendor or
\* withdrawn, and charged at most once for each taking, in whatever order pay
\* requests, acceptances and expiry runs interleave.
THEOREM CheckoutKeepsPromise == Spec => KeepsPromise
  <1>1. IInv /\ [Next]_vars => [Promise!SaleNext]_(Promise!saleVars)
    BY StepMaps
  <1>. QED
    BY <1>1, InitMaps, Invariance, PTL DEF Spec, KeepsPromise, Promise!SaleSpec

\* An accepted order is never lost to a second vendor or to an expiry run
\* (the conditional update of acceptOrder, the row lock of expireCheckoutSession).
THEOREM AcceptanceIsFinal == Spec => AcceptedIsFinal
  <1>1. ASSUME IInv, [Next]_vars
        PROVE  \A o \in Pays : order[o] = "accepted" =>
                  order'[o] = "accepted" /\ orderVendor'[o] = orderVendor[o]
    <2>1. [Promise!SaleNext]_(Promise!saleVars)
      BY <1>1, StepMaps
    <2>. QED
      BY <1>1, <2>1 DEF IInv, TypeOK, Promise!SaleNext, Promise!saleVars, Promise!Place,
         Promise!Take, Promise!Withdraw, Promise!Charge, Promise!Forgo
  <1>2. IInv /\ [Next]_vars =>
          [\A o \in Pays : order[o] = "accepted" =>
              order'[o] = "accepted" /\ orderVendor'[o] = orderVendor[o]]_vars
    BY <1>1
  <1>. QED
    BY <1>2, Invariance, PTL DEF Spec, AcceptedIsFinal

-----------------------------------------------------------------------------
(***************************************************************************)
(* What the customer pays, counted.                                        *)
(***************************************************************************)

\* Only what was taken is owed, and every charge settled something taken.
BackedInv ==
    /\ Owed \subseteq Taken
    /\ ChargesBacked

\* A taking allows one more charge; a charge uses up what was owed.
LEMMA BackedStep ==
  ASSUME IInv, BackedInv, [Next]_vars
  PROVE  BackedInv'
  <1>. USE DEF BackedInv, ChargesBacked
  <1>1. [Promise!SaleNext]_(Promise!saleVars)
    BY StepMaps
  <1>2. /\ IsFiniteSet(Taken) /\ Cardinality(Taken) \in Nat
        /\ IsFiniteSet(Owed) /\ Cardinality(Owed) \in Nat
        /\ IsFiniteSet(Charged) /\ Cardinality(Charged) \in Nat
    BY CheckoutAssumption, FS_Subset, FS_CardinalityType DEF Taken, Charged
  <1>3. order \in [Pays -> OrderStatus]
    BY DEF IInv, TypeOK
  <1>4. ASSUME NEW o \in Pays, Promise!Place(o) \/ Promise!Withdraw(o)
        PROVE  BackedInv'
    <2>1. Taken' = Taken /\ UNCHANGED <<Owed, Charged>>
      BY <1>3, <1>4 DEF Promise!Place, Promise!Withdraw, Taken
    <2>. QED
      BY <2>1
  <1>5. ASSUME NEW o \in Pays, Promise!Forgo(o)
        PROVE  BackedInv'
    <2>1. Taken' = Taken /\ Charged' = Charged /\ Owed' = Owed \ {o} /\ o \in Owed
      BY <1>5 DEF Promise!Forgo, Taken
    <2>2. Cardinality(Owed \ {o}) = Cardinality(Owed) - 1
      BY <1>2, <2>1, FS_RemoveElement
    <2>. QED
      BY <1>2, <2>1, <2>2
  <1>6. ASSUME NEW o \in Pays, NEW v \in Vendors, Promise!Take(o, v)
        PROVE  BackedInv'
    <2>1. Taken' = Taken \cup {o} /\ o \notin Taken
      BY <1>3, <1>6 DEF Promise!Take, Taken
    <2>2. Owed' = Owed \cup {o} /\ o \notin Owed /\ Charged' = Charged
      BY <1>6, <2>1 DEF Promise!Take
    <2>3. /\ Cardinality(Taken \cup {o}) = Cardinality(Taken) + 1
          /\ Cardinality(Owed \cup {o}) = Cardinality(Owed) + 1
      BY <1>2, <2>1, <2>2, FS_AddElement
    <2>. QED
      BY <1>2, <2>1, <2>2, <2>3
  <1>7. ASSUME NEW o \in Pays, NEW h \in Pays, Promise!Charge(o, h)
        PROVE  BackedInv'
    <2>1. /\ Taken' = Taken
          /\ Owed' = Owed \ {o} /\ o \in Owed
          /\ Charged' = Charged \cup {h} /\ h \notin Charged
      BY <1>7 DEF Promise!Charge, Taken
    <2>2. /\ Cardinality(Owed \ {o}) = Cardinality(Owed) - 1
          /\ Cardinality(Charged \cup {h}) = Cardinality(Charged) + 1
      BY <1>2, <2>1, FS_RemoveElement, FS_AddElement
    <2>. QED
      BY <1>2, <2>1, <2>2
  <1>8. CASE UNCHANGED Promise!saleVars
    BY <1>8 DEF Promise!saleVars, Taken
  <1>. QED
    BY <1>1, <1>4, <1>5, <1>6, <1>7, <1>8 DEF Promise!SaleNext

\* The customer is never charged more often than vendors took an order, however
\* many requests, vendors and runs there are.
THEOREM ChargesAreBacked == Spec => []ChargesBacked
  <1>1. Init => BackedInv
    <2>. SUFFICES ASSUME Init PROVE BackedInv
      OBVIOUS
    <2>1. Owed = {} /\ Charged = {}
      BY InitMaps DEF Promise!SaleInit
    <2>2. Taken = {}
      BY DEF Init, Taken
    <2>3. Cardinality({}) = 0
      BY FS_EmptySet
    <2>. QED
      BY <2>1, <2>2, <2>3 DEF BackedInv, ChargesBacked
  <1>2. IInv /\ BackedInv /\ [Next]_vars => BackedInv'
    BY BackedStep
  <1>3. BackedInv => ChargesBacked
    BY DEF BackedInv
  <1>. QED
    BY <1>1, <1>2, <1>3, Invariance, PTL DEF Spec

-----------------------------------------------------------------------------
(***************************************************************************)
(* While nothing has disturbed the checkout: one hold and one order.       *)
(***************************************************************************)

\* A request that is running has opened its own session by then.
Opened == {"payment", "authorize", "finalize", "failSession"}

\* The request that is running is the only one, and there is no order yet.
Trying ==
    \A r \in Pays :
        /\ pay[r].pc \in {"idle", "session", "insert", "done"} \cup Opened
        /\ pay[r].payment = None
        /\ Running(r) => /\ \A q \in Pays : Running(q) => q = r
                         /\ \A o \in Pays : order[o] = "none"
        /\ pay[r].pc \in Opened => pay[r].session = r /\ session[r] = "active"
        /\ pay[r].pc = "finalize" => hold[r] = "authorized"

\* The session, the payment and the hold that count are those of the order's
\* request: the other attempts failed.
OnlyOne ==
    /\ \A o, q \in Pays : order[o] # "none" /\ order[q] # "none" => o = q
    /\ \A s \in Pays : session[s] \notin {"none", "failed"} =>
                          order[s] # "none" \/ pay[s].pc \in Opened
    /\ \A p \in Pays : payment[p] # "none" => order[p] # "none" /\ paidUnder[p] = p
    /\ \A h \in Pays : /\ hold[h] # "none" => order[h] # "none" \/ pay[h].pc = "finalize"
                       /\ hold[h] # "requires_action"

Funded(o) == /\ payment[o] = "authorized" /\ hold[o] = "authorized"
             /\ session[o] = "active"

\* Where the money of an order is.  An acceptance can have given up unpaid only
\* because the session it read was one that failed.
Settled ==
    \A o \in Pays :
        /\ order[o] = "open" =>
              \/ Funded(o)
              \/ /\ \E j \in Jobs : expire[j].pc = "commit" /\ expire[j].order = o
                 /\ session[o] = "active" /\ payment[o] = "authorized"
        /\ order[o] = "accepted" =>
              \/ \E v \in Vendors : accept[v].order = o
              \/ payment[o] = "captured"
              \/ ~FirstAttempt

\* An acceptance under way captures the payment of its order, still held until
\* it does.
Accepting ==
    \A v \in Vendors :
        LET a == accept[v] IN
        /\ a.pc \in {"find", "capture"} => Funded(a.order)
        /\ a.pc \in {"capture", "commit"} => a.payment = a.order /\ a.session = a.order
        /\ a.pc = "commit" => payment[a.order] = "authorized"

\* An expiry run is after the session of the order, and cancels its hold.
Expiring ==
    \A j \in Jobs :
        LET e == expire[j] IN
        /\ e.pc # "idle" => e.session \in Pays /\ order[e.session] # "none"
        /\ e.pc \in {"cancel", "commit"} => e.order = e.session /\ e.payment = e.session
        /\ e.pc = "cancel" => hold[e.session] = "authorized"

OrderlyInv == Trying /\ OnlyOne /\ Settled /\ Accepting /\ Expiring

-----------------------------------------------------------------------------
\* Two requests that run after a step that leaves no disorder are one.
LEMMA OneRuns ==
  ASSUME ~Disorder', NEW q \in Pays, NEW r \in Pays, Running(q)', Running(r)'
  PROVE  q = r
  <1> SUFFICES ASSUME q # r PROVE FALSE
    OBVIOUS
  <1>1. IsFiniteSet(InFlight')
    BY CheckoutAssumption, FS_Subset DEF InFlight
  <1>2. {q, r} \subseteq InFlight'
    BY DEF InFlight
  <1>3. IsFiniteSet({q}) /\ Cardinality({q}) = 1
    BY FS_Singleton
  <1>4. Cardinality({q, r}) = 2
    <2>1. {q, r} = {q} \cup {r} /\ r \notin {q}
      OBVIOUS
    <2>. QED BY <1>3, <2>1, FS_AddElement
  <1>5. Cardinality(InFlight') \in Nat /\ Cardinality({q, r}) <= Cardinality(InFlight')
    BY <1>1, <1>2, FS_Subset, FS_CardinalityType
  <1>. QED
    BY <1>4, <1>5 DEF Disorder

\* While a request runs, nothing else is going on.
LEMMA NothingElse ==
  ASSUME IInv, OrderlyInv, \A o \in Pays : order[o] = "none"
  PROVE  /\ \A v \in Vendors : accept[v].pc = "idle"
         /\ \A j \in Jobs : expire[j].pc = "idle"
         /\ \A p \in Pays : payment[p] = "none"
  BY DEF IInv, AcceptOwns, OrderlyInv, Expiring, OnlyOne

\* A pay request's step that leaves orders, payments and holds as they were.
LEMMA PayQuiet ==
  ASSUME IInv, OrderlyInv, NEW r \in Pays, \A o \in Pays : order[o] = "none",
         UNCHANGED <<payment, paidUnder, order, orderVendor, hold, accept, expire>>,
         Trying',
         \A s \in Pays : session'[s] \notin {"none", "failed"} => pay'[s].pc \in Opened,
         \A h \in Pays : hold[h] # "none" => pay'[h].pc = "finalize"
  PROVE  OrderlyInv'
  <1>1. OnlyOne'
    BY DEF OrderlyInv, OnlyOne
  <1>2. Settled' /\ Expiring'
    BY NothingElse DEF Settled, Expiring
  <1>3. Accepting'
    BY NothingElse DEF Accepting
  <1>. QED
    BY <1>1, <1>2, <1>3 DEF OrderlyInv

\* A request that answers at once.
LEMMA PayAnswers ==
  ASSUME IInv, OrderlyInv, NEW r \in Pays, pay[r].pc = "idle",
         pay' = [pay EXCEPT ![r].pc = "done"], UNCHANGED <<rows, hold, accept, expire>>
  PROVE  OrderlyInv'
  <1>0. /\ pay'[r].pc = "done" /\ pay'[r].payment = pay[r].payment
        /\ \A q \in Pays : q # r => pay'[q] = pay[q]
    BY DEF IInv, TypeOK, PayMemory
  <1>1. Trying'
    BY <1>0 DEF OrderlyInv, Trying, Running, rows, Opened
  <1>2. OnlyOne'
    BY <1>0 DEF OrderlyInv, OnlyOne, rows, Opened
  <1>3. Settled' /\ Accepting' /\ Expiring'
    BY DEF OrderlyInv, Settled, Accepting, Expiring, Funded, FirstAttempt, rows
  <1>. QED
    BY <1>1, <1>2, <1>3 DEF OrderlyInv

LEMMA OrderlyPay ==
  ASSUME ~Disorder', IInv, OrderlyInv, NEW r \in Pays, PayRuns(r)
  PROVE  OrderlyInv'
  <1>. DEFINE m == pay[r]
  <1>1. /\ pay \in [Pays -> PayMemory] /\ session \in [Pays -> SessionStatus]
        /\ payment \in [Pays -> PaymentStatus] /\ hold \in [Pays -> HoldStatus]
        /\ order \in [Pays -> OrderStatus] /\ paidUnder \in [Pays -> MaybePay]
        /\ r \in Pays
    BY DEF IInv, TypeOK
  <1>2. \A q \in Pays : q # r => pay'[q] = pay[q]
    BY PayMoves DEF IInv, PayNext
  <1>3. CASE LookUpOrder(r)
    <2>2. CASE Orders # {}
      BY <1>3, <2>2, PayAnswers DEF LookUpOrder, PayStep
    <2>3. CASE Orders = {}
      <3>1. \A o \in Pays : order[o] = "none"
        BY <2>3 DEF Orders
      <3>2. pay'[r].pc = "session" /\ pay'[r].payment = m.payment /\ m.pc = "idle"
        BY <1>1, <1>3, <2>3 DEF LookUpOrder, PayStep, PayMemory
      <3>2a. \A q \in Pays : ~Running(q)
        <4>1. SUFFICES ASSUME NEW q \in Pays, Running(q) PROVE FALSE
          OBVIOUS
        <4>2. q # r
          BY <3>2, <4>1 DEF Running
        <4>3. Running(q)' /\ Running(r)'
          BY <1>2, <3>2, <4>1, <4>2 DEF Running
        <4>. QED
          BY <4>2, <4>3, OneRuns
      <3>3. UNCHANGED <<session, payment, paidUnder, order, orderVendor, hold, accept, expire>>
        BY <1>3 DEF LookUpOrder, rows
      <3>4. Trying'
        BY <1>2, <3>1, <3>2, <3>2a, <3>3 DEF OrderlyInv, Trying, Running, Opened
      <3>5. \A q \in Pays : pay[q].pc \in {"idle", "done"}
        BY <3>2a DEF Running
      <3>. QED
        BY <3>1, <3>3, <3>4, <3>5, PayQuiet DEF OrderlyInv, OnlyOne, Opened
    <2>. QED
      BY <2>2, <2>3
  <1>4. CASE ~LookUpOrder(r)
    \* The request is the only one running, and there is no order.
    <2>1. Running(r)
      BY <1>4 DEF PayRuns, FindSession, InsertSession, FindPayment, Authorize, RecordPending,
                  Retrieve, Finalize, FailSession, FailPayment, Running
    <2>2. /\ \A q \in Pays : q # r => pay[q].pc \in {"idle", "done"}
          /\ \A o \in Pays : order[o] = "none"
      BY <2>1 DEF OrderlyInv, Trying, Running
    <2>3. /\ \A s \in Pays : session[s] \notin {"none", "failed"} => s = r /\ m.pc \in Opened
          /\ \A h \in Pays : /\ hold[h] # "none" => h = r /\ m.pc = "finalize"
                             /\ hold[h] # "requires_action"
          /\ \A p \in Pays : payment[p] = "none"
      BY <2>2, NothingElse DEF OrderlyInv, OnlyOne, Opened
    <2>4. /\ m.pc \in {"session", "insert"} \cup Opened /\ m.payment = None
          /\ m.pc \in Opened => m.session = r /\ session[r] = "active"
          /\ m.pc = "finalize" => hold[r] = "authorized"
      BY <2>1 DEF OrderlyInv, Trying, Running
    \* It goes on, or it is done without an order.
    <2>5. ASSUME UNCHANGED <<payment, paidUnder, order, orderVendor, accept, expire>>,
                 pay'[r].payment = None,
                 \A s \in Pays : s # r => session'[s] = session[s],
                 \A h \in Pays : h # r => hold'[h] = hold[h],
                 \/ /\ pay'[r].pc \in {"insert", "done"} /\ hold'[r] = "none"
                    /\ session'[r] \in {"none", "failed"}
                 \/ /\ pay'[r].pc \in {"payment", "authorize", "failSession"}
                    /\ session'[r] = "active" /\ pay'[r].session = r /\ hold'[r] = "none"
                 \/ /\ pay'[r].pc = "finalize"
                    /\ session'[r] = "active" /\ pay'[r].session = r /\ hold'[r] = "authorized"
          PROVE  OrderlyInv'
      <3>1. Trying'
        BY <1>2, <2>2, <2>5 DEF OrderlyInv, Trying, Running, Opened
      <3>2. /\ \A s \in Pays : session'[s] \notin {"none", "failed"} => pay'[s].pc \in Opened
            /\ \A h \in Pays : hold'[h] # "none" => pay'[h].pc = "finalize"
        BY <2>3, <2>5 DEF Opened
      <3>3. OnlyOne'
        BY <2>2, <2>3, <2>5, <3>2 DEF OnlyOne
      <3>4. Settled' /\ Expiring'
        BY <2>2, <2>5, NothingElse DEF Settled, Expiring
      <3>5. Accepting'
        BY <2>2, <2>5, NothingElse DEF Accepting
      <3>. QED
        BY <3>1, <3>3, <3>4, <3>5 DEF OrderlyInv
    <2>6. CASE FindSession(r)
      <3>1. \A s \in Pays : session[s] # "active"
        BY <1>1, <2>3, <2>4, <2>6 DEF FindSession, Opened, SessionStatus
      <3>2. PayStep(r, "insert") /\ UNCHANGED <<rows, hold, accept, expire>> /\ m.pc = "session"
        BY <2>6, <3>1 DEF FindSession
      <3>3. pay'[r].pc = "insert" /\ pay'[r].payment = m.payment
        BY <1>1, <3>2 DEF PayStep, PayMemory
      <3>4. session[r] \in {"none", "failed"} /\ hold[r] = "none"
        BY <2>3, <3>2 DEF Opened
      <3>. QED
        BY <2>4, <2>5, <3>2, <3>3, <3>4 DEF rows
    <2>7. CASE InsertSession(r)
      <3>1. /\ pay'[r].pc = "payment" /\ pay'[r].payment = m.payment /\ pay'[r].session = r
            /\ session'[r] = "active" /\ \A s \in Pays : s # r => session'[s] = session[s]
            /\ UNCHANGED <<payment, paidUnder, order, orderVendor, hold, accept, expire>>
        BY <1>1, <2>7 DEF InsertSession, PayMemory
      <3>2. hold[r] = "none"
        BY <2>3, <2>7 DEF InsertSession
      <3>. QED
        BY <2>4, <2>5, <3>1, <3>2
    <2>8. CASE FindPayment(r)
      <3>1. PaymentsOf(m.session) = {}
        BY <2>3 DEF PaymentsOf
      <3>2. PayStep(r, "authorize") /\ UNCHANGED <<rows, hold, accept, expire>> /\ m.pc = "payment"
        BY <2>8, <3>1 DEF FindPayment
      <3>3. pay'[r].pc = "authorize" /\ pay'[r].payment = m.payment /\ pay'[r].session = m.session
        BY <1>1, <3>2 DEF PayStep, PayMemory
      <3>4. session[r] = "active" /\ m.session = r /\ hold[r] = "none"
        BY <2>3, <2>4, <3>2 DEF Opened
      <3>. QED
        BY <2>4, <2>5, <3>2, <3>3, <3>4 DEF rows
    <2>9. CASE Authorize(r)
      <3>1. session[r] = "active" /\ m.session = r /\ hold[r] = "none"
        BY <2>3, <2>4, <2>9 DEF Authorize, Opened
      <3>2. \/ PayStep(r, "finalize") /\ hold' = [hold EXCEPT ![r] = "authorized"]
            \/ PayStep(r, "failSession") /\ UNCHANGED hold
        <4>1. hold'[r] # "requires_action"
          BY DEF Disorder
        <4>2. hold' # [hold EXCEPT ![r] = "requires_action"]
          BY <1>1, <4>1
        <4>. QED
          BY <2>9, <4>2 DEF Authorize
      <3>3. /\ \/ pay'[r].pc = "finalize" /\ hold'[r] = "authorized"
               \/ pay'[r].pc = "failSession" /\ hold'[r] = "none"
            /\ \A h \in Pays : h # r => hold'[h] = hold[h]
            /\ pay'[r].payment = m.payment /\ pay'[r].session = m.session
        BY <1>1, <3>1, <3>2 DEF PayStep, PayMemory
      <3>4. UNCHANGED <<rows, accept, expire>>
        BY <2>9 DEF Authorize
      <3>. QED
        BY <2>4, <2>5, <3>1, <3>3, <3>4 DEF rows
    <2>10. CASE FailSession(r)
      <3>1. m.session = r /\ hold[r] = "none" /\ m.payment = None
        BY <2>3, <2>4, <2>10 DEF FailSession, Opened
      <3>2. /\ session' = [session EXCEPT ![r] = "failed"] /\ PayStep(r, "done")
            /\ UNCHANGED <<payment, paidUnder, order, orderVendor, hold, accept, expire>>
        BY <2>10, <3>1 DEF FailSession
      <3>3. pay'[r].pc = "done" /\ pay'[r].payment = m.payment
        BY <1>1, <3>2 DEF PayStep, PayMemory
      <3>. QED
        BY <1>1, <2>5, <3>1, <3>2, <3>3
    <2>11. CASE Finalize(r)
      <3>1. m.pc = "finalize" /\ session[r] = "active" /\ hold[r] = "authorized" /\ m.session = r
        BY <2>4, <2>11 DEF Finalize, Opened
      <3>2. /\ payment' = [payment EXCEPT ![r] = "authorized"]
            /\ paidUnder' = [paidUnder EXCEPT ![r] = r]
            /\ order' = [order EXCEPT ![r] = "open"] /\ PayStep(r, "done")
            /\ UNCHANGED <<session, orderVendor, hold, accept, expire>>
        BY <2>4, <2>11, <3>1 DEF Finalize
      <3>3. pay'[r].pc = "done" /\ pay'[r].payment = None
        BY <1>1, <2>4, <3>2 DEF PayStep, PayMemory
      <3>4. /\ payment'[r] = "authorized" /\ paidUnder'[r] = r /\ order'[r] = "open"
            /\ \A q \in Pays : q # r => payment'[q] = "none" /\ order'[q] = "none"
        BY <1>1, <2>2, <2>3, <3>2
      <3>5. Trying'
        BY <1>2, <2>2, <3>3 DEF OrderlyInv, Trying, Running, Opened
      <3>6. OnlyOne'
        BY <2>3, <3>2, <3>4 DEF OnlyOne
      <3>7. Settled' /\ Expiring'
        BY <2>2, <3>1, <3>2, <3>4, NothingElse DEF Settled, Expiring, Funded
      <3>8. Accepting'
        BY <2>2, <3>2, NothingElse DEF Accepting
      <3>. QED
        BY <3>5, <3>6, <3>7, <3>8 DEF OrderlyInv
    <2>12. ~(RecordPending(r) \/ Retrieve(r) \/ FailPayment(r))
      BY <2>4 DEF RecordPending, Retrieve, FailPayment, Opened
    <2>. QED
      BY <1>4, <2>6, <2>7, <2>8, <2>9, <2>10, <2>11, <2>12 DEF PayRuns
  <1>. QED
    BY <1>3, <1>4

\* There is one order, and its request, session, payment and hold are done being made.
LEMMA OrderMade ==
  ASSUME IInv, OrderlyInv, NEW o \in Pays, order[o] # "none"
  PROVE  /\ \A r \in Pays : ~Running(r)
         /\ \A q \in Pays : order[q] # "none" => q = o
         /\ \A p \in Pays : payment[p] # "none" => p = o /\ paidUnder[p] = o
         /\ \A s \in Pays : session[s] \notin {"none", "failed"} => s = o
         /\ \A h \in Pays : hold[h] # "none" => h = o
         /\ Orders = {o}
  <1>1. \A r \in Pays : ~Running(r)
    BY DEF OrderlyInv, Trying
  <1>2. \A r \in Pays : pay[r].pc \notin Opened
    BY <1>1 DEF Running, Opened
  <1>. QED
    BY <1>1, <1>2 DEF OrderlyInv, OnlyOne, Opened, Orders

\* A vendor's acceptance.
LEMMA OrderlyAccept ==
  ASSUME IInv, OrderlyInv, NEW v \in Vendors, AcceptRuns(v)
  PROVE  OrderlyInv'
  <1>. DEFINE a == accept[v]
  <1>1. /\ accept \in [Vendors -> AcceptMemory] /\ session \in [Pays -> SessionStatus]
        /\ payment \in [Pays -> PaymentStatus] /\ hold \in [Pays -> HoldStatus]
        /\ order \in [Pays -> OrderStatus] /\ orderVendor \in [Pays -> Vendors \cup {None}]
    BY DEF IInv, TypeOK
  <1>2. UNCHANGED <<pay, expire, paidUnder>>
    BY DEF AcceptRuns, ClaimOrder, FindCapture, Capture, CommitCapture, rows
  <1>4. ASSUME NEW o \in Pays, ClaimOrder(v, o) PROVE OrderlyInv'
    <2>1. /\ order[o] = "open" /\ ~OrderLocked(o) /\ UNCHANGED <<session, payment, hold>>
          /\ order'[o] = "accepted" /\ \A q \in Pays : q # o => order'[q] = order[q]
          /\ accept'[v].pc = "find" /\ accept'[v].order = o
          /\ \A w \in Vendors : w # v => accept'[w] = accept[w]
      BY <1>1, <1>4 DEF ClaimOrder, AcceptMemory
    <2>2. Funded(o)
      BY <2>1 DEF OrderlyInv, Settled, OrderLocked
    <2>3. \A q \in Pays : order[q] # "none" => q = o
      BY <2>1, OrderMade
    <2>4. Trying' /\ OnlyOne'
      BY <1>2, <2>1 DEF OrderlyInv, Trying, OnlyOne, Running
    <2>5. \A w \in Vendors : w # v => accept[w].pc = "idle"
      BY <2>1, <2>3 DEF IInv, AcceptOwns
    <2>6. Accepting'
      BY <2>1, <2>2, <2>5 DEF Accepting, Funded
    <2>7. Settled' /\ Expiring'
      BY <1>2, <2>1, <2>3 DEF OrderlyInv, Settled, Expiring
    <2>. QED
      BY <2>4, <2>6, <2>7 DEF OrderlyInv
  <1>5. CASE FindCapture(v) \/ Capture(v) \/ CommitCapture(v)
    \* The vendor is at work on the one order there is, and nobody else is.
    <2>. DEFINE o == a.order
    <2>1. /\ o \in Pays /\ order[o] = "accepted" /\ a.pc # "idle"
          /\ \A q \in Pays : order[q] # "none" => q = o
          /\ \A w \in Vendors : w # v => accept[w].pc = "idle"
      <3>1. o \in Pays /\ order[o] = "accepted" /\ orderVendor[o] = v /\ a.pc # "idle"
        BY <1>5 DEF FindCapture, Capture, CommitCapture, IInv, AcceptOwns
      <3>2. \A q \in Pays : order[q] # "none" => q = o
        BY <3>1, OrderMade
      <3>. QED
        BY <3>1, <3>2 DEF IInv, AcceptOwns
    <2>2. /\ \A p \in Pays : payment[p] # "none" => p = o /\ paidUnder[p] = o
          /\ \A s \in Pays : session[s] \notin {"none", "failed"} => s = o
          /\ \A h \in Pays : hold[h] # "none" => h = o
      BY <2>1, OrderMade
    <2>3. /\ a.pc \in {"find", "capture"} => Funded(o)
          /\ a.pc \in {"capture", "commit"} => a.payment = o /\ a.session = o
          /\ a.pc = "commit" => payment[o] = "authorized"
      BY DEF OrderlyInv, Accepting
    <2>3a. payment[o] = "authorized" /\ paidUnder[o] = o
      <3>1. a.pc \in {"find", "capture", "commit"}
        BY <1>5 DEF FindCapture, Capture, CommitCapture
      <3>. QED
        BY <2>1, <2>2, <2>3, <3>1 DEF Funded
    <2>4. UNCHANGED order
      BY <1>5 DEF FindCapture, Capture, CommitCapture, rows
    \* No expiry run is about to cancel: the order is not open.
    <2>5. \A j \in Jobs : expire[j].pc \notin {"cancel", "commit"}
      <3>1. None \notin Pays
        BY CheckoutAssumption
      <3>2. ASSUME NEW j \in Jobs, expire[j].pc \in {"cancel", "commit"}
            PROVE  order[expire[j].order] = "open" /\ expire[j].order \in Pays
        BY <3>1, <3>2 DEF OrderlyInv, Expiring, IInv, ExpireLocks
      <3>. QED
        BY <2>1, <3>2
    <2>6. ASSUME \A w \in Vendors : w # v => accept'[w] = accept[w],
                 \A q \in Pays : q # o => /\ session'[q] = session[q] /\ payment'[q] = payment[q]
                                          /\ hold'[q] = hold[q],
                 session'[o] # "none", payment'[o] # "none", hold'[o] \notin {"none", "requires_action"},
                 \/ /\ accept'[v].pc = "idle"
                    /\ payment'[o] = "captured" \/ ~FirstAttempt'
                 \/ /\ accept'[v].pc \in {"find", "capture"} /\ Funded(o)'
                    /\ accept'[v].order = o
                    /\ accept'[v].payment = o /\ accept'[v].session = o
                 \/ /\ accept'[v].pc = "commit" /\ payment'[o] = "authorized"
                    /\ accept'[v].order = o
                    /\ accept'[v].payment = o /\ accept'[v].session = o
          PROVE  OrderlyInv'
      <3>1. Trying' 
        BY <1>2, <2>1, <2>4, OrderMade DEF OrderlyInv, Trying, Running, Opened
      <3>2. OnlyOne'
        <4>1. \A h \in Pays : hold[h] # "requires_action"
          BY DEF OrderlyInv, OnlyOne
        <4>. QED
          BY <1>2, <2>1, <2>2, <2>3a, <2>4, <2>6, <4>1 DEF OnlyOne
      <3>3. Accepting'
        BY <2>1, <2>6 DEF Accepting, Funded
      <3>4. Expiring'
        BY <1>2, <2>4, <2>5 DEF OrderlyInv, Expiring
      <3>5. Settled'
        BY <2>1, <2>4, <2>6 DEF Settled
      <3>. QED
        BY <3>1, <3>2, <3>3, <3>4, <3>5 DEF OrderlyInv
    <2>7. CASE FindCapture(v)
      <3>1. a.pc = "find" /\ Funded(o) /\ UNCHANGED <<session, payment, hold>>
        BY <2>3, <2>7 DEF FindCapture, rows
      <3>2. CASE AcceptEnds(v) /\ \E s \in Sessions : PaymentsOf(s) = {}
        <4>1. PICK s \in Sessions : PaymentsOf(s) = {}
          BY <3>2
        <4>2. o \in PaymentsOf(o)
          BY <2>1, <2>2, <3>1 DEF PaymentsOf, Funded
        <4>3. s \in Pays /\ session[s] = "failed"
          BY <2>2, <4>1, <4>2 DEF Sessions
        <4>4. ~FirstAttempt'
          BY <3>1, <4>3 DEF FirstAttempt
        <4>5. accept'[v].pc = "idle" /\ \A w \in Vendors : w # v => accept'[w] = accept[w]
          BY <1>1, <3>2 DEF AcceptEnds
        <4>. QED
          BY <2>6, <3>1, <4>4, <4>5 DEF Funded
      <3>3. CASE \E s \in Sessions : \E p \in PaymentsOf(s) :
                    \/ accept' = [accept EXCEPT ![v] =
                          [@ EXCEPT !.pc = "capture", !.session = s, !.payment = p]]
                    \/ payment[p] # "authorized"
        <4>0. PICK s \in Sessions : \E p \in PaymentsOf(s) :
                    \/ accept' = [accept EXCEPT ![v] =
                          [@ EXCEPT !.pc = "capture", !.session = s, !.payment = p]]
                    \/ payment[p] # "authorized"
          BY <3>3
        <4>1. PICK p \in PaymentsOf(s) :
                    \/ accept' = [accept EXCEPT ![v] =
                          [@ EXCEPT !.pc = "capture", !.session = s, !.payment = p]]
                    \/ payment[p] # "authorized"
          BY <4>0
        <4>2. p = o /\ s = o
          BY <2>2 DEF PaymentsOf
        <4>3. accept' = [accept EXCEPT ![v] = [@ EXCEPT !.pc = "capture", !.session = o, !.payment = o]]
          BY <3>1, <4>1, <4>2 DEF Funded
        <4>4. /\ accept'[v].pc = "capture" /\ accept'[v].session = o /\ accept'[v].payment = o
              /\ accept'[v].order = o
              /\ \A w \in Vendors : w # v => accept'[w] = accept[w]
          BY <1>1, <4>3 DEF AcceptMemory
        <4>. QED
          BY <2>6, <3>1, <4>4 DEF Funded
      <3>. QED
        BY <2>7, <3>2, <3>3 DEF FindCapture
    <2>8. CASE Capture(v)
      <3>1. a.pc = "capture" /\ Funded(o) /\ a.payment = o /\ a.session = o
        BY <2>3, <2>8 DEF Capture
      <3>2. /\ hold' = [hold EXCEPT ![o] = "captured"]
            /\ accept' = [accept EXCEPT ![v].pc = "commit"]
            /\ UNCHANGED <<session, payment>>
        BY <2>8, <3>1 DEF Capture, Funded, rows
      <3>3. /\ accept'[v].pc = "commit" /\ accept'[v].session = o /\ accept'[v].payment = o
            /\ accept'[v].order = o
            /\ \A w \in Vendors : w # v => accept'[w] = accept[w]
        BY <1>1, <3>1, <3>2 DEF AcceptMemory
      <3>4. hold'[o] = "captured" /\ \A q \in Pays : q # o => hold'[q] = hold[q]
        BY <1>1, <2>1, <3>2
      <3>. QED
        BY <2>6, <3>1, <3>2, <3>3, <3>4 DEF Funded
    <2>9. CASE CommitCapture(v)
      <3>1. /\ a.payment = o /\ a.session = o /\ payment[o] = "authorized"
            /\ hold[o] = "captured"
        BY <2>3, <2>9 DEF CommitCapture, IInv, AcceptOwns
      <3>2. /\ payment'[o] = "captured" /\ session'[o] = "completed" /\ UNCHANGED hold
            /\ \A q \in Pays : q # o => payment'[q] = payment[q] /\ session'[q] = session[q]
        BY <1>1, <2>1, <2>9, <3>1 DEF CommitCapture
      <3>3. accept'[v].pc = "idle" /\ \A w \in Vendors : w # v => accept'[w] = accept[w]
        BY <1>1, <2>9 DEF CommitCapture, AcceptEnds
      <3>. QED
        BY <2>6, <3>1, <3>2, <3>3
    <2>. QED
      BY <1>5, <2>7, <2>8, <2>9
  <1>. QED
    BY <1>4, <1>5 DEF AcceptRuns

\* An expiry run.
LEMMA OrderlyExpire ==
  ASSUME IInv, OrderlyInv, NEW j \in Jobs, ExpireRuns(j)
  PROVE  OrderlyInv'
  <1>. DEFINE e == expire[j]
  <1>1. /\ expire \in [Jobs -> ExpireMemory] /\ session \in [Pays -> SessionStatus]
        /\ payment \in [Pays -> PaymentStatus] /\ hold \in [Pays -> HoldStatus]
        /\ order \in [Pays -> OrderStatus] /\ None \notin Pays
    BY CheckoutAssumption DEF IInv, TypeOK
  <1>2. UNCHANGED <<pay, accept, paidUnder>>
    BY DEF ExpireRuns, PickExpired, LockOrder, CancelHold, CommitExpiry, rows
  \* A step that changes the run's memory and nothing else.
  <1>4. ASSUME UNCHANGED <<session, payment, hold, order>>,
               \A k \in Jobs : k # j => expire'[k] = expire[k],
               e.pc # "commit",
               \/ expire'[j].pc = "idle"
               \/ /\ expire'[j].session \in Pays /\ order[expire'[j].session] # "none"
                  /\ \/ expire'[j].pc = "lock"
                     \/ /\ expire'[j].pc = "cancel"
                        /\ expire'[j].order = expire'[j].session
                        /\ expire'[j].payment = expire'[j].session
                        /\ hold[expire'[j].session] = "authorized"
        PROVE  OrderlyInv'
    <2>1. Trying' /\ OnlyOne' /\ Accepting'
      BY <1>2, <1>4 DEF OrderlyInv, Trying, OnlyOne, Accepting, Running, Funded
    <2>2. Expiring'
      BY <1>4 DEF OrderlyInv, Expiring
    <2>3. Settled'
      <3>1. \A o \in Pays : (\E k \in Jobs : expire[k].pc = "commit" /\ expire[k].order = o)
                       => (\E k \in Jobs : expire'[k].pc = "commit" /\ expire'[k].order = o)
        BY <1>4
      <3>. QED
        BY <1>2, <1>4, <3>1 DEF OrderlyInv, Settled, Funded, FirstAttempt
    <2>. QED
      BY <2>1, <2>2, <2>3 DEF OrderlyInv
  <1>5. ASSUME NEW s \in Pays, PickExpired(j, s) PROVE OrderlyInv'
    <2>1. order[s] # "none"
      BY <1>5 DEF PickExpired, Due, OrderlyInv, OnlyOne, Running, Opened
    <2>2. /\ UNCHANGED <<session, payment, hold, order>> /\ e.pc = "idle"
          /\ expire'[j].pc = "lock" /\ expire'[j].session = s
          /\ \A k \in Jobs : k # j => expire'[k] = expire[k]
      BY <1>1, <1>5 DEF PickExpired, rows, ExpireMemory
    <2>. QED
      BY <1>4, <2>1, <2>2
  <1>6. CASE ~\E s \in Pays : PickExpired(j, s)
    \* The run is after the session of the one order there is.
    <2>. DEFINE o == e.session
    <2>1. o \in Pays /\ order[o] # "none"
      BY <1>6 DEF ExpireRuns, LockOrder, CancelHold, CommitExpiry, OrderlyInv, Expiring
    <2>2. /\ \A q \in Pays : order[q] # "none" => q = o
          /\ \A p \in Pays : payment[p] # "none" => p = o /\ paidUnder[p] = o
          /\ \A s \in Pays : session[s] \notin {"none", "failed"} => s = o
          /\ Orders = {o}
      BY <2>1, OrderMade
    <2>3. /\ e.pc \in {"cancel", "commit"} => e.order = o /\ e.payment = o /\ order[o] = "open"
          /\ e.pc = "cancel" => hold[o] = "authorized"
          /\ e.pc = "commit" => hold[o] = "cancelled"
      BY <1>1, <2>1 DEF OrderlyInv, Expiring, IInv, ExpireLocks
    <2>4. CASE LockOrder(j)
      <3>1. e.pc = "lock" /\ UNCHANGED <<session, payment, hold, order>>
        BY <2>4 DEF LockOrder, rows
      <3>2. \/ ExpireEnds(j)
            \/ /\ ~OrderLocked(o) /\ order[o] = "open"
               /\ LET live == LivePayments(o) IN
                  \E p \in IF live = {} THEN {None} ELSE live :
                    expire' = [expire EXCEPT ![j] = [@ EXCEPT
                        !.pc = IF p = None THEN "commit" ELSE "cancel",
                        !.order = o, !.payment = p]]
        BY <1>1, <2>1, <2>2, <2>4 DEF LockOrder, MovedOn
      <3>3. CASE ExpireEnds(j)
        <4>1. expire'[j].pc = "idle" /\ \A k \in Jobs : k # j => expire'[k] = expire[k]
          BY <1>1, <3>3 DEF ExpireEnds
        <4>. QED
          BY <1>4, <3>1, <4>1
      <3>4. CASE ~ExpireEnds(j)
        <4>1. Funded(o)
          BY <2>1, <3>2, <3>4 DEF OrderlyInv, Settled, OrderLocked
        <4>2. LivePayments(o) = {o}
          BY <2>1, <2>2, <4>1 DEF LivePayments, PaymentsOf, Funded
        <4>3. expire' = [expire EXCEPT ![j] = [@ EXCEPT !.pc = "cancel", !.order = o, !.payment = o]]
          BY <1>1, <2>1, <3>2, <3>4, <4>2
        <4>4. /\ expire'[j].pc = "cancel" /\ expire'[j].order = o /\ expire'[j].payment = o
              /\ expire'[j].session = o /\ \A k \in Jobs : k # j => expire'[k] = expire[k]
          BY <1>1, <4>3 DEF ExpireMemory
        <4>. QED
          BY <1>4, <2>1, <3>1, <4>1, <4>4 DEF Funded
      <3>. QED
        BY <3>3, <3>4
    <2>5. CASE CancelHold(j)
      <3>1. e.pc = "cancel" /\ e.order = o /\ e.payment = o /\ order[o] = "open" /\ hold[o] = "authorized"
            /\ UNCHANGED <<session, payment, order>>
        BY <2>3, <2>5 DEF CancelHold, rows
      <3>2. \/ ExpireEnds(j) /\ UNCHANGED hold
            \/ /\ hold' = [hold EXCEPT ![o] = "cancelled"]
               /\ expire' = [expire EXCEPT ![j].pc = "commit"]
        BY <2>5, <3>1 DEF CancelHold
      <3>3. CASE ExpireEnds(j) /\ UNCHANGED hold
        <4>1. expire'[j].pc = "idle" /\ \A k \in Jobs : k # j => expire'[k] = expire[k]
          BY <1>1, <3>3 DEF ExpireEnds
        <4>. QED
          BY <1>4, <3>1, <3>3, <4>1
      <3>4. CASE /\ hold' = [hold EXCEPT ![o] = "cancelled"]
                 /\ expire' = [expire EXCEPT ![j].pc = "commit"]
        <4>1. /\ expire'[j].pc = "commit" /\ expire'[j].order = o /\ expire'[j].payment = o
              /\ expire'[j].session = o /\ \A k \in Jobs : k # j => expire'[k] = expire[k]
          BY <1>1, <3>1, <3>4 DEF ExpireMemory
        <4>2. hold'[o] = "cancelled" /\ \A h \in Pays : h # o => hold'[h] = hold[h]
          BY <1>1, <2>1, <3>4
        <4>3. session[o] = "active" /\ payment[o] = "authorized"
          BY <2>1, <3>1 DEF OrderlyInv, Settled, Funded
        <4>4. Trying' /\ OnlyOne'
          BY <1>2, <2>1, <3>1, <4>2, OrderMade DEF OrderlyInv, Trying, OnlyOne, Running, Opened
        <4>5. \A v \in Vendors : accept[v].pc = "idle"
          BY <2>2, <3>1 DEF IInv, AcceptOwns
        <4>6. Accepting'
          BY <1>2, <4>5 DEF Accepting
        <4>7. \A k \in Jobs : k # j => expire[k].pc \notin {"cancel", "commit"}
          BY <2>1, <2>2, <3>1, <1>1 DEF IInv, LocksExclusive, ExpireLocks, OrderlyInv, Expiring
        <4>8. Expiring'
          BY <2>1, <3>1, <4>1, <4>7 DEF OrderlyInv, Expiring
        <4>9. Settled'
          BY <2>2, <3>1, <4>1, <4>3 DEF Settled
        <4>. QED
          BY <4>4, <4>6, <4>8, <4>9 DEF OrderlyInv
      <3>. QED
        BY <3>2, <3>3, <3>4
    <2>6. CASE CommitExpiry(j)
      <3>1. /\ e.pc = "commit" /\ e.order = o /\ e.payment = o /\ order[o] = "open" /\ o # None
            /\ hold[o] = "cancelled"
        BY <1>1, <2>1, <2>3, <2>6 DEF CommitExpiry
      <3>2. /\ payment' = [payment EXCEPT ![o] = "cancelled"]
            /\ order' = [order EXCEPT ![o] = "cancelled"]
            /\ session' = [session EXCEPT ![o] = "expired"]
            /\ ExpireEnds(j) /\ UNCHANGED hold
        BY <2>6, <3>1 DEF CommitExpiry
      <3>3. /\ payment'[o] = "cancelled" /\ order'[o] = "cancelled" /\ session'[o] = "expired"
            /\ \A q \in Pays : q # o => /\ payment'[q] = payment[q] /\ order'[q] = order[q]
                                        /\ session'[q] = session[q]
        BY <1>1, <2>1, <3>2
      <3>4. expire'[j].pc = "idle" /\ \A k \in Jobs : k # j => expire'[k] = expire[k]
        BY <1>1, <3>2 DEF ExpireEnds
      <3>5. \A v \in Vendors : accept[v].pc = "idle"
        BY <2>2, <3>1 DEF IInv, AcceptOwns
      <3>6. \A k \in Jobs : k # j => expire[k].pc \notin {"cancel", "commit"}
        BY <2>1, <2>2, <3>1, <1>1 DEF IInv, LocksExclusive, ExpireLocks, OrderlyInv, Expiring
      <3>7. Trying'
        BY <1>2, <2>1, OrderMade, <3>2, <3>3 DEF OrderlyInv, Trying, Running, Opened
      <3>8. OnlyOne'
        <4>1. \A h \in Pays : hold[h] # "none" => h = o
          BY <2>1, OrderMade
        <4>2. \A h \in Pays : hold[h] # "requires_action"
          BY DEF OrderlyInv, OnlyOne
        <4>3. paidUnder[o] = o
          BY <2>1, <2>2, <3>1 DEF OrderlyInv, Settled, Funded
        <4>. QED
          BY <1>2, <2>1, <2>2, <3>2, <3>3, <4>1, <4>2, <4>3 DEF OnlyOne
      <3>9. Accepting'
        BY <1>2, <3>5 DEF Accepting
      <3>10. Expiring'
        BY <2>2, <3>3, <3>4, <3>6 DEF OrderlyInv, Expiring
      <3>11. Settled'
        BY <2>2, <3>3 DEF Settled
      <3>. QED
        BY <3>7, <3>8, <3>9, <3>10, <3>11 DEF OrderlyInv
    <2>. QED
      BY <1>6, <2>4, <2>5, <2>6 DEF ExpireRuns
  <1>. QED
    BY <1>5, <1>6

\* While nothing has disturbed the checkout, a quote has one order and its money
\* is where the order says, for any number of requests, vendors and job runs.
THEOREM OrderlyInvariance == Spec => [](~disturbed => OrderlyInv)
  <1>1. Init => OrderlyInv
    BY DEF Init, OrderlyInv, Trying, OnlyOne, Settled, Accepting, Expiring, Running, Opened
  <1>2. IInv /\ (~disturbed => OrderlyInv) /\ [Next]_vars => (~disturbed => OrderlyInv)'
    <2>. SUFFICES ASSUME IInv, ~disturbed => OrderlyInv, [Next]_vars, ~disturbed'
                  PROVE  OrderlyInv'
      OBVIOUS
    <2>0. ~disturbed /\ OrderlyInv /\ (UNCHANGED vars \/ (Runs /\ ~Disorder'))
      <3>1. CASE UNCHANGED vars
        BY <3>1 DEF vars
      <3>2. CASE Runs /\ disturbed' = (disturbed \/ Disorder')
        <4>1. ~disturbed /\ ~Disorder'
          BY <3>2
        <4>. QED
          BY <3>2, <4>1
      <3>3. CASE Dies /\ disturbed' = TRUE
        BY <3>3
      <3>. QED
        BY <3>1, <3>2, <3>3 DEF Next
    <2>1. ~Customer
      <3>1. SUFFICES ASSUME NEW h \in Pays, NEW x \in {"authorized", "failed"}, CompleteAction(h, x)
                     PROVE  FALSE
        BY DEF Customer
      <3>2. order[h] # "none" /\ hold[h] = "requires_action"
        BY <2>0, <3>1 DEF CompleteAction, OrderlyInv, OnlyOne
      <3>. QED
        BY <2>0, <3>2 DEF OrderlyInv, OnlyOne
    <2>2. CASE UNCHANGED vars
      BY <2>0, <2>2 DEF vars, codeVars, OrderlyInv, Trying, OnlyOne, Settled, Accepting, Expiring, Running,
                  Funded, FirstAttempt
    <2>. QED
      BY <2>0, <2>1, <2>2, OrderlyPay, OrderlyAccept, OrderlyExpire DEF Runs
  <1>. QED
    BY <1>1, <1>2, Invariance, PTL DEF Spec

\* A quote is never authorized twice, nor ordered twice, until the customer's
\* requests overlap, one of them dies or the card needs 3D Secure.
THEOREM AuthorizesOnce == Spec => []AuthorizedOnce
  <1>1. IInv /\ (~disturbed => OrderlyInv) => AuthorizedOnce
    <2>. SUFFICES ASSUME IInv, ~disturbed, OrderlyInv PROVE AuthorizedOnce
      BY DEF AuthorizedOnce
    <2>. DEFINE Held == {h \in Pays : hold[h] \in {"authorized", "captured"}}
    <2>1. ASSUME NEW S, \A x, y \in S : x = y
          PROVE  Cardinality(S) <= 1
      <3>1. CASE S = {}
        BY <3>1, FS_EmptySet
      <3>2. CASE S # {}
        <4>1. PICK x \in S : S = {x}
          BY <2>1, <3>2
        <4>2. Cardinality({x}) = 1
          BY FS_Singleton
        <4>. QED
          BY <4>1, <4>2
      <3>. QED
        BY <3>1, <3>2
    <2>2. \A g, h \in Held : g = h
      <3>1. SUFFICES ASSUME NEW g \in Pays, NEW h \in Pays, hold[g] # "none", hold[h] # "none"
                     PROVE  g = h
        OBVIOUS
      <3>2. CASE \E o \in Pays : order[o] # "none"
        BY <3>1, <3>2, OrderMade
      <3>3. CASE \A o \in Pays : order[o] = "none"
        <4>1. Running(g) /\ Running(h)
          BY <3>1, <3>3 DEF OrderlyInv, OnlyOne, Running
        <4>. QED
          BY <4>1 DEF OrderlyInv, Trying
      <3>. QED
        BY <3>2, <3>3
    <2>3. \A o, q \in Orders : o = q
      BY DEF OrderlyInv, OnlyOne, Orders
    <2>. QED
      BY <2>1, <2>2, <2>3 DEF AuthorizedOnce
  <1>. QED
    BY <1>1, Invariance, OrderlyInvariance, PTL

\* Until then every order a vendor can claim has its money behind
\* it (finalizeAuthorization, expireCheckoutSession).
THEOREM OpenOrdersFunded == Spec => []OpenOrderFunded
  <1>1. IInv /\ (~disturbed => OrderlyInv) => OpenOrderFunded
    <2>. SUFFICES ASSUME IInv, OrderlyInv, NEW o \in Pays, order[o] = "open", ~OrderLocked(o)
                  PROVE  \E p \in Pays : /\ payment[p] = "authorized" /\ hold[p] = "authorized"
                                         /\ session[paidUnder[p]] = "active"
      BY DEF OpenOrderFunded
    <2>1. Funded(o)
      BY DEF OrderlyInv, Settled, OrderLocked
    <2>2. paidUnder[o] = o
      BY <2>1 DEF OrderlyInv, OnlyOne, Funded
    <2>. QED
      BY <2>1, <2>2 DEF Funded
  <1>. QED
    BY <1>1, Invariance, OrderlyInvariance, PTL

\* And an acceptance that has ended was paid, unless an earlier attempt of the
\* customer's was declined (captureCheckoutSession reads any session of the quote).
THEOREM PaysAtFirst == Spec => []PaidAtFirst
  <1>1. (~disturbed => OrderlyInv) => PaidAtFirst
    BY DEF OrderlyInv, Settled, PaidAtFirst, AcceptedIsPaid
  <1>. QED
    BY <1>1, OrderlyInvariance, PTL
=============================================================================
