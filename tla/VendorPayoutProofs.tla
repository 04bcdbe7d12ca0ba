------------------------- MODULE VendorPayoutProofs -------------------------
(***************************************************************************)
(* Proofs about VendorPayout, for any number of payouts and attempts.      *)
(* Types hold of everything; that the money goes out once holds until one  *)
(* of the things that Crosses names has happened.                          *)
(***************************************************************************)
EXTENDS VendorPayout, FiniteSetTheorems, TLAPS

(***************************************************************************)
(* The invariant of the rows, however many runs overlap.                   *)
(***************************************************************************)

\* A run that is doing something holds a payout, and why it is about to hold or
\* to fail it.
JobKnows ==
    \A j \in Jobs :
        /\ job[j].pc # "idle" => job[j].payout \in Payouts
        /\ job[j].pc = "claim" => job[j].note \in HoldReasons \cup {"none"}
        /\ job[j].pc = "fail" => job[j].note \in Failures

\* Only the payout of a delivered order is claimed.
ClaimsDelivered ==
    /\ \A j \in Jobs : job[j].pc = "claim" => order[job[j].payout] # "accepted"
    /\ \A p \in Payouts : payout[p].status = "processing" => order[p] # "accepted"

Row == [status : Status, attempt : Attempts, provider : AllRails,
        hold : HoldReasons \cup {"none"}, failure : Failures \cup {"none"},
        handed : BOOLEAN, eligible : BOOLEAN]

Memory == [pc : JobSteps, payout : Payouts \cup {None}, attempt : Attempts,
           provider : AllRails, rail : AllRails, flagged : BOOLEAN,
           note : HoldReasons \cup Failures \cup {"none", "handed", "paid", "processing"}]

\* The type invariant, with names for the kinds of row and of memory.
Typed ==
    /\ payout \in [Payouts -> Row]
    /\ vendor \in [rail : AllRails, error : BOOLEAN, enabled : BOOLEAN]
    /\ order \in [Payouts -> {"accepted", "delivered", "refunded"}]
    /\ concerns \in [Payouts -> SUBSET Concerns]
    /\ transfer \in [Payouts -> [AllRails -> [Attempts -> TransferStates]]]
    /\ account \in BOOLEAN
    /\ events \subseteq [payout : Payouts, attempt : Attempts, type : EventTypes]
    /\ job \in [Jobs -> Memory]
    /\ connect \in [pc : {"idle", "save", "requeue"}, to : AllRails, flagged : BOOLEAN]

RowInv == Typed /\ JobKnows /\ ClaimsDelivered

-----------------------------------------------------------------------------
\* A run's memory without a payout in it is well typed.
LEMMA IdleTyped == IdleJob \in Memory
  BY PayoutAssumption DEF IdleJob, Memory, JobSteps, AllRails, Attempts

\* A re-queued row is a row, if there is an attempt left.
LEMMA RequeuedTyped ==
  ASSUME NEW row \in Row, Requeued(row).attempt <= MaxAttempts
  PROVE  /\ Requeued(row) \in Row
         /\ Requeued(row).status = "pending"
         /\ Requeued(row).provider = row.provider
         /\ Requeued(row).attempt = IF row.status = "failed" THEN row.attempt + 1
                                    ELSE row.attempt
  <1>. DEFINE n == IF row.status = "failed" THEN row.attempt + 1 ELSE row.attempt
              h == IF row.status = "failed" THEN FALSE ELSE row.handed
  <1>1. Requeued(row) = [row EXCEPT !.status = "pending", !.eligible = TRUE,
                                    !.hold = "none", !.failure = "none",
                                    !.attempt = n, !.handed = h]
    BY Zenon DEF Requeued, Row
  <1>2. row.attempt \in 1 .. MaxAttempts /\ row.handed \in BOOLEAN /\ row.provider \in AllRails
    BY DEF Row, Attempts
  <1>. HIDE DEF n, h
  <1>3. Requeued(row).attempt = n
    BY <1>1 DEF Row
  <1>4. n \in Attempts
    BY <1>2, <1>3, PayoutAssumption DEF n, Attempts
  <1>5. h \in BOOLEAN
    BY <1>2 DEF h
  <1>6. Requeued(row) \in Row /\ Requeued(row).status = "pending"
        /\ Requeued(row).provider = row.provider
    BY <1>1, <1>4, <1>5 DEF Row, Status
  <1>. QED
    BY <1>3, <1>6 DEF n

\* What may be written to one column of a row.
LEMMA RowUpdates ==
  ASSUME NEW row \in Row
  PROVE  /\ \A s \in Status : [row EXCEPT !.status = s] \in Row
         /\ \A s \in Status, h \in HoldReasons \cup {"none"} :
               [row EXCEPT !.status = s, !.hold = h] \in Row
         /\ \A s \in Status, r \in AllRails :
               [row EXCEPT !.status = s, !.provider = r] \in Row
         /\ \A s \in Status, f \in Failures :
               [row EXCEPT !.status = s, !.failure = f] \in Row
         /\ \A s \in Status : [row EXCEPT !.handed = TRUE, !.status = s] \in Row
         /\ \A s \in Status : [row EXCEPT !.status = s, !.handed = TRUE] \in Row
         /\ \A b \in BOOLEAN : [row EXCEPT !.eligible = b] \in Row
         /\ \A s \in Status :
               [row EXCEPT !.status = s, !.hold = "none", !.eligible = TRUE] \in Row
         /\ \A s \in Status, f \in Failures \cup {"none"} :
               [row EXCEPT !.handed = TRUE, !.status = s, !.failure = f] \in Row
  BY DEF Row

\* What a run holds after it loaded its payout.
LEMMA LoadedTyped ==
  ASSUME NEW m \in Memory, NEW pc \in JobSteps, NEW a \in Attempts, NEW r \in AllRails,
         NEW v \in AllRails, NEW f \in BOOLEAN, NEW n \in {"none", "handed"}
  PROVE  [m EXCEPT !.pc = pc, !.attempt = a, !.provider = r, !.rail = v, !.flagged = f,
                   !.note = n] \in Memory
  BY DEF Memory

\* What the program starts with.
LEMMA InitRows == Init => RowInv
  <1>. SUFFICES ASSUME Init PROVE RowInv
    OBVIOUS
  <1>1. vendor \in [rail : AllRails, error : BOOLEAN, enabled : BOOLEAN]
    BY PayoutAssumption DEF Init
  <1>2. payout \in [Payouts -> Row]
    <2>1. 1 \in Attempts /\ vendor.rail \in AllRails
      BY <1>1, PayoutAssumption DEF Attempts
    <2>2. [status |-> "pending", attempt |-> 1, provider |-> vendor.rail, hold |-> "none",
           failure |-> "none", handed |-> FALSE, eligible |-> FALSE] \in Row
      BY <2>1 DEF Row, Status
    <2>. QED
      BY <2>2 DEF Init
  <1>3. job \in [Jobs -> Memory]
    BY IdleTyped DEF Init
  <1>4. connect \in [pc : {"idle", "save", "requeue"}, to : AllRails, flagged : BOOLEAN]
    BY DEF Init, AllRails
  <1>5. Typed
    BY <1>1, <1>2, <1>3, <1>4 DEF Init, Typed, TransferStates
  <1>6. JobKnows /\ ClaimsDelivered
    BY DEF Init, JobKnows, ClaimsDelivered, IdleJob
  <1>. QED
    BY <1>5, <1>6 DEF RowInv

\* Steps outside the job: of the order, an administrator, PayPal, the vendor.
LEMMA OrderRows ==
  ASSUME RowInv, NEW p \in Payouts, OrderNext(p)
  PROVE  RowInv'
  <1>. USE DEF RowInv, Typed, JobKnows, ClaimsDelivered
  <1>1. CASE Deliver(p)
    <2>1. [payout[p] EXCEPT !.eligible = (payout[p].status = "pending")] \in Row
      BY RowUpdates
    <2>2. payout' \in [Payouts -> Row]
      BY <1>1, <2>1 DEF Deliver
    <2>. QED
      BY <1>1, <2>2 DEF Deliver, Row
  <1>2. CASE RefundInFull(p)
    BY <1>2 DEF RefundInFull, Concerns
  <1>3. CASE CloseDispute(p)
    BY <1>3 DEF CloseDispute
  <1>4. ASSUME NEW c \in Concerns, RaiseConcern(p, c) PROVE RowInv'
    BY <1>4 DEF RaiseConcern
  <1>. QED
    BY <1>1, <1>2, <1>3, <1>4 DEF OrderNext

LEMMA AdminRows ==
  ASSUME RowInv, NEW p \in Payouts, AdminNext(p)
  PROVE  RowInv'
  <1>. USE DEF RowInv, Typed, JobKnows, ClaimsDelivered
  <1>1. CASE Release(p)
    <2>1. [payout[p] EXCEPT !.status = "pending", !.hold = "none", !.eligible = TRUE] \in Row
      BY RowUpdates DEF Status
    <2>2. payout' \in [Payouts -> Row]
      BY <1>1, <2>1 DEF Release
    <2>. QED
      BY <1>1, <2>2 DEF Release, Row
  <1>2. CASE CancelPayout(p)
    <2>1. [payout[p] EXCEPT !.status = "cancelled"] \in Row
      BY RowUpdates DEF Status
    <2>2. payout' \in [Payouts -> Row]
      BY <1>2, <2>1 DEF CancelPayout
    <2>. QED
      BY <1>2, <2>2 DEF CancelPayout, world, Row
  <1>3. CASE RetryFailed(p)
    <2>1. payout[p] \in Row /\ Requeued(payout[p]).attempt <= MaxAttempts
      BY <1>3, PayoutAssumption DEF RetryFailed, Row, Attempts, Requeued
    <2>2. Requeued(payout[p]) \in Row /\ Requeued(payout[p]).status = "pending"
      BY <2>1, RequeuedTyped
    <2>. QED
      BY <1>3, <2>2 DEF RetryFailed, world, Row
  <1>. QED
    BY <1>1, <1>2, <1>3 DEF AdminNext

\* Re-queueing what was blocked leaves rows of their kind.
LEMMA RequeueRows ==
  ASSUME Typed, RequeueBlocked
  PROVE  /\ payout' \in [Payouts -> Row]
         /\ \A p \in Payouts : payout'[p].status = "processing" => payout[p].status = "processing"
  <1>1. ASSUME NEW p \in Payouts, Requeued(payout[p]).attempt <= MaxAttempts
        PROVE  Requeued(payout[p]) \in Row /\ Requeued(payout[p]).status = "pending"
    BY <1>1, RequeuedTyped DEF Typed
  <1>. QED
    BY <1>1 DEF RequeueBlocked, Typed

LEMMA PaypalRows ==
  ASSUME RowInv, PaypalNext
  PROVE  RowInv'
  <1>. USE DEF RowInv, Typed, JobKnows, ClaimsDelivered
  <1>1. ASSUME NEW p \in Payouts, NEW a \in Attempts, PaypalSettles(p, a) PROVE RowInv'
    <2>1. PICK outcome \in PaypalOutcomes :
            /\ transfer' = [transfer EXCEPT ![p]["paypal"][a] = outcome[2]]
            /\ events' = events \cup {[payout |-> p, attempt |-> a, type |-> outcome[3]]}
      BY <1>1 DEF PaypalSettles
    <2>2. outcome[2] \in TransferStates /\ outcome[3] \in EventTypes
      BY DEF PaypalOutcomes, TransferStates, EventTypes
    <2>3. UNCHANGED <<payout, vendor, world, job, connect>>
      BY <1>1 DEF PaypalSettles
    <2>4. transfer' \in [Payouts -> [AllRails -> [Attempts -> TransferStates]]]
      BY <2>1, <2>2
    <2>5. events' \subseteq [payout : Payouts, attempt : Attempts, type : EventTypes]
      BY <2>1, <2>2
    <2>. QED
      BY <2>3, <2>4, <2>5 DEF world
  <1>2. ASSUME NEW e \in events, PayoutEvent(e) PROVE RowInv'
    <2>. DEFINE p == e.payout
    <2>1. p \in Payouts /\ e.attempt \in Attempts
      OBVIOUS
    <2>2. /\ events' \subseteq [payout : Payouts, attempt : Attempts, type : EventTypes]
          /\ UNCHANGED <<order, concerns, account, job, connect>>
      BY <1>2 DEF PayoutEvent, world
    <2>3. /\ transfer' \in [Payouts -> [AllRails -> [Attempts -> TransferStates]]]
          /\ vendor' \in [rail : AllRails, error : BOOLEAN, enabled : BOOLEAN]
          /\ payout' \in [Payouts -> Row]
          /\ \A q \in Payouts : payout'[q].status = "processing" => payout[q].status = "processing"
      <3>1. CASE Superseded(e)
        BY <3>1 DEF Superseded
      <3>2. CASE Succeeded(e)
        <4>1. [payout[p] EXCEPT !.status = "paid", !.handed = TRUE] \in Row
          BY <2>1, RowUpdates DEF Status
        <4>2. payout' \in [Payouts -> Row]
          BY <2>1, <3>2, <4>1 DEF Succeeded
        <4>3. \A q \in Payouts : payout'[q].status = "processing" => payout[q].status = "processing"
          BY <2>1, <3>2 DEF Succeeded, Row
        <4>. QED
          BY <3>2, <4>2, <4>3 DEF Succeeded
      <3>3. ASSUME NEW kind \in Failures, Unsuccessful(e, kind)
            PROVE  /\ transfer' \in [Payouts -> [AllRails -> [Attempts -> TransferStates]]]
                   /\ vendor' \in [rail : AllRails, error : BOOLEAN, enabled : BOOLEAN]
                   /\ payout' \in [Payouts -> Row]
                   /\ \A q \in Payouts : payout'[q].status = "processing" => payout[q].status = "processing"
        <4>. DEFINE fails == payout[p].status \in {"processing", "paid"}
                    s == IF fails THEN "failed" ELSE payout[p].status
                    f == IF fails THEN kind ELSE payout[p].failure
        <4>1. payout' = [payout EXCEPT ![p] =
                 [payout[p] EXCEPT !.handed = TRUE, !.status = s, !.failure = f]]
          BY <2>1, <3>3 DEF Unsuccessful
        <4>2. s \in Status /\ f \in Failures \cup {"none"}
          BY <2>1 DEF Row, Status
        <4>3. s = "processing" => payout[p].status = "processing"
          OBVIOUS
        <4>. HIDE DEF s, f
        <4>4. [payout[p] EXCEPT !.handed = TRUE, !.status = s, !.failure = f] \in Row
          BY <2>1, <4>2, RowUpdates
        <4>5. payout' \in [Payouts -> Row]
          BY <2>1, <4>1, <4>4
        <4>6. \A q \in Payouts : payout'[q].status = "processing" => payout[q].status = "processing"
          BY <2>1, <4>1, <4>3 DEF Row
        <4>7. transfer' \in [Payouts -> [AllRails -> [Attempts -> TransferStates]]]
          <5>1. \/ UNCHANGED transfer
                \/ \E x \in {"back", "kept"} :
                      transfer' = [transfer EXCEPT ![p]["paypal"][e.attempt] = x]
            BY <3>3 DEF Unsuccessful
          <5>2. {"back", "kept"} \subseteq TransferStates /\ "paypal" \in AllRails
            BY DEF TransferStates, AllRails
          <5>3. e.attempt \in Attempts /\ p \in Payouts
            BY <2>1
          <5>4. CASE UNCHANGED transfer
            BY <5>4
          <5>5. ASSUME NEW a \in Attempts, NEW q \in Payouts, NEW x \in {"back", "kept"},
                       transfer' = [transfer EXCEPT ![q]["paypal"][a] = x]
                PROVE  transfer' \in [Payouts -> [AllRails -> [Attempts -> TransferStates]]]
            BY <5>2, <5>5
          <5>6. CASE \E x \in {"back", "kept"} :
                       transfer' = [transfer EXCEPT ![p]["paypal"][e.attempt] = x]
            <6>1. PICK x \in {"back", "kept"} :
                    transfer' = [transfer EXCEPT ![p]["paypal"][e.attempt] = x]
              BY <5>6
            <6>. HIDE DEF p
            <6>. QED
              BY <5>3, <5>5, <6>1
          <5>. QED
            BY <5>1, <5>4, <5>6
        <4>8. vendor' \in [rail : AllRails, error : BOOLEAN, enabled : BOOLEAN]
          BY <3>3 DEF Unsuccessful
        <4>. QED
          BY <4>5, <4>6, <4>7, <4>8
      <3>. QED
        BY <1>2, <3>1, <3>2, <3>3 DEF PayoutEvent
    <2>. QED
      BY <2>2, <2>3
  <1>. QED
    BY <1>1, <1>2 DEF PaypalNext

LEMMA VendorRows ==
  ASSUME RowInv, VendorNext
  PROVE  RowInv'
  <1>. USE DEF RowInv, Typed, JobKnows, ClaimsDelivered, world
  <1>1. CASE RestrictAccount \/ RestoreAccount
    BY <1>1 DEF RestrictAccount, RestoreAccount
  <1>2. CASE StartStripe
    BY <1>2 DEF StartStripe, AllRails
  <1>3. ASSUME NEW to \in Rails, LoadVendor(to) PROVE RowInv'
    BY <1>3, PayoutAssumption DEF LoadVendor
  <1>4. CASE SaveMethod
    <2>1. vendor' \in [rail : AllRails, error : BOOLEAN, enabled : BOOLEAN]
      BY <1>4 DEF SaveMethod, AllRails
    <2>2. connect' \in [pc : {"idle", "save", "requeue"}, to : AllRails, flagged : BOOLEAN]
      BY <1>4 DEF SaveMethod
    <2>. QED
      BY <1>4, <2>1, <2>2 DEF SaveMethod
  <1>5. CASE RequeueAfterFix
    BY <1>5, RequeueRows DEF RequeueAfterFix, Row
  <1>6. CASE ConnectCrash
    BY <1>6 DEF ConnectCrash
  <1>. QED
    BY <1>1, <1>2, <1>3, <1>4, <1>5, <1>6 DEF VendorNext

\* A step of one run: what it must show of its memory and of the rows it leaves.
LEMMA OneRunSteps ==
  ASSUME RowInv, NEW j \in Jobs, NEW m \in Memory, job' = [job EXCEPT ![j] = m],
         payout' \in [Payouts -> Row],
         vendor' \in [rail : AllRails, error : BOOLEAN, enabled : BOOLEAN],
         transfer' \in [Payouts -> [AllRails -> [Attempts -> TransferStates]]],
         UNCHANGED <<world, events, connect>>,
         m.pc # "idle" => m.payout \in Payouts,
         m.pc = "claim" => m.note \in HoldReasons \cup {"none"} /\ order[m.payout] # "accepted",
         m.pc = "fail" => m.note \in Failures,
         \A q \in Payouts : payout'[q].status = "processing" =>
                              payout[q].status = "processing" \/ order[q] # "accepted"
  PROVE  RowInv'
  <1>1. /\ job' \in [Jobs -> Memory] /\ job'[j] = m
        /\ \A k \in Jobs : k # j => job'[k] = job[k]
    BY DEF RowInv, Typed
  <1>2. Typed'
    BY <1>1 DEF RowInv, Typed, world
  <1>3. JobKnows'
    BY <1>1 DEF RowInv, JobKnows
  <1>4. ClaimsDelivered'
    BY <1>1 DEF RowInv, ClaimsDelivered, world
  <1>. QED
    BY <1>2, <1>3, <1>4 DEF RowInv

\* What a run may note.
Notes == HoldReasons \cup Failures \cup {"none", "handed", "paid", "processing"}

\* A run that goes on to another step keeps the rest of its memory.
LEMMA StepMemory ==
  ASSUME NEW m \in Memory, NEW pc \in JobSteps, NEW n, n = [m EXCEPT !.pc = pc]
  PROVE  n \in Memory /\ n.pc = pc /\ n.payout = m.payout /\ n.note = m.note
  <1>1. n \in Memory
    BY ONLY m \in Memory, pc \in JobSteps, n = [m EXCEPT !.pc = pc] DEF Memory
  <1>2. n.pc = pc /\ n.payout = m.payout /\ n.note = m.note
    BY ONLY m \in Memory, n = [m EXCEPT !.pc = pc] DEF Memory
  <1>. QED
    BY <1>1, <1>2

\* Steps of a run of the job, however many runs overlap.
LEMMA JobRows ==
  ASSUME RowInv, NEW j \in Jobs, JobNext(j)
  PROVE  RowInv'
  <1>. DEFINE p == job[j].payout
  <1>0. /\ IdleJob \in Memory /\ IdleJob.pc = "idle"
        /\ payout \in [Payouts -> Row] /\ job \in [Jobs -> Memory] /\ job[j] \in Memory
        /\ vendor \in [rail : AllRails, error : BOOLEAN, enabled : BOOLEAN]
        /\ transfer \in [Payouts -> [AllRails -> [Attempts -> TransferStates]]]
    BY IdleTyped DEF IdleJob, RowInv, Typed
  <1>b. job[j] \in Memory
    BY <1>0
  <1>a. /\ job[j].pc # "idle" => p \in Payouts
        /\ job[j].pc = "claim" => job[j].note \in HoldReasons \cup {"none"} /\ order[p] # "accepted"
        /\ job[j].pc = "fail" => job[j].note \in Failures
        /\ job[j].rail \in AllRails /\ job[j].provider \in AllRails /\ job[j].attempt \in Attempts
    BY <1>0 DEF RowInv, JobKnows, ClaimsDelivered, Memory
  <1>1. ASSUME NEW q \in Payouts, CancelForDeadOrder(j, q) PROVE RowInv'
    <2>1. [payout[q] EXCEPT !.status = "cancelled"] \in Row
      BY <1>0, RowUpdates DEF Status
    <2>2. payout' = [payout EXCEPT ![q] = [payout[q] EXCEPT !.status = "cancelled"]]
      BY <1>1 DEF CancelForDeadOrder
    <2>3. payout' \in [Payouts -> Row]
          /\ \A r \in Payouts : payout'[r].status = "processing" => payout[r].status = "processing"
      BY <1>0, <2>1, <2>2 DEF Row
    <2>4. UNCHANGED <<vendor, world, transfer, events, job, connect>>
      BY <1>1 DEF CancelForDeadOrder
    <2>. QED
      BY <2>3, <2>4 DEF RowInv, Typed, JobKnows, ClaimsDelivered, world
  <1>2. ASSUME NEW q \in Payouts, ReadClaim(j, q) PROVE RowInv'
    <2>. DEFINE m == [job[j] EXCEPT !.pc = "claim", !.payout = q, !.rail = vendor.rail,
                                    !.note = HoldReason(q)]
    <2>1. HoldReason(q) \in HoldReasons \cup {"none"}
      BY DEF HoldReason, HoldReasons, Concerns
    <2>2. vendor.rail \in AllRails /\ "claim" \in JobSteps
      BY <1>0 DEF JobSteps
    <2>3. m \in Memory /\ m.pc = "claim" /\ m.payout = q /\ m.note = HoldReason(q)
      <3>1. HoldReason(q) \in Notes
        BY <2>1 DEF Notes
      <3>2. m = [job[j] EXCEPT !.pc = "claim", !.payout = q, !.rail = vendor.rail,
                               !.note = HoldReason(q)]
        OBVIOUS
      <3>. HIDE DEF m
      <3>. QED
        BY ONLY <1>b, <2>2, <3>1, <3>2, q \in Payouts DEF Memory, Notes
    <2>4. /\ job' = [job EXCEPT ![j] = m] /\ order[q] = "delivered"
          /\ UNCHANGED <<payout, vendor, world, transfer, events, connect>>
      BY <1>2 DEF ReadClaim
    <2>. HIDE DEF m
    <2>. QED
      BY <1>0, <2>1, <2>3, <2>4, OneRunSteps
  <1>3. ASSUME NEW q \in Payouts, ListStuck(j, q) PROVE RowInv'
    <2>. DEFINE m == [job[j] EXCEPT !.pc = "reload", !.payout = q]
    <2>0. "reload" \in JobSteps
      BY DEF JobSteps
    <2>1. m \in Memory /\ m.pc = "reload" /\ m.payout = q
      <3>1. m = [job[j] EXCEPT !.pc = "reload", !.payout = q]
        OBVIOUS
      <3>. HIDE DEF m
      <3>. QED
        BY ONLY <1>b, <2>0, <3>1, q \in Payouts DEF Memory
    <2>2. /\ job' = [job EXCEPT ![j] = m]
          /\ UNCHANGED <<payout, vendor, world, transfer, events, connect>>
      BY <1>3 DEF ListStuck
    <2>. HIDE DEF m
    <2>. QED
      BY <1>0, <2>1, <2>2, OneRunSteps
  <1>4. CASE CommitClaim(j)
    <2>1. /\ p \in Payouts /\ order[p] # "accepted" /\ payout[p] \in Row
          /\ job[j].note \in HoldReasons \cup {"none"}
          /\ UNCHANGED <<vendor, world, transfer, events, connect>>
      BY <1>0, <1>a, <1>4 DEF CommitClaim
    <2>2. CASE job[j].note # "none"
      <3>. DEFINE row == [payout[p] EXCEPT !.status = "held", !.hold = job[j].note]
      <3>1. payout' = [payout EXCEPT ![p] = row] /\ job' = [job EXCEPT ![j] = IdleJob]
        BY <1>4, <2>2 DEF CommitClaim, JobEnds
      <3>2. row \in Row
        BY <2>1, RowUpdates DEF Status
      <3>3. row.status # "processing"
        BY <2>1 DEF Row
      <3>. HIDE DEF row
      <3>4. payout' \in [Payouts -> Row]
            /\ \A q \in Payouts : payout'[q].status = "processing" => payout[q].status = "processing"
        BY <1>0, <2>1, <3>1, <3>2, <3>3
      <3>. QED
        BY <1>0, <2>1, <3>1, <3>4, OneRunSteps
    <2>3. CASE job[j].note = "none"
      <3>. DEFINE row == [payout[p] EXCEPT !.status = "processing", !.provider = job[j].rail]
                  m == [job[j] EXCEPT !.pc = "load"]
      <3>1. payout' = [payout EXCEPT ![p] = row] /\ job' = [job EXCEPT ![j] = m]
        BY <1>4, <2>3 DEF CommitClaim, JobStep
      <3>2. row \in Row
        BY <1>a, <2>1, RowUpdates DEF Status
      <3>0. "load" \in JobSteps
        BY DEF JobSteps
      <3>3. m \in Memory /\ m.pc = "load" /\ m.payout = p
        <4>1. m = [job[j] EXCEPT !.pc = "load"]
          OBVIOUS
        <4>. HIDE DEF m
        <4>. QED
          BY ONLY <1>b, <3>0, <4>1, StepMemory
      <3>. HIDE DEF row, m
      <3>4. payout' \in [Payouts -> Row] /\ \A q \in Payouts : q # p => payout'[q] = payout[q]
        BY <1>0, <2>1, <3>1, <3>2
      <3>. QED
        BY <1>0, <2>1, <3>1, <3>3, <3>4, OneRunSteps
    <2>. QED
      BY <2>2, <2>3
  <1>5. CASE Load(j)
    <2>. DEFINE row == payout[p]
                pc == IF job[j].pc = "reload" THEN "lookup" ELSE FirstCall(row.provider)
                note == IF row.handed THEN "handed" ELSE "none"
                m == [job[j] EXCEPT !.pc = pc, !.attempt = row.attempt,
                        !.provider = row.provider, !.rail = vendor.rail,
                        !.flagged = vendor.error, !.note = note]
    <2>1. p \in Payouts /\ row \in Row
      BY <1>0, <1>a, <1>5 DEF Load
    <2>2. pc \in {"lookup", "refresh", "send"}
      BY DEF FirstCall
    <2>3. row.attempt \in Attempts /\ row.provider \in AllRails
      BY <2>1 DEF Row
    <2>4. vendor.rail \in AllRails /\ vendor.error \in BOOLEAN
      BY <1>0
    <2>5. job' = [job EXCEPT ![j] = m] /\ UNCHANGED <<payout, vendor, world, transfer, events, connect>>
      BY <1>5 DEF Load
    <2>6. note \in {"handed", "none"} /\ pc \in JobSteps
      BY <2>2 DEF JobSteps
    <2>3a. payout[p].attempt \in Attempts /\ payout[p].provider \in AllRails
      BY <2>3
    <2>. HIDE DEF pc, note
    <2>7. m \in Memory
      BY ONLY <1>b, <2>3a, <2>4, <2>6, LoadedTyped
    <2>8. m.pc = pc /\ m.payout = p
      BY ONLY <1>0 DEF Memory
    <2>. HIDE DEF m
    <2>. QED
      BY <1>0, <2>1, <2>2, <2>5, <2>7, <2>8, OneRunSteps
  <1>6. CASE LookUp(j) \/ Refresh(j) \/ RequeueInJob(j) \/ Send(j)
    <2>. DEFINE GoesOn(m) ==
                  /\ job' = [job EXCEPT ![j] = m]
                  /\ m.pc # "idle" => m.payout = p
                  /\ m.pc # "claim"
                  /\ m.pc = "fail" => m.note \in Failures
    <2>1. p \in Payouts
      BY <1>a, <1>6 DEF LookUp, Refresh, RequeueInJob, Send
    <2>2. \/ job' = [job EXCEPT ![j] = IdleJob]
          \/ \E pc \in {"refresh", "requeue", "send"} : job' = [job EXCEPT ![j] = [job[j] EXCEPT !.pc = pc]]
          \/ \E n \in {"paid", "processing"} :
                job' = [job EXCEPT ![j] = [job[j] EXCEPT !.pc = "record", !.note = n]]
          \/ \E n \in Failures : job' = [job EXCEPT ![j] = [job[j] EXCEPT !.pc = "fail", !.note = n]]
      BY <1>6 DEF LookUp, Refresh, RequeueInJob, Send, FirstCall, Failures, JobStep, JobEnds
    <2>3. \E m \in Memory : GoesOn(m)
      <3>0. {"refresh", "requeue", "send", "record", "fail"} \subseteq JobSteps
        BY DEF JobSteps
      <3>1. CASE job' = [job EXCEPT ![j] = IdleJob]
        BY <1>0, <3>1
      <3>2. ASSUME NEW pc \in {"refresh", "requeue", "send"},
                   job' = [job EXCEPT ![j] = [job[j] EXCEPT !.pc = pc]]
            PROVE  \E m \in Memory : GoesOn(m)
        <4>. DEFINE m == [job[j] EXCEPT !.pc = pc]
        <4>1. m \in Memory /\ m.pc = pc /\ m.payout = p
          <5>1. m = [job[j] EXCEPT !.pc = pc] /\ pc \in JobSteps
            BY <3>0
          <5>. HIDE DEF m
          <5>. QED
            BY ONLY <1>b, <5>1, StepMemory
        <4>. HIDE DEF m
        <4>. QED
          BY <3>2, <4>1 DEF m
      <3>3. ASSUME NEW pc \in {"record", "fail"}, NEW n \in Failures \cup {"paid", "processing"},
                   pc = "fail" => n \in Failures,
                   job' = [job EXCEPT ![j] = [job[j] EXCEPT !.pc = pc, !.note = n]]
            PROVE  \E m \in Memory : GoesOn(m)
        <4>. DEFINE m == [job[j] EXCEPT !.pc = pc, !.note = n]
        <4>1. m \in Memory /\ m.pc = pc /\ m.payout = p /\ m.note = n
          <5>1. n \in Notes /\ pc \in JobSteps
            BY <3>0 DEF Notes
          <5>2. m = [job[j] EXCEPT !.pc = pc, !.note = n]
            OBVIOUS
          <5>. HIDE DEF m
          <5>. QED
            BY ONLY <1>b, <5>1, <5>2 DEF Memory, Notes
        <4>. HIDE DEF m
        <4>. QED
          BY <3>3, <4>1 DEF m
      <3>4. CASE \E n \in {"paid", "processing"} :
                    job' = [job EXCEPT ![j] = [job[j] EXCEPT !.pc = "record", !.note = n]]
        BY <3>3, <3>4
      <3>5. CASE \E n \in Failures :
                    job' = [job EXCEPT ![j] = [job[j] EXCEPT !.pc = "fail", !.note = n]]
        BY <3>3, <3>5
      <3>. QED
        BY <2>2, <3>1, <3>2, <3>4, <3>5
    <2>4. PICK m \in Memory : GoesOn(m)
      BY <2>3
    <2>6. UNCHANGED <<world, events, connect>>
      BY <1>6 DEF LookUp, Refresh, RequeueInJob, Send
    <2>7. vendor' \in [rail : AllRails, error : BOOLEAN, enabled : BOOLEAN]
      BY <1>0, <1>6 DEF LookUp, Refresh, RequeueInJob, Send
    <2>8. transfer' \in [Payouts -> [AllRails -> [Attempts -> TransferStates]]]
      <3>1. CASE UNCHANGED transfer
        BY <1>0, <3>1
      <3>2. CASE Send(j) /\ ~UNCHANGED transfer
        <4>1. PICK x \in {"paid", "transit"} :
                transfer' = [transfer EXCEPT ![p][job[j].provider][job[j].attempt] = x]
          BY <3>2 DEF Send
        <4>2. x \in TransferStates
          BY DEF TransferStates
        <4>. QED
          BY <1>0, <1>a, <2>1, <4>1, <4>2
      <3>. QED
        BY <1>6, <3>1, <3>2 DEF LookUp, Refresh, RequeueInJob
    <2>9. /\ payout' \in [Payouts -> Row]
          /\ \A q \in Payouts : payout'[q].status = "processing" => payout[q].status = "processing"
      <3>1. CASE RequeueBlocked
        BY <3>1, RequeueRows DEF RowInv
      <3>2. CASE UNCHANGED payout
        BY <1>0, <3>2
      <3>. QED
        BY <1>6, <3>1, <3>2 DEF LookUp, Refresh, RequeueInJob, Send
    <2>. QED
      BY <2>1, <2>4, <2>6, <2>7, <2>8, <2>9, OneRunSteps
  <1>7. CASE RecordSent(j)
    <2>1. /\ p \in Payouts /\ payout[p] \in Row /\ job' = [job EXCEPT ![j] = IdleJob]
          /\ UNCHANGED <<vendor, world, transfer, events, connect>>
      BY <1>0, <1>a, <1>7 DEF RecordSent, JobEnds
    <2>2. /\ payout' \in [Payouts -> Row]
          /\ \A q \in Payouts : payout'[q].status = "processing" => payout[q].status = "processing"
      <3>1. CASE payout[p].status # "processing"
        BY <1>0, <1>7, <3>1 DEF RecordSent
      <3>2. CASE payout[p].status = "processing"
        <4>. DEFINE s == IF job[j].note = "paid" THEN "paid" ELSE payout[p].status
        <4>1. payout' = [payout EXCEPT ![p] = [payout[p] EXCEPT !.handed = TRUE, !.status = s]]
          BY <1>7, <2>1, <3>2 DEF RecordSent
        <4>2. s \in Status
          BY <3>2 DEF Status
        <4>. HIDE DEF s
        <4>3. [payout[p] EXCEPT !.handed = TRUE, !.status = s] \in Row
          BY <2>1, <4>2, RowUpdates
        <4>. QED
          BY <1>0, <2>1, <3>2, <4>1, <4>3
      <3>. QED
        BY <3>1, <3>2
    <2>. QED
      BY <1>0, <2>1, <2>2, OneRunSteps
  <1>8. CASE RecordFailure(j)
    <2>. DEFINE row == [payout[p] EXCEPT !.status = "failed", !.failure = job[j].note]
    <2>1. /\ p \in Payouts /\ payout[p] \in Row /\ job[j].note \in Failures
          /\ job' = [job EXCEPT ![j] = IdleJob]
          /\ UNCHANGED <<world, transfer, events, connect>>
      BY <1>0, <1>a, <1>8 DEF RecordFailure, JobEnds
    <2>2. row \in Row
      BY <2>1, RowUpdates DEF Status
    <2>3. row.status = "failed"
      BY <2>1 DEF Row
    <2>4. UNCHANGED payout \/ payout' = [payout EXCEPT ![p] = row]
      BY <1>8 DEF RecordFailure, FailPayout
    <2>5. vendor' \in [rail : AllRails, error : BOOLEAN, enabled : BOOLEAN]
      BY <1>0, <1>8 DEF RecordFailure, FailPayout
    <2>. HIDE DEF row
    <2>6. /\ payout' \in [Payouts -> Row]
          /\ \A q \in Payouts : payout'[q].status = "processing" => payout[q].status = "processing"
      <3>1. CASE UNCHANGED payout
        BY <1>0, <3>1
      <3>2. CASE payout' = [payout EXCEPT ![p] = row]
        BY <1>0, <2>1, <2>2, <2>3, <3>2
      <3>. QED
        BY <2>4, <3>1, <3>2
    <2>. QED
      BY <1>0, <2>1, <2>5, <2>6, OneRunSteps
  <1>9. CASE JobCrash(j)
    BY <1>0, <1>9, OneRunSteps DEF JobCrash, JobEnds
  <1>. QED
    BY <1>1, <1>2, <1>3, <1>4, <1>5, <1>6, <1>7, <1>8, <1>9 DEF JobNext

\* The rows, transfers, events and memories stay of their kinds, whatever runs,
\* webhooks, administrators and reconnections do at the same time.
THEOREM RowInvariance == Spec => []RowInv
  <1>1. RowInv /\ [Next]_vars => RowInv'
    <2>. SUFFICES ASSUME RowInv, [Next]_vars PROVE RowInv'
      OBVIOUS
    <2>1. CASE UNCHANGED vars
      BY <2>1 DEF vars, codeVars, RowInv, Typed, JobKnows, ClaimsDelivered
    <2>. QED
      BY <2>1, JobRows, OrderRows, AdminRows, PaypalRows, VendorRows DEF Next, Step
  <1>. QED
    BY <1>1, InitRows, PTL DEF Spec

\* Type correctness.
THEOREM TypeCorrect == Spec => []TypeOK
  <1>1. RowInv => TypeOK
    BY DEF RowInv, Typed, TypeOK, Row, Memory
  <1>. QED
    BY <1>1, RowInvariance, PTL

-----------------------------------------------------------------------------
(***************************************************************************)
(* Where the money is, until something has crossed.                        *)
(***************************************************************************)

Moved(p, r, a) == transfer[p][r][a] # "none"

\* The row is the one the run loaded, and still claimed.
Current(j) ==
    LET row == payout[job[j].payout] IN
    /\ row.status = "processing"
    /\ row.attempt = job[j].attempt /\ row.provider = job[j].provider

\* Money moves under the attempts up to the row's; under the row's attempt only
\* by its provider and after a claim; and of a superseded or ended attempt it is
\* back with the platform.
MoneyKept ==
    \A p \in Payouts, r \in AllRails, a \in Attempts :
        Moved(p, r, a) =>
            /\ a <= payout[p].attempt
            /\ a = payout[p].attempt =>
                 r = payout[p].provider /\ payout[p].status \notin {"pending", "held"}
            /\ (a < payout[p].attempt \/ payout[p].status \in {"failed", "cancelled"}) =>
                 transfer[p][r][a] = "back"

\* An undelivered event is about money that moved, and still true of it.
EventsTrue ==
    \A e \in events :
        LET now == transfer[e.payout]["paypal"][e.attempt] IN
        /\ now # "none"
        /\ e.type = "UNCLAIMED" => now \in {"unclaimed", "arrived", "kept", "back"}
        /\ e.type \in {"FAILED", "RETURNED"} => now = "back"

\* What a run may rely on at each of its steps.
Sure(j) ==
    LET p == job[j].payout
        moved == Moved(p, job[j].provider, job[j].attempt) IN
    /\ job[j].pc = "claim" => payout[p].status = "pending"
    /\ job[j].pc \in {"load", "reload"} => payout[p].status = "processing"
    /\ job[j].pc = "load" => \A r \in AllRails : ~Moved(p, r, payout[p].attempt)
    /\ job[j].pc \in {"lookup", "send"} => Current(j) \/ moved
    /\ job[j].pc \in {"refresh", "requeue", "fail"} => Current(j) /\ ~moved

Certain == \A j \in Jobs : Sure(j)

MoneyInv == MoneyKept /\ EventsTrue /\ Certain

\* What may happen to a row outside of sending: nothing that matters here, a
\* failed or held payout becomes due again, or one not claimed is cancelled.
Quiet(q) ==
    /\ payout'[q].provider = payout[q].provider
    /\ \/ payout'[q].status = payout[q].status /\ payout'[q].attempt = payout[q].attempt
       \/ /\ payout[q].status = "failed" /\ payout'[q].status = "pending"
          /\ payout'[q].attempt = payout[q].attempt + 1
       \/ /\ payout[q].status = "held" /\ payout'[q].status = "pending"
          /\ payout'[q].attempt = payout[q].attempt
       \/ /\ payout[q].status \in {"pending", "held", "failed"}
          /\ payout'[q].status = "cancelled"
          /\ payout'[q].attempt = payout[q].attempt

\* A quiet step keeps the money where it should be,
LEMMA QuietMoney ==
  ASSUME RowInv, MoneyKept, EventsTrue, UNCHANGED <<transfer, events>>,
         \A q \in Payouts : Quiet(q)
  PROVE  MoneyKept' /\ EventsTrue'
  <1>1. EventsTrue'
    BY DEF EventsTrue
  <1>2. ASSUME NEW p \in Payouts, NEW r \in AllRails, NEW a \in Attempts, Moved(p, r, a)'
        PROVE  /\ a <= payout'[p].attempt
               /\ a = payout'[p].attempt =>
                    r = payout'[p].provider /\ payout'[p].status \notin {"pending", "held"}
               /\ (a < payout'[p].attempt \/ payout'[p].status \in {"failed", "cancelled"}) =>
                    transfer'[p][r][a] = "back"
    <2>1. Moved(p, r, a) /\ transfer'[p][r][a] = transfer[p][r][a]
      BY <1>2 DEF Moved
    <2>2. Quiet(p) /\ payout[p] \in Row
      BY DEF RowInv, Typed
    <2>3. a \in Nat /\ payout[p].attempt \in Nat
      BY <2>2, PayoutAssumption DEF Row, Attempts
    <2>. QED
      BY <2>1, <2>2, <2>3 DEF Quiet, MoneyKept
  <1>. QED
    BY <1>1, <1>2 DEF MoneyKept

\* and a run's certainties true, if it leaves the run and its payout, when locked.
LEMMA QuietSure ==
  ASSUME RowInv, NEW j \in Jobs, Sure(j), job'[j] = job[j],
         \A q \in Payouts : q = job[j].payout =>
            /\ Quiet(q) /\ (Locked(q) => payout'[q].status = payout[q].status)
            /\ transfer'[q] = transfer[q]
  PROVE  Sure(j)'
  <1>. DEFINE p == job[j].payout
  <1>0. CASE job[j].pc = "idle"
    BY <1>0 DEF Sure
  <1>1. CASE job[j].pc # "idle"
    <2>1. p \in Payouts
      BY <1>1 DEF RowInv, JobKnows
    <2>2. job[j].pc = "claim" => Locked(p)
      BY DEF Locked
    <2>3. /\ Quiet(p) /\ transfer'[p] = transfer[p]
          /\ job[j].pc = "claim" => payout'[p].status = payout[p].status
      BY <2>1, <2>2
    <2>4. payout[p].status = "processing" =>
            /\ payout'[p].status = "processing" /\ payout'[p].attempt = payout[p].attempt
            /\ payout'[p].provider = payout[p].provider
      BY <2>3 DEF Quiet
    <2>. QED
      BY <2>3, <2>4 DEF Sure, Current, Moved
  <1>. QED
    BY <1>0, <1>1

LEMMA QuietJobs ==
  ASSUME RowInv, Certain, UNCHANGED <<transfer, job>>,
         \A q \in Payouts : Quiet(q) /\ (Locked(q) => payout'[q].status = payout[q].status)
  PROVE  Certain'
  BY QuietSure DEF Certain

\* A failed or held row that is re-queued has changed quietly.
LEMMA RequeuedQuietly ==
  ASSUME RowInv, NEW q \in Payouts, payout[q].status \in {"failed", "held"},
         Requeued(payout[q]).attempt <= MaxAttempts, payout'[q] = Requeued(payout[q])
  PROVE  Quiet(q)
  <1>1. payout[q] \in Row
    BY DEF RowInv, Typed
  <1>. QED
    BY <1>1, RequeuedTyped DEF Quiet

LEMMA RequeueQuiet ==
  ASSUME RowInv, RequeueBlocked, NEW q \in Payouts
  PROVE  Quiet(q) /\ (Locked(q) => payout'[q].status = payout[q].status)
  <1>. DEFINE blocked == BlockedByMethod(payout[q]) /\ Requeued(payout[q]).attempt <= MaxAttempts
  <1>1. CASE blocked
    <2>1. ~Locked(q) /\ payout'[q] = Requeued(payout[q])
      BY <1>1 DEF RequeueBlocked
    <2>. QED
      BY <1>1, <2>1, RequeuedQuietly DEF BlockedByMethod
  <1>2. CASE ~blocked
    BY <1>2 DEF RequeueBlocked, Quiet
  <1>. QED
    BY <1>1, <1>2

\* The order, an administrator and the vendor change the rows quietly.
LEMMA EnvironmentQuiet ==
  ASSUME RowInv, (\E p \in Payouts : OrderNext(p) \/ AdminNext(p)) \/ VendorNext
  PROVE  /\ UNCHANGED <<transfer, events, job>>
         /\ \A q \in Payouts : Quiet(q) /\ (Locked(q) => payout'[q].status = payout[q].status)
  <1>. DEFINE Goal == /\ UNCHANGED <<transfer, events, job>>
                      /\ \A q \in Payouts :
                            Quiet(q) /\ (Locked(q) => payout'[q].status = payout[q].status)
  <1>0. payout \in [Payouts -> Row]
    BY DEF RowInv, Typed
  <1>1. ASSUME NEW p \in Payouts, OrderNext(p) PROVE Goal
    <2>1. CASE Deliver(p)
      BY <1>0, <2>1 DEF Deliver, Quiet, Row
    <2>2. CASE RefundInFull(p) \/ CloseDispute(p) \/ \E c \in Concerns : RaiseConcern(p, c)
      BY <2>2 DEF RefundInFull, CloseDispute, RaiseConcern, Quiet
    <2>. QED
      BY <1>1, <2>1, <2>2 DEF OrderNext
  <1>2. ASSUME NEW p \in Payouts, AdminNext(p) PROVE Goal
    <2>1. CASE Release(p)
      BY <1>0, <2>1 DEF Release, Quiet, Row
    <2>2. CASE CancelPayout(p)
      BY <1>0, <2>2 DEF CancelPayout, Quiet, Row
    <2>3. CASE RetryFailed(p)
      <3>1. /\ payout[p].status = "failed" /\ ~Locked(p)
            /\ payout' = [payout EXCEPT ![p] = Requeued(payout[p])]
        BY <2>3 DEF RetryFailed
      <3>2. Requeued(payout[p]).attempt <= MaxAttempts
        BY <1>0, <2>3, PayoutAssumption DEF RetryFailed, Row, Attempts, Requeued
      <3>3. Quiet(p)
        BY <1>0, <3>1, <3>2, RequeuedQuietly
      <3>4. \A q \in Payouts : q # p => payout'[q] = payout[q]
        BY <1>0, <3>1
      <3>. QED
        BY <2>3, <3>1, <3>3, <3>4 DEF RetryFailed, Quiet
    <2>. QED
      BY <1>2, <2>1, <2>2, <2>3 DEF AdminNext
  <1>3. CASE VendorNext
    <2>1. CASE RequeueAfterFix
      BY <2>1, RequeueQuiet DEF RequeueAfterFix
    <2>2. CASE UNCHANGED <<payout, transfer, events, job>>
      BY <2>2 DEF Quiet
    <2>. QED
      BY <1>3, <2>1, <2>2 DEF VendorNext, RestrictAccount, RestoreAccount, StartStripe,
           LoadVendor, SaveMethod, ConnectCrash
  <1>. QED
    BY <1>1, <1>2, <1>3

\* PayPal's own steps: only money in transit, arrived or unclaimed moves.
LEMMA SettlesMoney ==
  ASSUME RowInv, MoneyInv, NEW p \in Payouts, NEW a \in Attempts, PaypalSettles(p, a)
  PROVE  MoneyInv'
  <1>1. PICK outcome \in PaypalOutcomes :
          /\ transfer[p]["paypal"][a] = outcome[1]
          /\ transfer' = [transfer EXCEPT ![p]["paypal"][a] = outcome[2]]
          /\ events' = events \cup {[payout |-> p, attempt |-> a, type |-> outcome[3]]}
    BY DEF PaypalSettles
  <1>. DEFINE from == outcome[1]
              to == outcome[2]
              type == outcome[3]
  <1>2. /\ from \notin {"none", "back"} /\ to # "none"
        /\ from \in {"unclaimed", "arrived", "kept"} => to \in {"arrived", "back"}
        /\ type = "UNCLAIMED" => to = "unclaimed"
        /\ type \in {"FAILED", "RETURNED"} => to = "back"
    BY DEF PaypalOutcomes
  <1>3. UNCHANGED <<payout, job>>
    BY DEF PaypalSettles
  <1>. HIDE DEF from, to, type
  <1>4. transfer \in [Payouts -> [AllRails -> [Attempts -> TransferStates]]]
        /\ "paypal" \in AllRails
    BY DEF RowInv, Typed, AllRails
  <1>5. \A q \in Payouts, r \in AllRails, b \in Attempts :
          transfer'[q][r][b] = IF q = p /\ r = "paypal" /\ b = a THEN to ELSE transfer[q][r][b]
    BY <1>1, <1>4 DEF to
  <1>6. transfer[p]["paypal"][a] = from
    BY <1>1 DEF from
  <1>7. \A q \in Payouts, r \in AllRails, b \in Attempts : Moved(q, r, b)' = Moved(q, r, b)
    BY <1>2, <1>5, <1>6 DEF Moved
  <1>8. MoneyKept'
    BY <1>2, <1>3, <1>5, <1>6, <1>7 DEF MoneyInv, MoneyKept, Moved
  <1>9. EventsTrue'
    <2>1. events \subseteq [payout : Payouts, attempt : Attempts, type : EventTypes]
      BY DEF RowInv, Typed
    <2>2. ASSUME NEW e \in events
          PROVE  LET now == transfer'[e.payout]["paypal"][e.attempt] IN
                 /\ now # "none"
                 /\ e.type = "UNCLAIMED" => now \in {"unclaimed", "arrived", "kept", "back"}
                 /\ e.type \in {"FAILED", "RETURNED"} => now = "back"
      <3>1. e.payout \in Payouts /\ e.attempt \in Attempts
        BY <2>1
      <3>. QED
        BY <1>2, <1>4, <1>5, <1>6, <3>1 DEF MoneyInv, EventsTrue
    <2>3. LET e == [payout |-> p, attempt |-> a, type |-> type]
              now == transfer'[p]["paypal"][a] IN
          /\ now # "none"
          /\ e.type = "UNCLAIMED" => now \in {"unclaimed", "arrived", "kept", "back"}
          /\ e.type \in {"FAILED", "RETURNED"} => now = "back"
      BY <1>2, <1>4, <1>5
    <2>. QED
      BY <1>1, <2>2, <2>3 DEF EventsTrue, type
  <1>10. Certain'
    <2>. SUFFICES ASSUME NEW j \in Jobs PROVE Sure(j)'
      BY DEF Certain
    <2>1. CASE job[j].pc = "idle"
      BY <1>3, <2>1 DEF Sure
    <2>2. CASE job[j].pc # "idle"
      <3>1. job[j].payout \in Payouts /\ job[j] \in Memory
        BY <2>2 DEF RowInv, Typed, JobKnows
      <3>2. payout[job[j].payout].attempt \in Attempts
            /\ job[j].attempt \in Attempts /\ job[j].provider \in AllRails
        BY <3>1 DEF RowInv, Typed, Row, Memory
      <3>3. Current(j)' = Current(j) /\ Sure(j)
        BY <1>3 DEF Current, MoneyInv, Certain
      <3>4. \A r \in AllRails, b \in Attempts :
               Moved(job[j].payout, r, b)' = Moved(job[j].payout, r, b)
        BY <1>3, <1>7, <3>1 DEF Moved
      <3>. QED
        BY <1>3, <3>2, <3>3, <3>4 DEF Sure, Moved
    <2>. QED
      BY <2>1, <2>2
  <1>. QED
    BY <1>8, <1>9, <1>10 DEF MoneyInv


\* An event changes the row of the attempt it is about, and no other.
LEMMA EventMoney ==
  ASSUME RowInv, RowInv', MoneyInv, ~Crosses, NEW e \in events, PayoutEvent(e)
  PROVE  MoneyInv'
  <1>. DEFINE p == e.payout
              a == e.attempt
  <1>1. p \in Payouts /\ a \in Attempts /\ payout[p] \in Row /\ "paypal" \in AllRails
    BY DEF RowInv, Typed, AllRails
  <1>2. /\ UNCHANGED job /\ events' = events \ {e} /\ ~Locked(p)
        /\ Listed(p) => payout'[p] = payout[p]
    BY <1>1 DEF PayoutEvent, Crosses
  <1>3. LET now == transfer[p]["paypal"][a] IN
        /\ now # "none"
        /\ e.type = "UNCLAIMED" => now \in {"unclaimed", "arrived", "kept", "back"}
        /\ e.type \in {"FAILED", "RETURNED"} => now = "back"
    BY DEF MoneyInv, EventsTrue
  <1>4. CASE Superseded(e)
    <2>1. UNCHANGED <<payout, transfer>>
      BY <1>4 DEF Superseded
    <2>2. MoneyKept' /\ Certain'
      BY <1>2, <2>1 DEF MoneyInv, MoneyKept, Certain, Sure, Current, Moved
    <2>3. EventsTrue'
      BY <1>2, <2>1 DEF MoneyInv, EventsTrue
    <2>. QED
      BY <2>2, <2>3 DEF MoneyInv
  <1>5. CASE ~Superseded(e)
    \* The row is PayPal's, and was claimed: money has moved under its attempt.
    <2>1. /\ payout[p].attempt = a /\ payout[p].provider = "paypal"
          /\ payout[p].status \notin {"pending", "held"}
          /\ \A r \in AllRails : Moved(p, r, a) => r = "paypal"
      <3>1. payout[p].attempt = a
        BY <1>5 DEF PayoutEvent, Succeeded, Unsuccessful
      <3>. QED
        BY <1>1, <1>3, <3>1 DEF MoneyInv, MoneyKept, Moved
    \* The row is paid, or failed with the money back, or as it was.
    <2>2. /\ \A q \in Payouts : q # p => payout'[q] = payout[q]
          /\ payout'[p].attempt = a /\ payout'[p].provider = "paypal"
          /\ payout'[p].status # payout[p].status =>
                /\ payout[p].status \in {"processing", "paid"}
                /\ payout'[p].status \in {"paid", "failed"}
                /\ payout'[p].status = "failed" => transfer'[p]["paypal"][a] = "back"
      <3>1. CASE Succeeded(e)
        BY <1>1, <2>1, <3>1 DEF Succeeded, Row, RowInv, Typed
      <3>2. ASSUME NEW kind \in Failures, Unsuccessful(e, kind)
            PROVE  /\ \A q \in Payouts : q # p => payout'[q] = payout[q]
                   /\ payout'[p].attempt = a /\ payout'[p].provider = "paypal"
                   /\ payout'[p].status # payout[p].status =>
                         /\ payout[p].status \in {"processing", "paid"}
                         /\ payout'[p].status \in {"paid", "failed"}
                         /\ payout'[p].status = "failed" => transfer'[p]["paypal"][a] = "back"
        <4>1. /\ \A q \in Payouts : q # p => payout'[q] = payout[q]
              /\ payout'[p].attempt = a /\ payout'[p].provider = "paypal"
              /\ payout'[p].status # payout[p].status =>
                    payout[p].status \in {"processing", "paid"} /\ payout'[p].status = "failed"
          BY <1>1, <2>1, <3>2 DEF Unsuccessful, Row, RowInv, Typed
        <4>2. transfer'[p]["paypal"][a] = "back"
          <5>1. e.type \in {"FAILED", "UNCLAIMED", "RETURNED"}
            BY <3>2 DEF Unsuccessful, RowInv, Typed, EventTypes
          <5>2. CASE e.type = "UNCLAIMED"
            <6>1. transfer'[p]["paypal"][a] \notin {"kept", "arrived"}
              BY <1>2, <2>1, <5>2 DEF Crosses
            <6>2. CASE \E x \in {"back", "kept"} :
                         transfer' = [transfer EXCEPT ![p]["paypal"][a] = x]
              BY <1>1, <6>1, <6>2 DEF RowInv, Typed
            <6>3. CASE UNCHANGED transfer /\ transfer[p]["paypal"][a] # "unclaimed"
              BY <1>3, <5>2, <6>1, <6>3
            <6>. QED
              BY <3>2, <5>2, <6>2, <6>3 DEF Unsuccessful
          <5>3. CASE e.type \in {"FAILED", "RETURNED"}
            BY <1>3, <3>2, <5>3 DEF Unsuccessful
          <5>. QED
            BY <5>1, <5>2, <5>3
        <4>. QED
          BY <4>1, <4>2
      <3>. QED
        BY <1>5, <3>1, <3>2 DEF PayoutEvent
    \* Of the transfers, at most the one the event is about has come back.
    <2>3. \A q \in Payouts, r \in AllRails, b \in Attempts :
            \/ transfer'[q][r][b] = transfer[q][r][b]
            \/ q = p /\ r = "paypal" /\ b = a /\ transfer'[q][r][b] = "back"
      <3>1. \/ UNCHANGED transfer
            \/ /\ e.type = "UNCLAIMED"
               /\ \E x \in {"back", "kept"} :
                     transfer' = [transfer EXCEPT ![p]["paypal"][a] = x]
        BY <1>5 DEF PayoutEvent, Succeeded, Unsuccessful
      <3>2. e.type = "UNCLAIMED" => transfer'[p]["paypal"][a] # "kept"
        BY <1>2, <2>1 DEF Crosses
      <3>. QED
        BY <1>1, <3>1, <3>2 DEF RowInv, Typed
    <2>4. \A q \in Payouts, r \in AllRails, b \in Attempts : Moved(q, r, b)' = Moved(q, r, b)
      BY <1>1, <1>3, <2>3 DEF Moved
    <2>5. MoneyKept'
      <3>. SUFFICES ASSUME NEW q \in Payouts, NEW r \in AllRails, NEW b \in Attempts,
                           Moved(q, r, b)
                    PROVE  /\ b <= payout'[q].attempt
                           /\ b = payout'[q].attempt =>
                                r = payout'[q].provider /\ payout'[q].status \notin {"pending", "held"}
                           /\ (b < payout'[q].attempt \/ payout'[q].status \in {"failed", "cancelled"}) =>
                                transfer'[q][r][b] = "back"
        BY <2>4 DEF MoneyKept
      <3>1. CASE q # p
        BY <2>2, <2>3, <3>1 DEF MoneyInv, MoneyKept
      <3>2. CASE q = p
        <4>1. /\ b <= a
              /\ b = a => r = "paypal"
              /\ b < a => transfer[p][r][b] = "back"
              /\ payout[p].status \in {"failed", "cancelled"} => transfer[p][r][b] = "back"
          BY <2>1, <3>2 DEF MoneyInv, MoneyKept
        <4>2. a \in Nat /\ b \in Nat
          BY <1>1, PayoutAssumption DEF Attempts
        <4>. QED
          BY <2>1, <2>2, <2>3, <3>2, <4>1, <4>2
      <3>. QED
        BY <3>1, <3>2
    <2>6. EventsTrue'
      <3>1. ASSUME NEW d \in events
            PROVE  LET now == transfer'[d.payout]["paypal"][d.attempt] IN
                   /\ now # "none"
                   /\ d.type = "UNCLAIMED" => now \in {"unclaimed", "arrived", "kept", "back"}
                   /\ d.type \in {"FAILED", "RETURNED"} => now = "back"
        <4>1. d.payout \in Payouts /\ d.attempt \in Attempts
          BY DEF RowInv, Typed
        <4>. QED
          BY <1>1, <2>3, <4>1 DEF MoneyInv, EventsTrue
      <3>. QED
        BY <1>2, <3>1 DEF EventsTrue
    <2>7. Certain'
      <3>. SUFFICES ASSUME NEW j \in Jobs PROVE Sure(j)'
        BY DEF Certain
      <3>. DEFINE q == job[j].payout
      <3>1. CASE job[j].pc = "idle"
        BY <1>2, <3>1 DEF Sure
      <3>2. CASE job[j].pc # "idle" /\ q # p
        <4>1. q \in Payouts /\ job[j].attempt \in Attempts /\ job[j].provider \in AllRails
          BY <3>2 DEF RowInv, Typed, JobKnows, Memory
        <4>2. payout'[q] = payout[q] /\ payout[q].attempt \in Attempts
          BY <2>2, <3>2, <4>1 DEF RowInv, Typed, Row
        <4>3. Sure(j)
          BY DEF MoneyInv, Certain
        <4>4. job'[j] = job[j]
          BY <1>2
        <4>5. /\ transfer'[q][job[j].provider][job[j].attempt] # "none" <=>
                    transfer[q][job[j].provider][job[j].attempt] # "none"
              /\ \A r \in AllRails : transfer'[q][r][payout[q].attempt] # "none" <=>
                                     transfer[q][r][payout[q].attempt] # "none"
          BY <2>4, <4>1, <4>2 DEF Moved
        <4>6. UNCHANGED job
          BY <1>2
        <4>. QED
          BY ONLY <4>2, <4>3, <4>4, <4>5, <4>6 DEF Sure, Current, Moved
      <3>3. CASE job[j].pc # "idle" /\ q = p
        <4>1. job[j].attempt \in Attempts /\ job[j].provider \in AllRails
          BY DEF RowInv, Typed, Memory
        <4>5. Sure(j)
          BY DEF MoneyInv, Certain
        <4>2. /\ job[j].pc # "claim"
              /\ job[j].pc = "reload" => payout'[p].status = "processing"
          BY <1>2, <3>3, <4>5 DEF Locked, Listed, Sure
        <4>3. Moved(p, "paypal", a)
          BY <1>3 DEF Moved
        <4>4. Current(j) => Moved(p, job[j].provider, job[j].attempt)
          BY <2>1, <3>3, <4>3 DEF Current
        <4>6. job[j].pc \notin {"load", "refresh", "requeue", "fail"}
          BY <1>1, <2>1, <3>3, <4>3, <4>4, <4>5 DEF Sure
        <4>7. job[j].pc \in {"lookup", "send"} => Moved(p, job[j].provider, job[j].attempt)
          BY <3>3, <4>4, <4>5 DEF Sure
        <4>. QED
          BY <1>1, <1>2, <2>4, <3>3, <4>1, <4>2, <4>6, <4>7 DEF Sure, Moved
      <3>. QED
        BY <3>1, <3>2, <3>3
    <2>. QED
      BY <2>5, <2>6, <2>7 DEF MoneyInv
  <1>. QED
    BY <1>4, <1>5


\* A step of one run leaves what the others rely on: they are at other payouts.
LEMMA OthersSure ==
  ASSUME RowInv, MoneyInv, ~Shared, ~Shared', NEW j \in Jobs, JobNext(j),
         NEW i \in Jobs, i # j
  PROVE  Sure(i)'
  <1>. DEFINE Goal(q) == /\ Quiet(q) /\ (Locked(q) => payout'[q].status = payout[q].status)
                         /\ transfer'[q] = transfer[q]
              p == job[j].payout
  <1>1. /\ payout \in [Payouts -> Row] /\ job \in [Jobs -> Memory]
        /\ transfer \in [Payouts -> [AllRails -> [Attempts -> TransferStates]]]
        /\ job[j].pc # "idle" => p \in Payouts
        /\ Sure(i)
    BY DEF RowInv, Typed, JobKnows, MoneyInv, Certain
  <1>2. job'[i] = job[i]
    BY <1>1 DEF JobNext, CancelForDeadOrder, ReadClaim, ListStuck, CommitClaim, Load, LookUp,
       Refresh, RequeueInJob, Send, RecordSent, RecordFailure, JobCrash, JobEnds, JobStep
  <1>3. ASSUME NEW q \in Payouts, q = job[i].payout PROVE Goal(q)
    <2>1. q # p
      BY <1>3, PayoutAssumption DEF Shared
    <2>2. CASE UNCHANGED <<payout, transfer>>
      BY <2>2 DEF Quiet
    <2>3. CASE /\ UNCHANGED transfer /\ job[j].pc # "idle"
               /\ \E row : payout' = [payout EXCEPT ![p] = row]
      BY <1>1, <2>1, <2>3 DEF Quiet
    <2>4. CASE Send(j)
      BY <1>1, <2>1, <2>4 DEF Send, Quiet
    <2>5. CASE RequeueInJob(j)
      BY <2>5, RequeueQuiet DEF RequeueInJob
    <2>6. ASSUME NEW r \in Payouts, CancelForDeadOrder(j, r) PROVE Goal(q)
      BY <1>1, <2>6 DEF CancelForDeadOrder, Quiet, Row
    <2>7. CASE CommitClaim(j) \/ RecordSent(j) \/ RecordFailure(j)
      <3>1. /\ UNCHANGED transfer /\ job[j].pc # "idle"
            /\ UNCHANGED payout \/ \E row : payout' = [payout EXCEPT ![p] = row]
        BY <2>7 DEF CommitClaim, RecordSent, RecordFailure, FailPayout
      <3>. QED
        BY <2>2, <2>3, <3>1
    <2>. QED
      BY <2>2, <2>4, <2>5, <2>6, <2>7 DEF JobNext, ReadClaim, ListStuck, Load, LookUp, Refresh,
         JobCrash
  <1>. QED
    BY <1>1, <1>2, <1>3, QuietSure

\* The run's own steps.
LEMMA JobMoney ==
  ASSUME RowInv, RowInv', MoneyInv, ~Shared, ~Shared', NEW j \in Jobs, JobNext(j)
  PROVE  MoneyInv'
  <1>. DEFINE p == job[j].payout
  <1>1. /\ Sure(j)
        /\ Sure(j)' => Certain'
    BY OthersSure DEF MoneyInv, Certain
  <1>2. /\ payout \in [Payouts -> Row] /\ payout' \in [Payouts -> Row]
        /\ job \in [Jobs -> Memory] /\ job' \in [Jobs -> Memory]
        /\ transfer \in [Payouts -> [AllRails -> [Attempts -> TransferStates]]]
    BY DEF RowInv, Typed
  <1>3. ASSUME UNCHANGED <<payout, transfer, events>> PROVE MoneyKept' /\ EventsTrue'
    BY <1>3 DEF MoneyInv, MoneyKept, EventsTrue, Moved
  <1>4. ASSUME IdleJob = job'[j] PROVE Sure(j)'
    BY <1>4 DEF Sure, IdleJob
  <1>5. ASSUME NEW q \in Payouts, CancelForDeadOrder(j, q) PROVE MoneyInv'
    <2>1. /\ UNCHANGED <<transfer, events, job>>
          /\ \A r \in Payouts : Quiet(r) /\ (Locked(r) => payout'[r].status = payout[r].status)
      BY <1>2, <1>5 DEF CancelForDeadOrder, Quiet, Row
    <2>. QED
      BY <2>1, QuietMoney, QuietJobs DEF MoneyInv
  <1>6. ASSUME NEW q \in Payouts, ReadClaim(j, q) PROVE MoneyInv'
    <2>1. job'[j].pc = "claim" /\ job'[j].payout = q /\ payout'[q].status = "pending"
      BY <1>2, <1>6 DEF ReadClaim, Memory
    <2>2. Sure(j)'
      BY <2>1 DEF Sure
    <2>. QED
      BY <1>1, <1>3, <1>6, <2>2 DEF ReadClaim, MoneyInv
  <1>7. ASSUME NEW q \in Payouts, ListStuck(j, q) PROVE MoneyInv'
    <2>1. job'[j].pc = "reload" /\ job'[j].payout = q /\ payout'[q].status = "processing"
      BY <1>2, <1>7 DEF ListStuck, Memory
    <2>2. Sure(j)'
      BY <2>1 DEF Sure
    <2>. QED
      BY <1>1, <1>3, <1>7, <2>2 DEF ListStuck, MoneyInv
  <1>8. CASE CommitClaim(j)
    <2>1. p \in Payouts /\ payout[p].status = "pending" /\ UNCHANGED <<transfer, events>>
      BY <1>1, <1>8 DEF CommitClaim, Sure, RowInv, JobKnows
    <2>2. /\ \A q \in Payouts : q # p => payout'[q] = payout[q]
          /\ payout'[p].attempt = payout[p].attempt
          /\ \/ payout'[p].status = "held" /\ job'[j] = IdleJob
             \/ /\ payout'[p].status = "processing"
                /\ job'[j].pc = "load" /\ job'[j].payout = p
      BY <1>2, <1>8, <2>1 DEF CommitClaim, JobEnds, JobStep, Row, Memory
    \* Nothing has moved under a pending row's attempt.
    <2>3. \A r \in AllRails : ~Moved(p, r, payout[p].attempt)
      BY <1>2, <2>1 DEF MoneyInv, MoneyKept, Row
    <2>4. MoneyKept'
      <3>. SUFFICES ASSUME NEW q \in Payouts, NEW r \in AllRails, NEW a \in Attempts,
                           Moved(q, r, a)
                    PROVE  /\ a <= payout'[q].attempt
                           /\ a = payout'[q].attempt =>
                                r = payout'[q].provider /\ payout'[q].status \notin {"pending", "held"}
                           /\ (a < payout'[q].attempt \/ payout'[q].status \in {"failed", "cancelled"}) =>
                                transfer[q][r][a] = "back"
        BY <2>1 DEF MoneyKept, Moved
      <3>1. /\ a <= payout[q].attempt
            /\ a < payout[q].attempt => transfer[q][r][a] = "back"
        BY DEF MoneyInv, MoneyKept
      <3>2. CASE q # p
        BY <2>2, <3>2 DEF MoneyInv, MoneyKept
      <3>3. CASE q = p
        BY <2>2, <2>3, <3>1, <3>3
      <3>. QED
        BY <3>2, <3>3
    <2>5. EventsTrue'
      BY <2>1 DEF MoneyInv, EventsTrue
    <2>6. Sure(j)'
      <3>1. CASE job'[j] = IdleJob
        BY <1>4, <3>1
      <3>2. CASE job'[j].pc = "load" /\ job'[j].payout = p /\ payout'[p].status = "processing"
        BY <2>1, <2>2, <2>3, <3>2 DEF Sure, Moved
      <3>. QED
        BY <2>2, <3>1, <3>2
    <2>. QED
      BY <1>1, <2>4, <2>5, <2>6 DEF MoneyInv
  <1>9. CASE Load(j)
    <2>1. /\ p \in Payouts /\ payout[p].status = "processing"
          /\ payout[p].attempt \in Attempts /\ payout[p].provider \in AllRails
      BY <1>1, <1>2, <1>9 DEF Load, Sure, RowInv, JobKnows, Row
    <2>2. /\ job'[j].payout = p
          /\ job'[j].attempt = payout[p].attempt /\ job'[j].provider = payout[p].provider
          /\ \/ job[j].pc = "reload" /\ job'[j].pc = "lookup"
             \/ job[j].pc = "load" /\ job'[j].pc \in {"refresh", "send"}
      <3>. DEFINE pc == IF job[j].pc = "reload" THEN "lookup" ELSE FirstCall(payout[p].provider)
                  note == IF payout[p].handed THEN "handed" ELSE "none"
      <3>1. job' = [job EXCEPT ![j] = [job[j] EXCEPT !.pc = pc, !.attempt = payout[p].attempt,
              !.provider = payout[p].provider, !.rail = vendor.rail,
              !.flagged = vendor.error, !.note = note]]
        BY <1>9 DEF Load
      <3>2. \/ job[j].pc = "reload" /\ pc = "lookup"
            \/ job[j].pc = "load" /\ pc \in {"refresh", "send"}
        BY <1>9 DEF Load, FirstCall
      <3>. HIDE DEF pc, note
      <3>. QED
        BY <1>2, <3>1, <3>2 DEF Memory
    <2>3. UNCHANGED <<payout, transfer, events>>
      BY <1>9 DEF Load
    <2>4. Current(j)'
      BY <2>1, <2>2, <2>3 DEF Current
    <2>5. job[j].pc = "load" => ~Moved(p, payout[p].provider, payout[p].attempt)
      BY <1>1, <2>1 DEF Sure
    <2>6. Sure(j)'
      BY <2>1, <2>2, <2>3, <2>4, <2>5 DEF Sure, Moved
    <2>. QED
      BY <1>1, <1>3, <2>3, <2>6 DEF MoneyInv
  <1>10. CASE LookUp(j)
    <2>1. UNCHANGED <<payout, transfer, events>>
      BY <1>10 DEF LookUp
    <2>. DEFINE known == /\ job[j].provider = "stripe"
                         /\ transfer[p]["stripe"][job[j].attempt] # "none"
    <2>2. \/ job'[j] = IdleJob
          \/ job'[j].pc = "record"
          \/ /\ ~known /\ job'[j] = [job[j] EXCEPT !.pc = FirstCall(job[j].provider)]
      BY <1>2, <1>10 DEF LookUp, JobEnds, JobStep, Memory
    <2>3. Current(j) \/ Moved(p, job[j].provider, job[j].attempt)
      BY <1>1, <1>10 DEF LookUp, Sure
    <2>4. Sure(j)'
      <3>1. CASE job'[j] = IdleJob
        BY <1>4, <3>1
      <3>2. CASE job'[j].pc = "record"
        BY <3>2 DEF Sure
      <3>3. CASE /\ ~known /\ job[j].provider = "stripe"
                 /\ job'[j] = [job[j] EXCEPT !.pc = FirstCall(job[j].provider)]
        <4>1. /\ job'[j].pc = "refresh" /\ job'[j].payout = p
              /\ job'[j].attempt = job[j].attempt /\ job'[j].provider = job[j].provider
          BY <1>2, <3>3 DEF FirstCall, Memory
        <4>2. ~Moved(p, job[j].provider, job[j].attempt)
          BY <3>3 DEF Moved
        <4>3. Current(j)' /\ ~Moved(p, job[j].provider, job[j].attempt)
          BY <2>1, <2>3, <4>1, <4>2 DEF Current
        <4>. QED
          BY <2>1, <4>1, <4>2, <4>3 DEF Sure, Moved
      <3>4. CASE /\ job[j].provider # "stripe"
                 /\ job'[j] = [job[j] EXCEPT !.pc = FirstCall(job[j].provider)]
        <4>1. /\ job'[j].pc = "send" /\ job'[j].payout = p
              /\ job'[j].attempt = job[j].attempt /\ job'[j].provider = job[j].provider
          BY <1>2, <3>4 DEF FirstCall, Memory
        <4>. QED
          BY <2>1, <2>3, <4>1 DEF Sure, Current, Moved
      <3>. QED
        BY <2>2, <3>1, <3>2, <3>3, <3>4
    <2>. QED
      BY <1>1, <1>3, <2>1, <2>4 DEF MoneyInv
  <1>11. CASE Refresh(j) \/ RequeueInJob(j)
    <2>1. /\ \A q \in Payouts : Quiet(q)
          /\ UNCHANGED <<transfer, events>>
      <3>1. CASE Refresh(j)
        BY <3>1 DEF Refresh, Quiet
      <3>2. CASE RequeueInJob(j)
        BY <3>2, RequeueQuiet DEF RequeueInJob
      <3>. QED
        BY <1>11, <3>1, <3>2
    <2>2. p \in Payouts /\ Current(j) /\ ~Moved(p, job[j].provider, job[j].attempt)
      BY <1>1, <1>11 DEF Refresh, RequeueInJob, Sure, RowInv, JobKnows
    <2>3. /\ job'[j].pc \in {"fail", "requeue", "send"} /\ job'[j].payout = p
          /\ job'[j].attempt = job[j].attempt /\ job'[j].provider = job[j].provider
      BY <1>2, <1>11 DEF Refresh, RequeueInJob, JobStep, Memory
    <2>4. Current(j)'
      BY <2>1, <2>2, <2>3 DEF Current, Quiet
    <2>5. Sure(j)'
      BY <2>1, <2>2, <2>3, <2>4 DEF Sure, Moved
    <2>. QED
      BY <1>1, <2>1, <2>5, QuietMoney DEF MoneyInv
  <1>12. CASE Send(j)
    <2>. DEFINE r == job[j].provider
                a == job[j].attempt
    <2>1. /\ p \in Payouts /\ r \in AllRails /\ a \in Attempts
          /\ Current(j) \/ Moved(p, r, a)
      BY <1>1, <1>2, <1>12 DEF Send, Sure, RowInv, JobKnows, Memory
    <2>2. UNCHANGED <<payout, events>>
      BY <1>12 DEF Send
    <2>3. CASE UNCHANGED transfer
      <3>1. \/ job'[j].pc = "record"
            \/ ~Moved(p, r, a) /\ \E n \in Failures : job'[j] = [job[j] EXCEPT !.pc = "fail", !.note = n]
        <4>1. \/ \E n \in {"paid", "processing"} :
                   job' = [job EXCEPT ![j] = [job[j] EXCEPT !.pc = "record", !.note = n]]
              \/ /\ ~Moved(p, r, a)
                 /\ \E n \in Failures :
                       job' = [job EXCEPT ![j] = [job[j] EXCEPT !.pc = "fail", !.note = n]]
          BY <1>12 DEF Send, Moved, Failures
        <4>2. CASE \E n \in {"paid", "processing"} :
                     job' = [job EXCEPT ![j] = [job[j] EXCEPT !.pc = "record", !.note = n]]
          BY <1>2, <4>2 DEF Memory
        <4>. QED
          BY <1>2, <4>1, <4>2
      <3>2. CASE job'[j].pc = "record"
        <4>1. Sure(j)'
          BY <3>2 DEF Sure
        <4>. QED
          BY <1>1, <1>3, <2>2, <2>3, <4>1 DEF MoneyInv
      <3>3. CASE ~Moved(p, r, a) /\ \E n \in Failures : job'[j] = [job[j] EXCEPT !.pc = "fail", !.note = n]
        <4>1. /\ job'[j].pc = "fail" /\ job'[j].payout = p
              /\ job'[j].attempt = a /\ job'[j].provider = r
          BY <1>2, <3>3 DEF Memory
        <4>2. Current(j)'
          BY <2>1, <2>2, <3>3, <4>1 DEF Current
        <4>3. Sure(j)'
          BY <2>3, <3>3, <4>1, <4>2 DEF Sure, Moved
        <4>. QED
          BY <1>1, <1>3, <2>2, <2>3, <4>3 DEF MoneyInv
      <3>. QED
        BY <3>1, <3>2, <3>3
    <2>4. CASE ~UNCHANGED transfer
      <3>1. PICK x \in {"paid", "transit"} :
              /\ transfer[p][r][a] = "none"
              /\ transfer' = [transfer EXCEPT ![p][r][a] = x]
              /\ \E n \in {"paid", "processing"} :
                    job' = [job EXCEPT ![j] = [job[j] EXCEPT !.pc = "record", !.note = n]]
        BY <1>12, <2>4 DEF Send
      <3>2. \A q \in Payouts, s \in AllRails, b \in Attempts :
              transfer'[q][s][b] = IF q = p /\ s = r /\ b = a THEN x ELSE transfer[q][s][b]
        BY <1>2, <2>1, <3>1
      <3>3. Current(j)
        BY <2>1, <3>1 DEF Moved
      <3>4. MoneyKept'
        <4>. SUFFICES ASSUME NEW q \in Payouts, NEW s \in AllRails, NEW b \in Attempts,
                             transfer'[q][s][b] # "none"
                      PROVE  /\ b <= payout[q].attempt
                             /\ b = payout[q].attempt =>
                                  s = payout[q].provider /\ payout[q].status \notin {"pending", "held"}
                             /\ (b < payout[q].attempt \/ payout[q].status \in {"failed", "cancelled"}) =>
                                  transfer'[q][s][b] = "back"
          BY <2>2 DEF MoneyKept, Moved
        <4>1. CASE q = p /\ s = r /\ b = a
          <5>1. payout[p].attempt = a /\ payout[p].provider = r /\ payout[p].status = "processing"
            BY <3>3 DEF Current
          <5>2. a \in Nat
            BY <2>1, PayoutAssumption DEF Attempts
          <5>. QED
            BY <4>1, <5>1, <5>2
        <4>2. CASE ~(q = p /\ s = r /\ b = a)
          BY <3>2, <4>2 DEF MoneyInv, MoneyKept, Moved
        <4>. QED
          BY <4>1, <4>2
      <3>5. EventsTrue'
        <4>1. ASSUME NEW e \in events
              PROVE  transfer'[e.payout]["paypal"][e.attempt] = transfer[e.payout]["paypal"][e.attempt]
          <5>1. e.payout \in Payouts /\ e.attempt \in Attempts /\ "paypal" \in AllRails
            BY DEF RowInv, Typed, AllRails
          <5>2. transfer[e.payout]["paypal"][e.attempt] # "none"
            BY DEF MoneyInv, EventsTrue
          <5>. QED
            BY <3>1, <3>2, <5>1, <5>2
        <4>. QED
          BY <2>2, <4>1 DEF MoneyInv, EventsTrue
      <3>6. job'[j].pc = "record"
        BY <1>2, <3>1 DEF Memory
      <3>7. Sure(j)'
        BY <3>6 DEF Sure
      <3>. QED
        BY <1>1, <3>4, <3>5, <3>7 DEF MoneyInv
    <2>. QED
      BY <2>3, <2>4
  <1>13. CASE RecordSent(j)
    <2>1. p \in Payouts /\ job'[j] = IdleJob /\ UNCHANGED <<transfer, events>>
      BY <1>2, <1>13 DEF RecordSent, JobEnds, RowInv, JobKnows
    <2>2. \A q \in Payouts :
            /\ payout'[q].attempt = payout[q].attempt /\ payout'[q].provider = payout[q].provider
            /\ \/ payout'[q].status = payout[q].status
               \/ payout'[q].status = "paid"
      BY <1>2, <1>13, <2>1 DEF RecordSent, Row
    <2>3. MoneyKept'
      BY <2>1, <2>2 DEF MoneyInv, MoneyKept, Moved
    <2>4. EventsTrue'
      BY <2>1 DEF MoneyInv, EventsTrue
    <2>. QED
      BY <1>1, <1>4, <2>1, <2>3, <2>4 DEF MoneyInv
  <1>14. CASE RecordFailure(j)
    <2>1. p \in Payouts /\ job'[j] = IdleJob /\ UNCHANGED <<transfer, events>>
      BY <1>2, <1>14 DEF RecordFailure, JobEnds, RowInv, JobKnows
    <2>2. Current(j) /\ ~Moved(p, job[j].provider, job[j].attempt)
      BY <1>1, <1>14 DEF RecordFailure, Sure
    <2>3. \A q \in Payouts :
            /\ payout'[q].attempt = payout[q].attempt /\ payout'[q].provider = payout[q].provider
            /\ \/ payout'[q].status = payout[q].status
               \/ q = p /\ payout'[q].status = "failed"
      <3>. DEFINE row == [payout[p] EXCEPT !.status = "failed", !.failure = job[j].note]
      <3>1. UNCHANGED payout \/ payout' = [payout EXCEPT ![p] = row]
        BY <1>14 DEF RecordFailure, FailPayout
      <3>2. /\ row.status = "failed" /\ row.attempt = payout[p].attempt
            /\ row.provider = payout[p].provider
        BY <1>2, <2>1 DEF Row
      <3>. HIDE DEF row
      <3>3. CASE UNCHANGED payout
        BY <3>3
      <3>4. CASE payout' = [payout EXCEPT ![p] = row]
        BY <1>2, <2>1, <3>2, <3>4
      <3>. QED
        BY <3>1, <3>3, <3>4
    <2>4. \A r \in AllRails : ~Moved(p, r, payout[p].attempt)
      BY <1>2, <2>1, <2>2 DEF MoneyInv, MoneyKept, Current, Row
    <2>5. MoneyKept'
      <3>. SUFFICES ASSUME NEW q \in Payouts, NEW r \in AllRails, NEW a \in Attempts,
                           Moved(q, r, a)
                    PROVE  /\ a <= payout'[q].attempt
                           /\ a = payout'[q].attempt =>
                                r = payout'[q].provider /\ payout'[q].status \notin {"pending", "held"}
                           /\ (a < payout'[q].attempt \/ payout'[q].status \in {"failed", "cancelled"}) =>
                                transfer[q][r][a] = "back"
        BY <2>1 DEF MoneyKept, Moved
      <3>1. /\ a <= payout[q].attempt
            /\ a = payout[q].attempt =>
                 r = payout[q].provider /\ payout[q].status \notin {"pending", "held"}
            /\ (a < payout[q].attempt \/ payout[q].status \in {"failed", "cancelled"}) =>
                 transfer[q][r][a] = "back"
        BY DEF MoneyInv, MoneyKept
      <3>2. CASE q = p /\ payout'[q].status = "failed"
        <4>1. a # payout[p].attempt
          BY <2>4, <3>2
        <4>2. a \in Nat /\ payout[p].attempt \in Nat
          BY <1>2, <2>1, PayoutAssumption DEF Row, Attempts
        <4>. QED
          BY <2>3, <3>1, <3>2, <4>1, <4>2
      <3>. QED
        BY <2>3, <3>1, <3>2
    <2>6. EventsTrue'
      BY <2>1 DEF MoneyInv, EventsTrue
    <2>. QED
      BY <1>1, <1>4, <2>1, <2>5, <2>6 DEF MoneyInv
  <1>15. CASE JobCrash(j)
    <2>1. job'[j] = IdleJob
      BY <1>2, <1>15 DEF JobCrash, JobEnds
    <2>. QED
      BY <1>1, <1>3, <1>4, <1>15, <2>1 DEF JobCrash, MoneyInv
  <1>. QED
    BY <1>5, <1>6, <1>7, <1>8, <1>9, <1>10, <1>11, <1>12, <1>13, <1>14, <1>15 DEF JobNext


\* What holds until something has crossed.
Orderly == ~crossed => MoneyInv /\ ~Shared

LEMMA InitMoney == Init => Orderly
  <1>. SUFFICES ASSUME Init PROVE Orderly
    OBVIOUS
  <1>1. MoneyKept /\ EventsTrue
    BY DEF Init, MoneyKept, EventsTrue, Moved
  <1>2. Certain
    BY DEF Init, Certain, Sure, IdleJob
  <1>3. ~Shared
    BY DEF Init, Shared, IdleJob
  <1>. QED
    BY <1>1, <1>2, <1>3 DEF MoneyInv, Orderly

LEMMA MoneyStep ==
  ASSUME RowInv, RowInv', Orderly, [Next]_vars
  PROVE  Orderly'
  <1>. SUFFICES ASSUME ~crossed' PROVE MoneyInv' /\ ~Shared'
    BY DEF Orderly
  <1>0. /\ MoneyInv /\ ~Shared /\ ~Shared'
        /\ UNCHANGED vars \/ (Step /\ ~Crosses)
    BY DEF Orderly, Next, Crosses, vars, codeVars, Shared
  <1>1. CASE UNCHANGED vars
    BY <1>0, <1>1 DEF vars, codeVars, MoneyInv, MoneyKept, EventsTrue, Certain, Sure, Current, Moved
  <1>2. CASE (\E p \in Payouts : OrderNext(p) \/ AdminNext(p)) \/ VendorNext
    BY <1>0, <1>2, EnvironmentQuiet, QuietMoney, QuietJobs DEF MoneyInv
  <1>3. CASE PaypalNext /\ ~Crosses
    BY <1>0, <1>3, SettlesMoney, EventMoney DEF PaypalNext
  <1>4. ASSUME NEW j \in Jobs, JobNext(j) PROVE MoneyInv'
    BY <1>0, <1>4, JobMoney
  <1>. QED
    BY <1>0, <1>1, <1>2, <1>3, <1>4 DEF Step

\* The money is where the rows, the events and the runs have it, until runs share
\* a payout, one is overtaken between the listing and its recovery, or one fails
\* as unclaimed with the money not pulled back.
THEOREM MoneyInvariance == Spec => [](RowInv /\ Orderly)
  <1>1. RowInv /\ RowInv' /\ Orderly /\ [Next]_vars => Orderly'
    BY MoneyStep
  <1>. QED
    BY <1>1, InitMoney, RowInvariance, PTL DEF Spec

\* The vendor is never paid twice for one order: at most one attempt's money is
\* out (vendor_payout_service.ts:14-17), on any number of orders, with any number
\* of runs, crashes, retries and rail changes, until something has crossed.
THEOREM PaysOnce == Spec => []PaidOnce
  <1>1. RowInv /\ Orderly => PaidOnce
    <2>. SUFFICES ASSUME RowInv, MoneyInv, NEW p \in Payouts
                  PROVE  Cardinality(Live(p)) <= 1
      BY DEF PaidOnce, Orderly
    <2>. DEFINE k == <<payout[p].provider, payout[p].attempt>>
    <2>1. payout[p].attempt \in Nat
      BY PayoutAssumption DEF RowInv, Typed, Row, Attempts
    <2>2. Live(p) \subseteq {k}
      <3>. SUFFICES ASSUME NEW r \in AllRails, NEW a \in Attempts,
                           transfer[p][r][a] \notin {"none", "back"}
                    PROVE  r = payout[p].provider /\ a = payout[p].attempt
        BY DEF Live
      <3>1. a \in Nat
        BY PayoutAssumption DEF Attempts
      <3>. QED
        BY <2>1, <3>1 DEF MoneyInv, MoneyKept, Moved
    <2>3. IsFiniteSet({k}) /\ Cardinality({k}) = 1
      BY FS_Singleton
    <2>. QED
      BY <2>2, <2>3, FS_Subset
  <1>. QED
    BY <1>1, MoneyInvariance, PTL

\* Money leaves only under a payout's claimed attempt and rail, for a delivered
\* order (sendPayout after processPayout's claim, or recoverProcessingPayout),
\* until something has crossed: it looks at the row no more before it sends.
THEOREM SendsClaimed == Spec => SendsOnlyClaimed
  <1>. DEFINE Sent == \A p \in Payouts, r \in AllRails, a \in Attempts :
                        transfer[p][r][a] = "none" /\ transfer'[p][r][a] # "none" =>
                          /\ payout[p].status = "processing"
                          /\ payout[p].attempt = a /\ payout[p].provider = r
                          /\ order[p] # "accepted"
  <1>1. RowInv /\ Orderly /\ [Next]_vars => [~crossed => Sent]_codeVars
    <2>. SUFFICES ASSUME RowInv, MoneyInv, [Next]_vars PROVE Sent
      BY DEF Orderly
    <2>0. transfer \in [Payouts -> [AllRails -> [Attempts -> TransferStates]]]
      BY DEF RowInv, Typed
    <2>1. CASE UNCHANGED transfer
      BY <2>1
    <2>2. ASSUME NEW j \in Jobs, Send(j) PROVE Sent
      <3>. DEFINE p == job[j].payout
                  r == job[j].provider
                  a == job[j].attempt
      <3>1. /\ p \in Payouts /\ r \in AllRails /\ a \in Attempts
            /\ Current(j) \/ Moved(p, r, a)
        BY <2>2 DEF Send, RowInv, Typed, JobKnows, Memory, MoneyInv, Certain, Sure
      <3>2. CASE transfer[p][r][a] = "none" /\ \E x \in {"paid", "transit"} :
                    transfer' = [transfer EXCEPT ![p][r][a] = x]
        <4>1. Current(j) /\ order[p] # "accepted"
          BY <3>1, <3>2 DEF Moved, Current, RowInv, ClaimsDelivered
        <4>2. PICK x \in {"paid", "transit"} : transfer' = [transfer EXCEPT ![p][r][a] = x]
          BY <3>2
        <4>3. \A q \in Payouts, s \in AllRails, b \in Attempts :
                 transfer'[q][s][b] = IF q = p /\ s = r /\ b = a THEN x ELSE transfer[q][s][b]
          BY <2>0, <3>1, <4>2
        <4>. QED
          BY <4>1, <4>3 DEF Current
      <3>. QED
        BY <2>1, <2>2, <3>2 DEF Send
    <2>3. CASE PaypalNext
      <3>1. ASSUME NEW p \in Payouts, NEW a \in Attempts, PaypalSettles(p, a)
            PROVE  \A q \in Payouts, s \in AllRails, b \in Attempts :
                      transfer[q][s][b] = "none" => transfer'[q][s][b] = "none"
        <4>1. PICK outcome \in PaypalOutcomes :
                /\ transfer[p]["paypal"][a] = outcome[1]
                /\ transfer' = [transfer EXCEPT ![p]["paypal"][a] = outcome[2]]
          BY <3>1 DEF PaypalSettles
        <4>2. outcome[1] # "none"
          BY DEF PaypalOutcomes
        <4>. HIDE DEF PaypalOutcomes
        <4>. QED
          BY <2>0, <4>1, <4>2
      <3>2. ASSUME NEW e \in events, PayoutEvent(e)
            PROVE  \A q \in Payouts, s \in AllRails, b \in Attempts :
                      transfer[q][s][b] = "none" => transfer'[q][s][b] = "none"
        <4>1. \/ UNCHANGED transfer
              \/ /\ transfer[e.payout]["paypal"][e.attempt] = "unclaimed"
                 /\ \E x \in {"back", "kept"} :
                       transfer' = [transfer EXCEPT ![e.payout]["paypal"][e.attempt] = x]
          BY <3>2 DEF PayoutEvent, Superseded, Succeeded, Unsuccessful
        <4>2. e.payout \in Payouts /\ e.attempt \in Attempts /\ "paypal" \in AllRails
          BY DEF RowInv, Typed, AllRails
        <4>. DEFINE q == e.payout
                    b == e.attempt
        <4>. HIDE DEF q, b
        <4>3. \/ UNCHANGED transfer
              \/ /\ transfer[q]["paypal"][b] = "unclaimed"
                 /\ \E x \in {"back", "kept"} : transfer' = [transfer EXCEPT ![q]["paypal"][b] = x]
          BY <4>1 DEF q, b
        <4>4. q \in Payouts /\ b \in Attempts
          BY <4>2 DEF q, b
        <4>5. CASE UNCHANGED transfer
          BY <4>5
        <4>6. CASE /\ transfer[q]["paypal"][b] = "unclaimed"
                   /\ \E x \in {"back", "kept"} : transfer' = [transfer EXCEPT ![q]["paypal"][b] = x]
          <5>1. \A t \in Payouts, s \in AllRails, c \in Attempts :
                  \/ transfer'[t][s][c] = transfer[t][s][c]
                  \/ t = q /\ s = "paypal" /\ c = b
            BY <2>0, <4>2, <4>4, <4>6
          <5>. QED
            BY <4>6, <5>1
        <4>. QED
          BY <4>3, <4>5, <4>6
      <3>. QED
        BY <2>3, <3>1, <3>2 DEF PaypalNext
    <2>4. ASSUME NEW p \in Payouts, OrderNext(p) \/ AdminNext(p) PROVE UNCHANGED transfer
      BY <2>4 DEF OrderNext, AdminNext, Deliver, RefundInFull, CloseDispute, RaiseConcern,
         Release, CancelPayout, RetryFailed
    <2>5. CASE VendorNext
      BY <2>1, <2>5 DEF VendorNext, RestrictAccount, RestoreAccount, StartStripe, LoadVendor,
         SaveMethod, RequeueAfterFix, ConnectCrash
    <2>6. ASSUME NEW j \in Jobs, JobNext(j), ~Send(j) PROVE UNCHANGED transfer
      BY <2>6 DEF JobNext, CancelForDeadOrder, ReadClaim, ListStuck, CommitClaim, Load, LookUp,
         Refresh, RequeueInJob, RecordSent, RecordFailure, JobCrash
    <2>7. CASE UNCHANGED vars
      BY <2>1, <2>7 DEF vars, codeVars
    <2>. QED
      BY <2>1, <2>2, <2>3, <2>4, <2>5, <2>6, <2>7 DEF Next, Step
  <1>. QED
    BY <1>1, MoneyInvariance, PTL DEF Spec, SendsOnlyClaimed
=============================================================================
