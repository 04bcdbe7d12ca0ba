---------------------------- MODULE VendorPayout ----------------------------
(***************************************************************************)
(* Paying one vendor for delivered orders (vendor_payout_service.ts).      *)
(*                                                                         *)
(* Runs of the hourly job claim due payouts under a row lock, send the     *)
(* money outside of any transaction, and record the result in a second     *)
(* transaction; a payout left `processing` is recovered by a later run.    *)
(* Around the job: refund and dispute webhooks, PayPal's payout events in  *)
(* any order, an administrator (release, cancel, retry), and the vendor    *)
(* reconnecting a payout account (vendor_payout_method_service.ts), which  *)
(* re-queues what failed or was held because of it.                        *)
(*                                                                         *)
(* Each provider is idempotent by key: a payout's uuid and its send        *)
(* attempt.  `transfer` is the money each moved under each key.            *)
(***************************************************************************)
EXTENDS Naturals, FiniteSets

CONSTANTS
    Payouts,      \* payouts of the vendor, one per accepted order
    Jobs,         \* runs of ProcessVendorPayouts that may overlap
    Rails,        \* the rails the vendor may choose between
    MaxAttempts,  \* bound on payouts.send_attempt
    Mishaps,      \* what may go wrong, a subset of AllMishaps
    None

AllMishaps == {
    "crash",      \* a process dies between two steps; a call's answer is lost
    "refuse",     \* the provider definitely refuses a send
    "restrict",   \* Stripe restricts the vendor's account
    "unclaimed",  \* a PayPal payout finds no account to land on
    "lateClaim",  \* ... and, PayPal not having cancelled it when asked, is
                  \* claimed in the 30 days PayPal keeps it
    "return",     \* PayPal returns a payout it reported as succeeded
    "concern"}    \* the customer is refunded or disputes the payment

AllRails == {"stripe", "paypal"}

ASSUME PayoutAssumption ==
    /\ Rails \subseteq AllRails
    /\ MaxAttempts \in Nat \ {0}
    /\ Mishaps \subseteq AllMishaps
    /\ None \notin Payouts

VARIABLES
    payout,    \* vendor_payouts rows
    vendor,    \* the vendor's payout method columns
    order,     \* status of each payout's order
    concerns,  \* refunds and disputes newer than the last review (released_at)
    transfer,  \* at the providers, by payout, rail and attempt
    account,   \* at Stripe: can the connected account receive payouts?
    events,    \* PayPal payout events not delivered yet
    job,       \* what each job run is doing and holds in memory
    connect,   \* the same for the vendor's reconnection request
    crossed    \* history: something below Crosses has happened

codeVars == <<payout, vendor, order, concerns, transfer, account, events, job, connect>>
vars == <<codeVars, crossed>>
world == <<order, concerns, account>>

Attempts == 1 .. MaxAttempts
Status == {"pending", "held", "processing", "paid", "failed", "cancelled"}
Concerns == {"partial_refund", "open_dispute"}
HoldReasons == Concerns \cup {"payout_method_invalid", "manual"}
Failures == {"recipient", "platform"}
EventTypes == {"SUCCEEDED", "FAILED", "UNCLAIMED", "RETURNED"}
JobSteps == {"idle", "claim", "load", "reload", "lookup", "refresh", "requeue",
             "send", "record", "fail"}

\* Money the providers moved under one key: a Stripe transfer is `paid`; a PayPal
\* payout is in transit, then arrived, unclaimed, kept (unclaimed, and PayPal did
\* not cancel it when asked), or back with the platform.
TransferStates == {"none", "paid", "transit", "arrived", "unclaimed", "kept", "back"}
\* Money that has left and may stay with the vendor.
Live(p) == {k \in AllRails \X Attempts :
               transfer[p][k[1]][k[2]] \notin {"none", "back"}}

IdleJob == [pc |-> "idle", payout |-> None, attempt |-> 1, provider |-> "stripe",
            rail |-> "stripe", flagged |-> FALSE, note |-> "none"]
JobStep(j, pc) == job' = [job EXCEPT ![j].pc = pc]
JobEnds(j) == job' = [job EXCEPT ![j] = IdleJob]

\* FOR UPDATE: only the claim keeps a payout's lock over several reads.
Locked(p) == \E j \in Jobs : job[j].pc = "claim" /\ job[j].payout = p

MethodReady == ~vendor.error /\ (vendor.rail = "stripe" => vendor.enabled)

Init ==
    /\ vendor \in [rail : Rails, error : {FALSE}, enabled : {TRUE}]
    /\ payout = [p \in Payouts |->
                    [status |-> "pending", attempt |-> 1, provider |-> vendor.rail,
                     hold |-> "none", failure |-> "none",
                     handed |-> FALSE,          \* provider_transaction_id is set
                     eligible |-> FALSE]]       \* eligible_at has passed
    /\ order = [p \in Payouts |-> "accepted"]
    /\ concerns = [p \in Payouts |-> {}]
    /\ transfer = [p \in Payouts |-> [r \in AllRails |-> [a \in Attempts |-> "none"]]]
    /\ account = TRUE
    /\ events = {}
    /\ job = [j \in Jobs |-> IdleJob]
    /\ connect = [pc |-> "idle", to |-> "stripe", flagged |-> FALSE]
    /\ crossed = FALSE

-----------------------------------------------------------------------------
(***************************************************************************)
(* The order: delivery starts the payout clock; refunds and disputes.      *)
(***************************************************************************)

Deliver(p) ==
    /\ order[p] = "accepted"
    /\ order' = [order EXCEPT ![p] = "delivered"]
    /\ payout' = [payout EXCEPT ![p].eligible = (payout[p].status = "pending")]
    /\ UNCHANGED <<vendor, concerns, transfer, account, events, job, connect>>

RefundInFull(p) ==
    /\ "concern" \in Mishaps
    /\ order[p] # "refunded"
    /\ order' = [order EXCEPT ![p] = "refunded"]
    /\ concerns' = [concerns EXCEPT ![p] = @ \cup {"partial_refund"}]
    /\ UNCHANGED <<payout, vendor, transfer, account, events, job, connect>>

RaiseConcern(p, c) ==
    /\ "concern" \in Mishaps
    /\ c \notin concerns[p]
    /\ concerns' = [concerns EXCEPT ![p] = @ \cup {c}]
    /\ UNCHANGED <<payout, vendor, order, transfer, account, events, job, connect>>

CloseDispute(p) ==
    /\ "open_dispute" \in concerns[p]
    /\ concerns' = [concerns EXCEPT ![p] = @ \ {"open_dispute"}]
    /\ UNCHANGED <<payout, vendor, order, transfer, account, events, job, connect>>

-----------------------------------------------------------------------------
(***************************************************************************)
(* A run of the job.                                                       *)
(***************************************************************************)

CancelForDeadOrder(j, p) ==
    /\ job[j].pc = "idle"
    /\ ~Locked(p)
    /\ payout[p].status \in {"pending", "held"}
    /\ order[p] = "refunded"
    /\ payout' = [payout EXCEPT ![p].status = "cancelled"]
    /\ UNCHANGED <<vendor, world, transfer, events, job, connect>>

\* Why a due payout must wait, or "none": refunds come first, then disputes,
\* then the vendor's payout method.
HoldReason(p) ==
    IF "partial_refund" \in concerns[p] THEN "partial_refund"
    ELSE IF "open_dispute" \in concerns[p] THEN "open_dispute"
    ELSE IF MethodReady THEN "none"
    ELSE IF vendor.error THEN "payout_method_invalid" ELSE "manual"

\* processPayout's transaction locks the row, reads the order, its refunds and
\* disputes and the vendor ...
ReadClaim(j, p) ==
    /\ job[j].pc = "idle"
    /\ ~Locked(p)
    /\ payout[p].status = "pending"
    /\ payout[p].eligible
    /\ order[p] = "delivered"
    /\ job' = [job EXCEPT ![j].pc = "claim", ![j].payout = p,
                          ![j].rail = vendor.rail, ![j].note = HoldReason(p)]
    /\ UNCHANGED <<payout, vendor, world, transfer, events, connect>>

\* ... and then holds or claims it.
CommitClaim(j) ==
    LET p == job[j].payout IN
    /\ job[j].pc = "claim"
    /\ \/ /\ job[j].note # "none"
          /\ payout' = [payout EXCEPT ![p].status = "held", ![p].hold = job[j].note]
          /\ JobEnds(j)
       \/ /\ job[j].note = "none"
          /\ payout' = [payout EXCEPT ![p].status = "processing",
                                      ![p].provider = job[j].rail]
          /\ JobStep(j, "load")
    /\ UNCHANGED <<vendor, world, transfer, events, connect>>

\* Slip: failed payouts are taken for stuck ones.
ListFailedToo(j, p) ==
    /\ job[j].pc = "idle"
    /\ payout[p].status \in {"processing", "failed"}
    /\ job' = [job EXCEPT ![j].pc = "reload", ![j].payout = p]
    /\ UNCHANGED <<payout, vendor, world, transfer, events, connect>>

\* A payout found `processing` for too long is taken up by id, and its row is
\* not locked nor its status looked at again.
ListStuck(j, p) ==
    /\ job[j].pc = "idle"
    /\ payout[p].status = "processing"
    /\ job' = [job EXCEPT ![j].pc = "reload", ![j].payout = p]
    /\ UNCHANGED <<payout, vendor, world, transfer, events, connect>>

FirstCall(provider) == IF provider = "stripe" THEN "refresh" ELSE "send"

\* Both paths re-fetch the payout and the vendor; recovery looks the key up.
Load(j) ==
    LET row == payout[job[j].payout] IN
    /\ job[j].pc \in {"load", "reload"}
    /\ job' = [job EXCEPT
          ![j].pc = IF job[j].pc = "reload" THEN "lookup" ELSE FirstCall(row.provider),
          ![j].attempt = row.attempt, ![j].provider = row.provider,
          ![j].rail = vendor.rail, ![j].flagged = vendor.error,
          ![j].note = IF row.handed THEN "handed" ELSE "none"]
    /\ UNCHANGED <<payout, vendor, world, transfer, events, connect>>

\* Slip: a transfer found under the key is not recorded.
FoundForgotten(j) ==
    LET known == /\ job[j].provider = "stripe"
                 /\ transfer[job[j].payout]["stripe"][job[j].attempt] # "none"
        waits == job[j].provider = "paypal" /\ job[j].note = "handed" IN
    /\ job[j].pc = "lookup"
    /\ \/ (known \/ waits) /\ JobEnds(j)
       \/ ~known /\ ~waits /\ JobStep(j, FirstCall(job[j].provider))
    /\ UNCHANGED <<payout, vendor, world, transfer, events, connect>>

\* recoverProcessingPayout: Stripe can look a key up, PayPal cannot; a payout
\* PayPal has answered for waits for its webhook, any other is sent again.
LookUp(j) ==
    LET known == /\ job[j].provider = "stripe"
                 /\ transfer[job[j].payout]["stripe"][job[j].attempt] # "none"
        waits == job[j].provider = "paypal" /\ job[j].note = "handed" IN
    /\ job[j].pc = "lookup"
    /\ \/ known /\ job' = [job EXCEPT ![j].pc = "record", ![j].note = "paid"]
       \/ waits /\ JobEnds(j)
       \/ ~known /\ ~waits /\ JobStep(j, FirstCall(job[j].provider))
    /\ UNCHANGED <<payout, vendor, world, transfer, events, connect>>

\* refreshStripeStatus, before every transfer: what Stripe says of the account
\* is saved, and a flagged vendor who can be paid again is recovered.
Refresh(j) ==
    /\ job[j].pc = "refresh"
    /\ \/ /\ ~account
          /\ vendor' = [vendor EXCEPT !.enabled = FALSE]
          /\ job' = [job EXCEPT ![j].pc = "fail", ![j].note = "recipient"]
       \/ /\ account
          /\ job[j].rail = "stripe" /\ job[j].flagged
          /\ vendor' = [vendor EXCEPT !.enabled = TRUE, !.error = FALSE]
          /\ JobStep(j, "requeue")
       \/ /\ account
          /\ ~(job[j].rail = "stripe" /\ job[j].flagged)
          /\ vendor' = [vendor EXCEPT !.enabled = TRUE]
          /\ JobStep(j, "send")
    /\ UNCHANGED <<payout, world, transfer, events, connect>>

\* Re-queued, due at once; a failed attempt's key is not used again.
Requeued(row) ==
    [row EXCEPT !.status = "pending", !.eligible = TRUE,
                !.hold = "none", !.failure = "none",
                !.attempt = IF row.status = "failed" THEN @ + 1 ELSE @,
                !.handed = IF row.status = "failed" THEN FALSE ELSE @]

BlockedByMethod(row) ==
    \/ row.status = "failed" /\ row.failure = "recipient"
    \/ row.status = "held" /\ row.hold = "payout_method_invalid"

\* requeueAfterPayoutMethodFixed, one transaction; a row out of attempts (the
\* bound MaxAttempts) stays as it is.  It skips the rows a claim is about to
\* hold: they do not match when it reads.
RequeueBlocked ==
    LET blocked == {p \in Payouts : /\ BlockedByMethod(payout[p])
                                    /\ Requeued(payout[p]).attempt <= MaxAttempts} IN
    /\ \A p \in blocked : ~Locked(p)
    /\ payout' = [p \in Payouts |-> IF p \in blocked THEN Requeued(payout[p]) ELSE payout[p]]

RequeueInJob(j) ==
    /\ job[j].pc = "requeue"
    /\ RequeueBlocked
    /\ JobStep(j, "send")
    /\ UNCHANGED <<vendor, world, transfer, events, connect>>

\* getPayoutGateway().send, to the destination of the rail the vendor was on
\* when loaded.  A known key answers as before and moves nothing.
Send(j) ==
    LET p == job[j].payout
        a == job[j].attempt
        r == job[j].provider
        stripe == r = "stripe"
        answer == IF stripe THEN "paid" ELSE "processing"
        misdirected == job[j].rail # r
        Answered == job' = [job EXCEPT ![j].pc = "record", ![j].note = answer]
        Refused(kind) == job' = [job EXCEPT ![j].pc = "fail", ![j].note = kind]
    IN
    /\ job[j].pc = "send"
    /\ \/ /\ transfer[p][r][a] # "none"
          /\ Answered
          /\ UNCHANGED transfer
       \/ /\ transfer[p][r][a] = "none"
          /\ ~misdirected
          /\ stripe => account
          /\ transfer' = [transfer EXCEPT ![p][r][a] = IF stripe THEN "paid" ELSE "transit"]
          /\ Answered
       \/ /\ transfer[p][r][a] = "none"
          /\ misdirected \/ (stripe /\ ~account)
          /\ Refused(IF stripe THEN "recipient" ELSE "platform")
          /\ UNCHANGED transfer
       \/ /\ transfer[p][r][a] = "none"
          /\ "refuse" \in Mishaps
          /\ Refused("platform")
          /\ UNCHANGED transfer
    /\ UNCHANGED <<payout, vendor, world, events, connect>>

\* recordSent: only while the payout is processing.
RecordSent(j) ==
    LET p == job[j].payout IN
    /\ job[j].pc = "record"
    /\ ~Locked(p)
    /\ payout' = IF payout[p].status # "processing" THEN payout
                 ELSE [payout EXCEPT ![p].handed = TRUE,
                         ![p].status = IF job[j].note = "paid" THEN "paid" ELSE @]
    /\ JobEnds(j)
    /\ UNCHANGED <<vendor, world, transfer, events, connect>>

\* Slip: the status and the kind of failure change places.
FailSwapped(p, kind) ==
    IF payout[p].status \in {"processing", "paid"}
    THEN /\ payout' = [payout EXCEPT ![p].status = kind, ![p].failure = "failed"]
         /\ vendor' = [vendor EXCEPT !.error = @ \/ kind = "recipient"]
    ELSE UNCHANGED <<payout, vendor>>

\* recordPayoutFailure: whatever attempt the row is at, while it is processing
\* or paid.  A recipient failure flags the vendor in the same transaction.
FailPayout(p, kind) ==
    IF payout[p].status \in {"processing", "paid"}
    THEN /\ payout' = [payout EXCEPT ![p].status = "failed", ![p].failure = kind]
         /\ vendor' = [vendor EXCEPT !.error = @ \/ kind = "recipient"]
    ELSE UNCHANGED <<payout, vendor>>

RecordFailure(j) ==
    /\ job[j].pc = "fail"
    /\ ~Locked(job[j].payout)
    /\ FailPayout(job[j].payout, job[j].note)
    /\ JobEnds(j)
    /\ UNCHANGED <<world, transfer, events, connect>>

\* The run dies, or a call's answer is lost and the run moves on.
JobCrash(j) ==
    /\ "crash" \in Mishaps
    /\ job[j].pc # "idle"
    /\ JobEnds(j)
    /\ UNCHANGED <<payout, vendor, world, transfer, events, connect>>

-----------------------------------------------------------------------------
(***************************************************************************)
(* PayPal settles an accepted payout by itself and reports it by webhook,  *)
(* each event applied once (webhook_events) but in any order.              *)
(***************************************************************************)

\* From a state of the transfer to the next, and the event that tells of it.
PaypalOutcomes ==
    {<<"transit", "arrived", "SUCCEEDED">>, <<"transit", "back", "FAILED">>,
     <<"unclaimed", "back", "RETURNED">>, <<"kept", "back", "RETURNED">>}
    \cup (IF "unclaimed" \in Mishaps THEN {<<"transit", "unclaimed", "UNCLAIMED">>} ELSE {})
    \cup (IF "lateClaim" \in Mishaps THEN {<<"unclaimed", "arrived", "SUCCEEDED">>,
                                            <<"kept", "arrived", "SUCCEEDED">>} ELSE {})
    \cup (IF "return" \in Mishaps THEN {<<"arrived", "back", "RETURNED">>} ELSE {})

PaypalSettles(p, a) ==
    /\ \E outcome \in PaypalOutcomes :
        /\ transfer[p]["paypal"][a] = outcome[1]
        /\ transfer' = [transfer EXCEPT ![p]["paypal"][a] = outcome[2]]
        /\ events' = events \cup {[payout |-> p, attempt |-> a, type |-> outcome[3]]}
    /\ UNCHANGED <<payout, vendor, world, job, connect>>

\* applyPaypalPayoutItemEvent, in the webhook's transaction: an event about a
\* superseded attempt is ignored,
Superseded(e) ==
    /\ e.attempt # payout[e.payout].attempt
    /\ UNCHANGED <<payout, vendor, transfer>>

\* a success completes a payout still processing,
Succeeded(e) ==
    /\ e.attempt = payout[e.payout].attempt
    /\ e.type = "SUCCEEDED"
    /\ payout' = IF payout[e.payout].status # "processing" THEN payout
                 ELSE [payout EXCEPT ![e.payout].status = "paid",
                                     ![e.payout].handed = TRUE]
    /\ UNCHANGED <<vendor, transfer>>

\* Slip: the unclaimed money is not pulled back before the payout fails.
NotPulledBack(e, kind) ==
    LET p == e.payout
        fails == payout[p].status \in {"processing", "paid"} IN
    /\ e.attempt = payout[p].attempt
    /\ e.type # "SUCCEEDED"
    /\ e.type \in {"UNCLAIMED", "RETURNED"} => kind = "recipient"
    /\ payout' = [payout EXCEPT ![p].handed = TRUE,
                    ![p].status = IF fails THEN "failed" ELSE @,
                    ![p].failure = IF fails THEN kind ELSE @]
    /\ vendor' = [vendor EXCEPT !.error = @ \/ (fails /\ kind = "recipient")]
    /\ UNCHANGED transfer

\* and anything else fails it, an unclaimed one being pulled back first (if that
\* call fails it is logged and the payout is failed all the same).
Unsuccessful(e, kind) ==
    LET p == e.payout
        fails == payout[p].status \in {"processing", "paid"} IN
    /\ e.attempt = payout[p].attempt
    /\ e.type # "SUCCEEDED"
    /\ e.type \in {"UNCLAIMED", "RETURNED"} => kind = "recipient"
    /\ \/ /\ e.type = "UNCLAIMED" /\ transfer[p]["paypal"][e.attempt] = "unclaimed"
          /\ \E now \in {"back"} \cup (IF "lateClaim" \in Mishaps THEN {"kept"} ELSE {}) :
                transfer' = [transfer EXCEPT ![p]["paypal"][e.attempt] = now]
       \/ /\ e.type # "UNCLAIMED" \/ transfer[p]["paypal"][e.attempt] # "unclaimed"
          /\ UNCHANGED transfer
    /\ payout' = [payout EXCEPT ![p].handed = TRUE,
                    ![p].status = IF fails THEN "failed" ELSE @,
                    ![p].failure = IF fails THEN kind ELSE @]
    /\ vendor' = [vendor EXCEPT !.error = @ \/ (fails /\ kind = "recipient")]

PayoutEvent(e) ==
    /\ e \in events
    /\ ~Locked(e.payout)
    /\ Superseded(e) \/ Succeeded(e) \/ \E kind \in Failures : Unsuccessful(e, kind)
    /\ events' = events \ {e}
    /\ UNCHANGED <<world, job, connect>>

-----------------------------------------------------------------------------
(***************************************************************************)
(* An administrator.                                                       *)
(***************************************************************************)

\* releaseHeldPayout: reviews every refund and dispute known so far.
Release(p) ==
    /\ payout[p].status = "held"
    /\ ~Locked(p)
    /\ payout' = [payout EXCEPT ![p].status = "pending", ![p].hold = "none",
                                ![p].eligible = TRUE]
    /\ concerns' = [concerns EXCEPT ![p] = {}]
    /\ UNCHANGED <<vendor, order, transfer, account, events, job, connect>>

CancelPayout(p) ==
    /\ payout[p].status \in {"pending", "held", "failed"}
    /\ ~Locked(p)
    /\ payout' = [payout EXCEPT ![p].status = "cancelled"]
    /\ UNCHANGED <<vendor, world, transfer, events, job, connect>>

RetryFailed(p) ==
    /\ payout[p].status = "failed"
    /\ ~Locked(p)
    /\ payout[p].attempt < MaxAttempts
    /\ payout' = [payout EXCEPT ![p] = Requeued(@)]
    /\ UNCHANGED <<vendor, world, transfer, events, job, connect>>

-----------------------------------------------------------------------------
(***************************************************************************)
(* The vendor reconnects a payout account.                                 *)
(***************************************************************************)

RestrictAccount ==
    /\ "restrict" \in Mishaps
    /\ account
    /\ account' = FALSE
    /\ UNCHANGED <<payout, vendor, order, concerns, transfer, events, job, connect>>

RestoreAccount ==
    /\ ~account
    /\ account' = TRUE
    /\ UNCHANGED <<payout, vendor, order, concerns, transfer, events, job, connect>>

\* startStripeOnboarding for a vendor who already has a connected account.
StartStripe ==
    /\ "stripe" \in Rails
    /\ vendor.rail = "paypal"
    /\ vendor' = [vendor EXCEPT !.rail = "stripe"]
    /\ UNCHANGED <<payout, world, transfer, events, job, connect>>

\* The request loads the vendor: a PayPal connection, or the return from Stripe.
LoadVendor(to) ==
    /\ connect.pc = "idle"
    /\ to = "stripe" => vendor.rail = "stripe"
    /\ connect' = [pc |-> "save", to |-> to, flagged |-> vendor.error]
    /\ UNCHANGED <<payout, vendor, world, transfer, events, job>>

\* completePaypalConnect, or refreshStripeStatus.  The error is cleared only if
\* the request had read one: Lucid saves the columns it changed.
SaveMethod ==
    LET recovers == connect.flagged /\ (connect.to = "stripe" => account) IN
    /\ connect.pc = "save"
    /\ vendor' = [vendor EXCEPT
          !.rail = IF connect.to = "paypal" THEN "paypal" ELSE @,
          !.enabled = IF connect.to = "stripe" THEN account ELSE @,
          !.error = @ /\ ~recovers]
    /\ connect' = [connect EXCEPT !.pc = IF recovers THEN "requeue" ELSE "idle"]
    /\ UNCHANGED <<payout, world, transfer, events, job>>

RequeueAfterFix ==
    /\ connect.pc = "requeue"
    /\ RequeueBlocked
    /\ connect' = [connect EXCEPT !.pc = "idle"]
    /\ UNCHANGED <<vendor, world, transfer, events, job>>

ConnectCrash ==
    /\ "crash" \in Mishaps
    /\ connect.pc # "idle"
    /\ connect' = [connect EXCEPT !.pc = "idle"]
    /\ UNCHANGED <<payout, vendor, world, transfer, events, job>>

-----------------------------------------------------------------------------
JobNext(j) ==
    \/ \E p \in Payouts : CancelForDeadOrder(j, p) \/ ReadClaim(j, p) \/ ListStuck(j, p)
    \/ CommitClaim(j) \/ Load(j) \/ LookUp(j) \/ Refresh(j) \/ RequeueInJob(j)
    \/ Send(j) \/ RecordSent(j) \/ RecordFailure(j) \/ JobCrash(j)

OrderNext(p) ==
    \/ Deliver(p) \/ RefundInFull(p) \/ CloseDispute(p)
    \/ \E c \in Concerns : RaiseConcern(p, c)

AdminNext(p) == Release(p) \/ CancelPayout(p) \/ RetryFailed(p)

PaypalNext ==
    \/ \E p \in Payouts, a \in Attempts : PaypalSettles(p, a)
    \/ \E e \in events : PayoutEvent(e)

VendorNext ==
    \/ RestrictAccount \/ RestoreAccount \/ StartStripe
    \/ \E to \in Rails : LoadVendor(to)
    \/ SaveMethod \/ RequeueAfterFix \/ ConnectCrash

Step ==
    \/ \E j \in Jobs : JobNext(j)
    \/ \E p \in Payouts : OrderNext(p) \/ AdminNext(p)
    \/ PaypalNext
    \/ VendorNext

\* Two runs are at work on one payout.
Shared == \E i, j \in Jobs : i # j /\ job[i].payout = job[j].payout /\ job[i].payout # None

\* Listed as stuck, by a run that works through its list.
Listed(p) == \E j \in Jobs : job[j].pc = "reload" /\ job[j].payout = p

\* Two runs share a payout; one changes between the listing and the recovery;
\* or one fails for its money being unclaimed, which PayPal does not give back or
\* the vendor has claimed since.
Crosses ==
    \/ Shared'
    \/ \E p \in Payouts : Listed(p) /\ payout'[p] # payout[p]
    \/ \E e \in events \ events' :
          /\ e.type = "UNCLAIMED" /\ e.attempt = payout[e.payout].attempt
          /\ transfer'[e.payout]["paypal"][e.attempt] \in {"kept", "arrived"}

Next == Step /\ crossed' = (crossed \/ Crosses)

Spec == Init /\ [][Next]_vars

(***************************************************************************)
(* Fairness: the job runs every hour and visits every due and every stuck  *)
(* payout, and of its repeated calls to a provider some are answered.      *)
(* PayPal settles what it accepted and its events are delivered in the     *)
(* end (it repeats an event until it is acknowledged).                     *)
(***************************************************************************)
Visits(j, p) == ReadClaim(j, p) \/ ListStuck(j, p) \/ CancelForDeadOrder(j, p)
Works(j) ==
    CommitClaim(j) \/ Load(j) \/ LookUp(j) \/ Refresh(j) \/ RequeueInJob(j)
    \/ Send(j) \/ RecordSent(j) \/ RecordFailure(j)

Fairness ==
    /\ \A j \in Jobs :
        /\ WF_codeVars(Works(j))
        /\ SF_codeVars(RecordSent(j)) /\ SF_codeVars(RecordFailure(j))
        /\ SF_codeVars(Load(j)) /\ SF_codeVars(LookUp(j)) /\ SF_codeVars(Refresh(j)) /\ SF_codeVars(Send(j))
        /\ \A p \in Payouts : SF_codeVars(Visits(j, p))
    /\ \A p \in Payouts, a \in Attempts : WF_codeVars(PaypalSettles(p, a))
    /\ \A p \in Payouts, a \in Attempts, t \in EventTypes :
        WF_codeVars(PayoutEvent([payout |-> p, attempt |-> a, type |-> t]))

FairSpec == Spec /\ Fairness

-----------------------------------------------------------------------------
(***************************************************************************)
(* Properties.                                                             *)
(***************************************************************************)

\* Rows, transfers, events and memories are of their kinds.
TypeOK ==
    /\ payout \in [Payouts -> [status : Status, attempt : Attempts, provider : AllRails,
                               hold : HoldReasons \cup {"none"},
                               failure : Failures \cup {"none"},
                               handed : BOOLEAN, eligible : BOOLEAN]]
    /\ vendor \in [rail : AllRails, error : BOOLEAN, enabled : BOOLEAN]
    /\ order \in [Payouts -> {"accepted", "delivered", "refunded"}]
    /\ concerns \in [Payouts -> SUBSET Concerns]
    /\ transfer \in [Payouts -> [AllRails -> [Attempts -> TransferStates]]]
    /\ account \in BOOLEAN
    /\ events \subseteq [payout : Payouts, attempt : Attempts, type : EventTypes]
    /\ job \in [Jobs -> [pc : JobSteps, payout : Payouts \cup {None}, attempt : Attempts,
                         provider : AllRails, rail : AllRails, flagged : BOOLEAN,
                         note : HoldReasons \cup Failures
                                \cup {"none", "handed", "paid", "processing"}]]
    /\ connect \in [pc : {"idle", "save", "requeue"}, to : AllRails, flagged : BOOLEAN]

\* The vendor is never paid twice for one order (vendor_payout_service.ts:14-17):
\* at most one attempt's money is out, whichever rails the attempts went by,
\* until runs share a payout, a recovery is overtaken or unclaimed money is kept.
PaidOnce == ~crossed => \A p \in Payouts : Cardinality(Live(p)) <= 1

\* Until then money leaves only for a payout claimed for that very attempt and
\* rail, on an order that was delivered (it may have been refunded since).
SendsOnlyClaimed ==
    [][~crossed =>
       \A p \in Payouts, r \in AllRails, a \in Attempts :
          transfer[p][r][a] = "none" /\ transfer'[p][r][a] # "none" =>
              /\ payout[p].status = "processing"
              /\ payout[p].attempt = a /\ payout[p].provider = r
              /\ order[p] # "accepted"]_codeVars

\* A payout is not `processing` for ever: the sweep or PayPal's event ends it.
ProcessingEnds ==
    \A p \in Payouts : (payout[p].status = "processing") ~> (payout[p].status # "processing")
=============================================================================
