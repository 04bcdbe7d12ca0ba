------------------------------ MODULE Earnings ------------------------------
(***************************************************************************)
(* What a vendor earns for one order (payout_calculation_service.ts): the  *)
(* breakdown is taken when the vendor accepts, by the rates of that moment *)
(* and the materials the parts have then, is computed again when staff     *)
(* change a part's material or technology (project_files_controller.ts),   *)
(* and decides the amount the payout job sends.                            *)
(*                                                                         *)
(* A change runs the statements of one transaction against the other       *)
(* transactions: the part's row is locked when it is saved, the payout's   *)
(* when it is selected for update, and nobody sees the new material before *)
(* the commit.  Of the order the model keeps how far it is, of the payout  *)
(* job one run at a time, of the provider the amount it took; Checkout,    *)
(* OrderLifecycle and VendorPayout have the rest.  Amounts are integer     *)
(* cents, percentages hundredths of a percent.                             *)
(***************************************************************************)
EXTENDS Integers, FiniteSets, Functions

CONSTANTS
    Items,          \* the order's items, each of one part
    ItemTotal,      \* what the customer paid for each item, in cents
    Fee,            \* the order's production-time fee, in cents
    Materials,      \* the materials offered
    TechOf,         \* the technology of each material
    Defaults,       \* the default materials of the technologies
    Percentages,    \* the rates an administrator may set, in 1/100 percent
    FirstMaterial,  \* the parts' materials when the order is made
    FirstRate,      \* the vendor's rates at first (None: not set)
    Slots,          \* requests, reused when one has ended
    MaxRatings,     \* rates set at most
    None

Whole == 10000

ASSUME EarningsAssumption ==
    /\ ItemTotal \in [Items -> Nat] /\ Fee \in Nat
    /\ Defaults \subseteq Materials
    /\ Percentages \subseteq 0 .. Whole
    /\ FirstMaterial \in [Items -> Materials]
    /\ FirstRate \in [Materials -> Percentages \cup {None}]
    /\ MaxRatings \in Nat /\ None \notin Percentages

VARIABLES
    material,  \* project_files.material_id of each item's part, as committed
    rate,      \* vendor_payout_rates of the vendor
    order,     \* orders.status: open, accepted, in_progress or delivered
    payout,    \* the vendor_payouts row
    taken,     \* what the provider took for the payout and has not given back
    job,       \* the run of the payout job, and the amount it holds in memory
    run,       \* what each request is doing and holds in memory
    ratings,   \* rates set so far
    missed,    \* history: a change was committed that did not find the payout
    overtaken  \* history: the job sent a payout that was not processing any more

vars == <<material, rate, order, payout, taken, job, run, ratings, missed, overtaken>>

OrderStatus == {"open", "accepted", "in_progress", "delivered"}
PayoutStatus == {"none", "pending", "held", "processing", "paid", "failed", "cancelled"}

-----------------------------------------------------------------------------
(***************************************************************************)
(* The calculation.                                                        *)
(***************************************************************************)

\* One line: the vendor's percentage of the item's total, to the nearest cent.
Share(cents, percentage) == (2 * cents * percentage + Whole) \div (2 * Whole)

\* Slip: a material without a rate is passed over.
RatableInPart(mat) == \E i \in Items : rate[mat[i]] # None

\* No breakdown without a rate for every item's material.
Ratable(mat) == \A i \in Items : rate[mat[i]] # None
Lines(mat) == [i \in Items |-> [material |-> mat[i], percentage |-> rate[mat[i]]]]
LineCents(lines) == [i \in Items |-> Share(ItemTotal[i], lines[i].percentage)]

\* The breakdown's total: the lines, each rounded, and the whole rush fee.
Total(lines) == SumFunctionOnSet(LineCents(lines), Items) + Fee

-----------------------------------------------------------------------------

Idle == [op |-> "idle"]
Changing == {s \in Slots : run[s].op = "change"}
Accepting == {s \in Slots : run[s].op = "accept"}
Ends(s) == run' = [run EXCEPT ![s] = Idle]
Continue(s, r) == run' = [run EXCEPT ![s] = r]
Job(at, cents) == [at |-> at, amount |-> cents]
Rest == Job("idle", None)

\* Rows locked by a transaction in progress: a part's from its save to the
\* commit, the payout's from the select that found it pending.
PartFree(i) == \A s \in Changing : run[s].item = i => run[s].at = "checked"
PayoutFree == \A s \in Changing : ~run[s].found

Init ==
    /\ material = FirstMaterial
    /\ rate = FirstRate
    /\ order = "open"
    /\ payout = [status |-> "none"]
    /\ taken = None
    /\ job = Rest
    /\ run = [s \in Slots |-> Idle]
    /\ ratings = 0
    /\ missed = FALSE
    /\ overtaken = FALSE

-----------------------------------------------------------------------------
(***************************************************************************)
(* Rates, and the vendor's acceptance.                                     *)
(***************************************************************************)

\* An administrator sets the rate of a material; nothing else is looked at.
UpdateRate(m, p) ==
    /\ ratings < MaxRatings
    /\ rate[m] # p
    /\ rate' = [rate EXCEPT ![m] = p]
    /\ ratings' = ratings + 1
    /\ UNCHANGED <<material, order, payout, taken, job, run, missed, overtaken>>

\* The vendor accepts: the breakdown is computed first in the transaction ...
AcceptRead(s) ==
    /\ run[s] = Idle /\ order = "open"
    /\ Ratable(material)
    /\ Continue(s, [op |-> "accept", lines |-> Lines(material)])
    /\ UNCHANGED <<material, rate, order, payout, taken, job, ratings, missed, overtaken>>

\* ... and goes into the payout if the order is still open.
AcceptCommit(s) ==
    /\ run[s].op = "accept"
    /\ IF order = "open"
       THEN /\ order' = "accepted"
            /\ payout' = [status |-> "pending", lines |-> run[s].lines,
                          amount |-> Total(run[s].lines)]
       ELSE UNCHANGED <<order, payout>>
    /\ Ends(s)
    /\ UNCHANGED <<material, rate, taken, job, ratings, missed, overtaken>>

\* The vendor makes the parts; then they are shipped and delivered.
Produce == order = "accepted" /\ order' = "in_progress"
Deliver == order = "in_progress" /\ order' = "delivered"
Proceed == (Produce \/ Deliver)
           /\ UNCHANGED <<material, rate, payout, taken, job, run, ratings, missed, overtaken>>

-----------------------------------------------------------------------------
(***************************************************************************)
(* Staff correct a part after the checkout.                                *)
(***************************************************************************)

\* The part and its locks are read: staff override every lock for a material of
\* the part's technology, and all but the production lock for a technology,
\* which brings its default material.
Overridable(i, m) ==
    \/ TechOf[m] = TechOf[material[i]]
    \/ m \in Defaults /\ order \in {"open", "accepted"}

ChangeRead(s, i, m) ==
    /\ run[s] = Idle
    /\ m # material[i] /\ Overridable(i, m)
    /\ Continue(s, [op |-> "change", at |-> "checked", item |-> i, to |-> m,
                    found |-> FALSE, lines |-> None])
    /\ UNCHANGED <<material, rate, order, payout, taken, job, ratings, missed, overtaken>>

\* The transaction saves the part ...
ChangeSave(s) ==
    /\ run[s].op = "change" /\ run[s].at = "checked" /\ PartFree(run[s].item)
    /\ Continue(s, [run[s] EXCEPT !.at = "saved"])
    /\ UNCHANGED <<material, rate, order, payout, taken, job, ratings, missed, overtaken>>

\* Slip: whatever the payout's status.
SelectAny(s) ==
    /\ PayoutFree
    /\ Continue(s, [run[s] EXCEPT !.at = "selected", !.found = (payout.status # "none")])

\* ... selects the order's payout for update, if it is pending ...
SelectPending(s) ==
    /\ PayoutFree
    /\ Continue(s, [run[s] EXCEPT !.at = "selected",
                    !.found = (payout.status = "pending")])

ChangeSelect(s) ==
    /\ run[s].op = "change" /\ run[s].at = "saved"
    /\ SelectPending(s)
    /\ UNCHANGED <<material, rate, order, payout, taken, job, ratings, missed, overtaken>>

\* Slip: the parts are read outside the transaction.
AsCommitted(s) == material

\* The other parts as committed and the changed one as saved.
AsSaved(s) == [material EXCEPT ![run[s].item] = run[s].to]

\* ... computes its breakdown, or rolls everything back for want of a rate ...
ChangeCompute(s) ==
    LET mat == AsSaved(s) IN
    /\ run[s].op = "change" /\ run[s].at = "selected" /\ run[s].found
    /\ IF Ratable(mat)
       THEN Continue(s, [run[s] EXCEPT !.at = "computed", !.lines = Lines(mat)])
       ELSE Ends(s)
    /\ UNCHANGED <<material, rate, order, payout, taken, job, ratings, missed, overtaken>>

\* ... and commits.
ChangeCommit(s) ==
    /\ run[s].op = "change"
    /\ run[s].at = (IF run[s].found THEN "computed" ELSE "selected")
    /\ material' = [material EXCEPT ![run[s].item] = run[s].to]
    /\ payout' = IF run[s].found
                 THEN [payout EXCEPT !.lines = run[s].lines, !.amount = Total(run[s].lines)]
                 ELSE payout
    /\ missed' = (missed \/ (~run[s].found /\ (payout.status # "none" \/ Accepting # {})))
    /\ Ends(s)
    /\ UNCHANGED <<rate, order, taken, job, ratings, overtaken>>

-----------------------------------------------------------------------------
(***************************************************************************)
(* The payout's way.  Each step is a transaction that locks the row.       *)
(***************************************************************************)

Locked(statuses) == PayoutFree /\ payout.status \in statuses
Becomes(status) == payout' = [payout EXCEPT !.status = status]

\* Delivered and due: claimed, or held for a refund, a dispute or the vendor's
\* account.
Claim ==
    /\ job = Rest /\ order = "delivered" /\ Locked({"pending"})
    /\ \/ Becomes("processing") /\ job' = Job("sending", payout.amount)
       \/ Becomes("held") /\ UNCHANGED job
    /\ UNCHANGED <<material, rate, order, taken, run, ratings, missed, overtaken>>

\* A claimed payout that nobody finished is listed to be recovered ...
ListStuck ==
    /\ job = Rest /\ payout.status = "processing"
    /\ job' = Job("listed", None)
    /\ UNCHANGED <<material, rate, order, payout, taken, run, ratings, missed, overtaken>>

\* ... and loaded later by its id, whatever has become of it, with no lock; it is
\* looked up, and sent again if it is not found: PayPal finds nothing, and what
\* it has answered for waits for its event.
Recover ==
    /\ job.at = "listed"
    /\ \/ taken # None /\ job' = Job("answered", None)
       \/ job' \in {Job("sending", payout.amount), Rest}
    /\ UNCHANGED <<material, rate, order, payout, taken, run, ratings, missed, overtaken>>

\* What the run holds is of a payout that is processing still, or of one that an
\* event and a retry have overtaken.
NotesOvertaken == overtaken' = (overtaken \/ payout.status # "processing")

\* The provider takes the amount the run holds, once for a key; its answer may be
\* lost.  A run overtaken may hold the key of money that was given back.
Send ==
    /\ job.at = "sending"
    /\ taken' \in IF taken # None THEN {taken}
                  ELSE {job.amount} \cup (IF payout.status = "processing" THEN {} ELSE {None})
    /\ job' \in {Job("answered", None), Rest}
    /\ NotesOvertaken
    /\ UNCHANGED <<material, rate, order, payout, run, ratings, missed>>

\* Or it refuses a key it does not know, or is not reached.
SendFails ==
    /\ job.at = "sending" /\ job' = Rest
    /\ payout.status = "processing" => taken = None
    /\ \/ Locked({"processing", "paid"}) /\ Becomes("failed")
       \/ UNCHANGED payout
    /\ NotesOvertaken
    /\ UNCHANGED <<material, rate, order, taken, run, ratings, missed>>

\* The answer, or PayPal's event, makes a payout paid that is processing.
RecordSent ==
    /\ job.at = "answered" \/ taken # None
    /\ IF Locked({"processing"}) THEN Becomes("paid") ELSE UNCHANGED payout
    /\ job' = IF job.at = "answered" THEN Rest ELSE job
    /\ UNCHANGED <<material, rate, order, taken, run, ratings, missed, overtaken>>

\* PayPal gives the money back.
Returned ==
    /\ taken # None /\ Locked({"processing", "paid"})
    /\ Becomes("failed") /\ taken' = None
    /\ UNCHANGED <<material, rate, order, job, run, ratings, missed, overtaken>>

\* An administrator retries, or the vendor's account was repaired.
Requeue ==
    /\ Locked({"failed", "held"})
    /\ Becomes("pending")
    /\ UNCHANGED <<material, rate, order, taken, job, run, ratings, missed, overtaken>>

\* Slip: at any amount up to what the customer paid.
CappedByOrder(cents) == cents \in 1 .. SumFunctionOnSet(ItemTotal, Items) + Fee

\* An administrator releases a hold at a reduced amount.
Capped(cents) == cents \in 1 .. Total(payout.lines)

Release(cents) ==
    /\ Locked({"held"}) /\ Capped(cents)
    /\ payout' = [payout EXCEPT !.status = "pending", !.amount = cents]
    /\ UNCHANGED <<material, rate, order, taken, job, run, ratings, missed, overtaken>>

Cancel ==
    /\ Locked({"pending", "held", "failed"})
    /\ Becomes("cancelled")
    /\ UNCHANGED <<material, rate, order, taken, job, run, ratings, missed, overtaken>>

Change(s) == \/ \E i \in Items, m \in Materials : ChangeRead(s, i, m)
             \/ ChangeSave(s) \/ ChangeSelect(s) \/ ChangeCompute(s) \/ ChangeCommit(s)

Pay == \/ Claim \/ ListStuck \/ Recover \/ Send \/ SendFails \/ RecordSent \/ Returned \/ Requeue
       \/ \E cents \in 1 .. SumFunctionOnSet(ItemTotal, Items) + Fee : Release(cents)
       \/ Cancel

Next == \/ \E m \in Materials, p \in Percentages : UpdateRate(m, p)
        \/ \E s \in Slots : AcceptRead(s) \/ AcceptCommit(s) \/ Change(s)
        \/ Proceed
        \/ Pay

Spec == Init /\ [][Next]_vars

-----------------------------------------------------------------------------
(***************************************************************************)
(* Properties.                                                             *)
(***************************************************************************)

Breakdown == [Items -> [material : Materials, percentage : Percentages]]

Requests ==
    [op : {"idle"}] \cup [op : {"accept"}, lines : Breakdown]
    \cup [op : {"change"}, at : {"checked", "saved", "selected", "computed"}, item : Items,
          to : Materials, found : BOOLEAN, lines : Breakdown \cup {None}]

\* Every state has the shape of the rows and of the requests' memory; an order
\* has a payout once it was accepted, and every line of one has a rate.
TypeOK ==
    /\ material \in [Items -> Materials]
    /\ rate \in [Materials -> Percentages \cup {None}]
    /\ order \in OrderStatus
    /\ order = "open" <=> payout.status = "none"
    /\ payout.status \in PayoutStatus
    /\ payout.status # "none" => /\ payout.lines \in Breakdown
                                 /\ DOMAIN payout = {"status", "lines", "amount"}
    /\ job.at \in {"idle", "listed", "sending", "answered"}
    /\ run \in [Slots -> Requests]
    /\ ratings \in 0 .. MaxRatings
    /\ missed \in BOOLEAN /\ overtaken \in BOOLEAN

\* What a vendor is to be paid is what the breakdown adds up to, or less if an
\* administrator released it so, and no line of it is more than the customer
\* paid for the item, however it was rounded
\* (payout_calculation_service.ts#computePayoutBreakdown, releaseHeldPayout).
WithinTheOrder ==
    payout.status # "none" =>
        /\ payout.amount = Total(payout.lines) \/ payout.amount \in 1 .. Total(payout.lines)
        /\ \A i \in Items : LineCents(payout.lines)[i] \in 0 .. ItemTotal[i]

\* The amount the row shows is the amount the provider took, from the moment it
\* took it: a staff correction that meets the payout job does not change a
\* payout already claimed (recalculatePendingPayoutsForProjectFile, sendClaimed),
\* unless the recovery of a stuck payout, which looks at no status and takes no
\* lock, sent one that was failed and queued again meanwhile.
SentAsRecorded ==
    taken # None /\ ~overtaken =>
                    /\ payout.status \in {"processing", "paid"}
                    /\ payout.amount = taken

\* Corrections of two parts at once both reach the vendor's payout, in whatever
\* order they save, select and commit; only one that was committed without
\* finding the payout (not written yet, or past pending) leaves it behind.
FollowsMaterial ==
    payout.status # "none" /\ ~missed => \A i \in Items : payout.lines[i].material = material[i]
=============================================================================
