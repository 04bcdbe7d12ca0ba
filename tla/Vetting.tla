------------------------------ MODULE Vetting ------------------------------
(***************************************************************************)
(* From an invitation to a vendor's first order: how a vendor joins, is    *)
(* reviewed and activated, and which vendors an order is routed to and may *)
(* be taken by (invitation_service.ts, vendor_onboarding_service.ts,       *)
(* order_routing_service.ts, order_acceptance_service.ts).                 *)
(*                                                                         *)
(* A handler reads what it decides by in one step and saves in another; a  *)
(* save writes the columns that differ from what was read, whatever the    *)
(* row has become.  MaxInFlight handlers run at once and any may die.      *)
(* One order; a capability is named by its technology; a vendor has a rate *)
(* for a technology when it has one for each of its materials.             *)
(***************************************************************************)
EXTENDS Handlers, Sequences

CONSTANTS
    Vendors,        \* the people invited, each with an e-mail address
    Technologies,
    Required,       \* the technologies the order needs
    Invites,        \* invitation rows there may be
    MaxDocuments,   \* tax forms a vendor uploads at most
    MaxVersion      \* versions of the agreement

ASSUME VettingAssumption ==
    /\ Required \subseteq Technologies
    /\ MaxDocuments \in Nat \ {0} /\ MaxVersion \in Nat \ {0}
    /\ None \notin Vendors /\ None \notin Invites

VARIABLES
    invite,     \* invitations rows
    vendor,     \* vendors rows, "none" before there is one
    capability, \* vendor_technology_capabilities by vendor and technology
    taxForms,   \* vendor_tax_documents of each vendor, the latest last
    rated,      \* technologies the vendor's payout rates cover
    version,    \* VENDOR_AGREEMENT_VERSION
    order,      \* the orders row: its status, vendor and routing stage
    approved    \* history: technologies an administrator ever approved

vars == <<invite, vendor, capability, taxForms, rated, version, order, run, asked, approved>>
papers == <<capability, taxForms, rated, approved>>

VendorStatus == {"none", "onboarding", "pending_review", "active", "suspended"}
Items == {"details", "payout"}      \* profile and address; a ready payout method
Stages == {None, "preferred", "open", "unfulfillable"}
Capability == [status : {"none", "requested", "approved", "rejected"}, preferred : BOOLEAN]
TaxForm == [verified : BOOLEAN, rejected : BOOLEAN]
Invite == [to : Vendors, accepted : BOOLEAN, revoked : BOOLEAN, expired : BOOLEAN]

NoCapability == [status |-> "none", preferred |-> FALSE]
Pending(i) == ~invite[i].accepted /\ ~invite[i].revoked /\ ~invite[i].expired

\* Requests of the order need no bound: it is placed once, and one that takes
\* nothing leaves nothing behind.
BeginFree(s, r) == run[s] = Idle /\ Room /\ run' = [run EXCEPT ![s] = r]
Begin(s, r) == BeginFree(s, r) /\ asked < MaxRequests /\ asked' = asked + 1
AtOnce == asked < MaxRequests /\ asked' = asked + 1 /\ UNCHANGED run

\* A vendor at work already, one who lacks only a look at the tax form, one
\* about to submit, and one nobody has invited.
Roles == {"member", "candidate", "joining", "stranger"}
Reviewed == {"member", "candidate"}
FirstStatus(r) == CASE r = "member" -> "active" [] r = "candidate" -> "pending_review"
                    [] r = "joining" -> "onboarding" [] OTHER -> "none"
FirstCapability(r) == CASE r \in Reviewed -> [status |-> "approved", preferred |-> r = "member"]
                        [] r = "joining" -> [status |-> "requested", preferred |-> FALSE]
                        [] OTHER -> NoCapability
FirstForms(r) == IF r = "stranger" THEN <<>>
                 ELSE <<[verified |-> r = "member", rejected |-> FALSE]>>
Init ==
    /\ invite = [i \in Invites |-> None]
    /\ \E role \in [Vendors -> Roles] :
          /\ vendor = [v \in Vendors |->
                [status |-> FirstStatus(role[v]),
                 agreement |-> IF role[v] = "stranger" THEN 0 ELSE 1,
                 done |-> IF role[v] = "stranger" THEN {} ELSE Items]]
          /\ capability = [v \in Vendors |-> [t \in Technologies |-> FirstCapability(role[v])]]
          /\ taxForms = [v \in Vendors |-> FirstForms(role[v])]
          /\ rated = [v \in Vendors |-> IF role[v] \in Reviewed THEN Technologies ELSE {}]
          /\ approved = [v \in Vendors |-> IF role[v] \in Reviewed THEN Technologies ELSE {}]
    /\ version = 1
    /\ order = [status |-> "none", vendor |-> None, stage |-> None]
    /\ run = [s \in Slots |-> Idle] /\ asked = 0

-----------------------------------------------------------------------------
(***************************************************************************)
(* Invitations.                                                            *)
(***************************************************************************)

\* An address is invited unless it has an account; a pending invitation is
\* issued again.  With every row of Invites in use no new one is made.
InviteRead(s, v) ==
    /\ vendor[v].status = "none"
    /\ LET known == {i \in Invites : invite[i] # None /\ invite[i].to = v /\ Pending(i)}
           free == {i \in Invites : invite[i] = None} IN
       IF known = {} THEN free # {} /\ Begin(s, [op |-> "invite", to |-> v])
       ELSE \E i \in known : Begin(s, [op |-> "issue", row |-> i])
    /\ UNCHANGED <<invite, vendor, papers, version, order>>

InviteSave(s) ==
    LET free == {i \in Invites : invite[i] = None} IN
    /\ run[s].op = "invite"
    /\ IF free = {} THEN UNCHANGED invite
       ELSE \E i \in free : invite' =
               [invite EXCEPT ![i] = [to |-> run[s].to, accepted |-> FALSE,
                                      revoked |-> FALSE, expired |-> FALSE]]
    /\ Ends(s)
    /\ UNCHANGED <<vendor, papers, version, order>>

\* resendInvitation and revokeInvitation: of one not accepted or revoked.
InviteTouch(s, i, op) ==
    /\ invite[i] # None /\ ~invite[i].accepted /\ ~invite[i].revoked
    /\ Begin(s, [op |-> op, row |-> i])
    /\ UNCHANGED <<invite, vendor, papers, version, order>>

\* A new expiry is saved, whatever has become of the invitation.
Issue(s) ==
    /\ run[s].op = "issue"
    /\ invite' = [invite EXCEPT ![run[s].row].expired = FALSE]
    /\ Ends(s)
    /\ UNCHANGED <<vendor, papers, version, order>>

Revoke(s) ==
    /\ run[s].op = "revoke"
    /\ invite' = [invite EXCEPT ![run[s].row].revoked = TRUE]
    /\ Ends(s)
    /\ UNCHANGED <<vendor, papers, version, order>>

Expire(i) ==
    /\ invite[i] # None /\ Pending(i)
    /\ invite' = [invite EXCEPT ![i].expired = TRUE]
    /\ UNCHANGED <<vendor, papers, version, order, run, asked>>

\* The transaction locks the invitation's row before it looks at it: one step.
\* users.email is unique.
AcceptInvitation(i) ==
    /\ invite[i] # None /\ Pending(i)
    /\ vendor[invite[i].to].status = "none"
    /\ AtOnce
    /\ invite' = [invite EXCEPT ![i].accepted = TRUE]
    /\ vendor' = [vendor EXCEPT ![invite[i].to].status = "onboarding"]
    /\ UNCHANGED <<papers, version, order>>

-----------------------------------------------------------------------------
(***************************************************************************)
(* The vendor's own steps.                                                 *)
(***************************************************************************)

Joined(v) == vendor[v].status # "none"

\* Profile, address and payout account are completed, or fall short again.
Edit(v, done) ==
    /\ Joined(v) /\ AtOnce
    /\ vendor' = [vendor EXCEPT ![v].done = done]
    /\ UNCHANGED <<invite, papers, version, order>>

AcceptAgreement(v) ==
    /\ Joined(v) /\ AtOnce
    /\ vendor' = [vendor EXCEPT ![v].agreement = version]
    /\ UNCHANGED <<invite, papers, version, order>>

\* A new version of the agreement is deployed.
BumpVersion ==
    /\ version < MaxVersion
    /\ version' = version + 1
    /\ UNCHANGED <<invite, vendor, papers, order, run, asked>>

\* Every upload is a new row, and the latest is the current form.
UploadTaxDocument(v) ==
    /\ Joined(v) /\ Len(taxForms[v]) < MaxDocuments /\ AtOnce
    /\ taxForms' = [taxForms EXCEPT ![v] = Append(@, [verified |-> FALSE, rejected |-> FALSE])]
    /\ UNCHANGED <<invite, vendor, capability, rated, approved, version, order>>

\* The list of technologies replaces the declared ones ...
CapabilitiesRead(s, v, wanted) ==
    /\ vendor[v].status \notin {"none", "suspended"} /\ wanted # {}
    /\ Begin(s, [op |-> "capabilities", vendor |-> v, wanted |-> wanted, read |-> capability[v]])
    /\ UNCHANGED <<invite, vendor, papers, version, order>>

\* ... by the rows the transaction read: unlisted ones go, new ones are
\* requested, rejected ones requested again.
Declared(now, read, wanted) ==
    CASE ~wanted -> IF read.status = "none" THEN now ELSE NoCapability
      [] wanted /\ read.status = "none" -> [status |-> "requested", preferred |-> FALSE]
      [] wanted /\ read.status = "rejected" /\ now.status # "none" ->
            [status |-> "requested", preferred |-> now.preferred /\ ~read.preferred]
      [] OTHER -> now

CapabilitiesSave(s) ==
    LET r == run[s]
        collides == \E t \in r.wanted :    \* the unique index undoes the transaction
            r.read[t].status = "none" /\ capability[r.vendor][t].status # "none" IN
    /\ r.op = "capabilities"
    /\ capability' = IF collides THEN capability
          ELSE [capability EXCEPT ![r.vendor] =
                  [t \in Technologies |-> Declared(capability[r.vendor][t], r.read[t], t \in r.wanted)]]
    /\ Ends(s)
    /\ UNCHANGED <<invite, vendor, taxForms, rated, approved, version, order>>

Latest(v) == taxForms[v][Len(taxForms[v])]
TaxStatus(f) == IF f.verified THEN "verified" ELSE IF f.rejected THEN "rejected" ELSE "uploaded"
HasAgreement(v) == vendor[v].agreement = version

\* What the vendor has to complete.
OnboardingComplete(v) ==
    /\ vendor[v].done = Items /\ HasAgreement(v)
    /\ \E t \in Technologies : capability[v][t].status \in {"requested", "approved"}
    /\ taxForms[v] # <<>> /\ TaxStatus(Latest(v)) # "rejected"

SubmitRead(s, v) ==
    /\ vendor[v].status = "onboarding" /\ OnboardingComplete(v)
    /\ Begin(s, [op |-> "status", vendor |-> v, to |-> "pending_review"])
    /\ UNCHANGED <<invite, vendor, papers, version, order>>

\* A status decided on is saved, whatever the status is by now.
StatusSave(s) ==
    /\ run[s].op = "status"
    /\ vendor' = [vendor EXCEPT ![run[s].vendor].status = run[s].to]
    /\ Ends(s)
    /\ UNCHANGED <<invite, papers, version, order>>

-----------------------------------------------------------------------------
(***************************************************************************)
(* The administrators' review.                                             *)
(***************************************************************************)

\* Whether a review prefers the vendor: yes, no, or as it was.
Preferences == {"yes", "no", "same"}

ReviewRead(s, v, t, to, preference) ==
    LET read == capability[v][t]
        preferred == to = "approved" /\ (preference = "yes" \/ (preference = "same" /\ read.preferred)) IN
    /\ read.status # "none"
    /\ Begin(s, [op |-> "review", vendor |-> v, technology |-> t, read |-> read,
                 to |-> [status |-> to, preferred |-> preferred]])
    /\ UNCHANGED <<invite, vendor, papers, version, order>>

\* Columns that differ from the row read are written, if the row is there.
Changed(now, read, to) ==
    [status |-> IF to.status = read.status THEN now.status ELSE to.status,
     preferred |-> IF to.preferred = read.preferred THEN now.preferred ELSE to.preferred]

\* Slip: the row is written though it has been removed.
ReviewSaveAnyway(s) ==
    LET r == run[s]
        now == capability[r.vendor][r.technology] IN
    /\ r.op = "review"
    /\ capability' = [capability EXCEPT ![r.vendor][r.technology] = Changed(now, r.read, r.to)]
    /\ approved' = IF r.to.status = "approved"
                   THEN [approved EXCEPT ![r.vendor] = @ \cup {r.technology}] ELSE approved
    /\ Ends(s)
    /\ UNCHANGED <<invite, vendor, taxForms, rated, version, order>>

ReviewSave(s) ==
    LET r == run[s]
        now == capability[r.vendor][r.technology] IN
    /\ r.op = "review"
    /\ IF now.status = "none" THEN UNCHANGED <<capability, approved>>
       ELSE /\ capability' = [capability EXCEPT ![r.vendor][r.technology] =
                                 Changed(now, r.read, r.to)]
            /\ approved' = IF r.to.status = "approved"
                           THEN [approved EXCEPT ![r.vendor] = @ \cup {r.technology}] ELSE approved
    /\ Ends(s)
    /\ UNCHANGED <<invite, vendor, taxForms, rated, version, order>>

\* verifyTaxDocument and rejectTaxDocument: of the current form, not reviewed yet.
TaxRead(s, v, verdict) ==
    /\ taxForms[v] # <<>> /\ TaxStatus(Latest(v)) = "uploaded"
    /\ Begin(s, [op |-> verdict, vendor |-> v, form |-> Len(taxForms[v])])
    /\ UNCHANGED <<invite, vendor, papers, version, order>>

TaxSave(s) ==
    LET r == run[s] IN
    /\ r.op \in {"verify", "reject"}
    /\ taxForms' = IF r.op = "verify"
                   THEN [taxForms EXCEPT ![r.vendor][r.form].verified = TRUE]
                   ELSE [taxForms EXCEPT ![r.vendor][r.form].rejected = TRUE]
    /\ Ends(s)
    /\ UNCHANGED <<invite, vendor, capability, rated, approved, version, order>>

\* updateRates upserts and never takes a rate away.
Rate(v, t) ==
    /\ Joined(v) /\ AtOnce
    /\ rated' = [rated EXCEPT ![v] = @ \cup {t}]
    /\ UNCHANGED <<invite, vendor, capability, taxForms, approved, version, order>>

ApprovedFor(v) == {t \in Technologies : capability[v][t].status = "approved"}

\* Slip: any tax form will do.
ReviewedButTax(v) ==
    /\ ApprovedFor(v) # {} /\ ApprovedFor(v) \subseteq rated[v]
    /\ \A t \in Technologies : capability[v][t].status # "requested"

\* What an administrator has to complete.
ReviewComplete(v) ==
    /\ ApprovedFor(v) # {} /\ ApprovedFor(v) \subseteq rated[v]
    /\ \A t \in Technologies : capability[v][t].status # "requested"
    /\ TaxStatus(Latest(v)) = "verified"

ActivateRead(s, v) ==
    /\ vendor[v].status = "pending_review" /\ OnboardingComplete(v) /\ ReviewComplete(v)
    /\ Begin(s, [op |-> "status", vendor |-> v, to |-> "active"])
    /\ UNCHANGED <<invite, vendor, papers, version, order>>

SuspendRead(s, v) ==
    /\ vendor[v].status = "active"
    /\ Begin(s, [op |-> "status", vendor |-> v, to |-> "suspended"])
    /\ UNCHANGED <<invite, vendor, papers, version, order>>

ReinstateRead(s, v) ==
    /\ vendor[v].status = "suspended"
    /\ Begin(s, [op |-> "status", vendor |-> v, to |-> "active"])
    /\ UNCHANGED <<invite, vendor, papers, version, order>>

-----------------------------------------------------------------------------
(***************************************************************************)
(* Routing and acceptance.                                                 *)
(***************************************************************************)

\* Every technology of T is covered by the active vendor's approved capabilities.
Covers(v, T, preferred) ==
    /\ vendor[v].status = "active"
    /\ \A t \in T : capability[v][t].status = "approved" /\ (preferred => capability[v][t].preferred)

\* Checkout's transaction makes the order; the same request routes it after
\* that, by the capabilities of the time.
PlaceOrder(s) ==
    /\ order.status = "none"
    /\ BeginFree(s, [op |-> "place"]) /\ UNCHANGED asked
    /\ order' = [order EXCEPT !.status = "open"]
    /\ UNCHANGED <<invite, vendor, papers, version>>

Capable(preferred) == Required # {} /\ \E v \in Vendors : Covers(v, Required, preferred)

\* Without an active configuration an order with a preferred vendor stays unrouted.
RouteRead(s) ==
    /\ run[s].op = "place"
    /\ \/ Continue(s, [op |-> "route", stage |->
             IF ~Capable(FALSE) THEN "unfulfillable"
             ELSE IF Capable(TRUE) THEN "preferred" ELSE "open"])
       \/ Capable(TRUE) /\ Ends(s)
    /\ UNCHANGED <<invite, vendor, papers, version, order>>

RouteSave(s) ==
    /\ run[s].op = "route"
    /\ order' = [order EXCEPT !.stage = run[s].stage]
    /\ Ends(s)
    /\ UNCHANGED <<invite, vendor, papers, version>>

\* The preferred window has passed.
Escalate ==
    /\ order.stage = "preferred"
    /\ order' = [order EXCEPT !.stage = "open"]
    /\ UNCHANGED <<invite, vendor, papers, version, run, asked>>

\* No vendor came (checkout's expiry job).
Withdraw ==
    /\ order.status = "open"
    /\ order' = [order EXCEPT !.status = "cancelled"]
    /\ UNCHANGED <<invite, vendor, papers, version, run, asked>>

\* acceptOrder holds the vendor's and the order's rows from the start ...
AcceptRead(s, v) ==
    /\ order.status = "open" /\ Joined(v) /\ HasAgreement(v) /\ "payout" \in vendor[v].done
    /\ BeginFree(s, [op |-> "accept", vendor |-> v, stage |-> order.stage]) /\ UNCHANGED asked
    /\ UNCHANGED <<invite, vendor, papers, version, order>>

\* ... asks the database for the vendor's capabilities ...
AcceptCheck(s) ==
    LET r == run[s] IN
    /\ r.op = "accept"
    /\ IF Required # {} /\ Covers(r.vendor, Required, r.stage = "preferred")
       THEN Continue(s, [op |-> "take", vendor |-> r.vendor]) ELSE Ends(s)
    /\ UNCHANGED <<invite, vendor, papers, version, order>>

\* ... and takes the order, if there is a rate for all of it and it is open still.
AcceptTake(s) ==
    LET v == run[s].vendor IN
    /\ run[s].op = "take"
    /\ order' = IF Required \subseteq rated[v] /\ order.status = "open"
                THEN [order EXCEPT !.status = "accepted", !.vendor = v] ELSE order
    /\ Ends(s)
    /\ UNCHANGED <<invite, vendor, papers, version>>

\* The process or its connection dies.
Die(s) ==
    /\ run[s] # Idle /\ Ends(s)
    /\ UNCHANGED <<invite, vendor, papers, version, order>>

-----------------------------------------------------------------------------
InviteNext ==
    \/ \E s \in Slots, v \in Vendors : InviteRead(s, v)
    \/ \E s \in Slots, i \in Invites, op \in {"issue", "revoke"} : InviteTouch(s, i, op)
    \/ \E s \in Slots : InviteSave(s) \/ Issue(s) \/ Revoke(s)
    \/ \E i \in Invites : Expire(i) \/ AcceptInvitation(i)

VendorNext ==
    \/ \E v \in Vendors, done \in SUBSET Items : Edit(v, done)
    \/ \E v \in Vendors : AcceptAgreement(v) \/ UploadTaxDocument(v)
    \/ \E s \in Slots, v \in Vendors, wanted \in SUBSET Technologies : CapabilitiesRead(s, v, wanted)
    \/ \E s \in Slots, v \in Vendors : SubmitRead(s, v)
    \/ \E s \in Slots : CapabilitiesSave(s) \/ StatusSave(s)
    \/ BumpVersion

AdminNext ==
    \/ \E s \in Slots, v \in Vendors, t \in Technologies, to \in {"approved", "rejected"},
          p \in Preferences : ReviewRead(s, v, t, to, p)
    \/ \E s \in Slots, v \in Vendors, verdict \in {"verify", "reject"} : TaxRead(s, v, verdict)
    \/ \E s \in Slots, v \in Vendors : ActivateRead(s, v) \/ SuspendRead(s, v) \/ ReinstateRead(s, v)
    \/ \E v \in Vendors, t \in Technologies : Rate(v, t)
    \/ \E s \in Slots : ReviewSave(s) \/ TaxSave(s)

OrderNext ==
    \/ \E s \in Slots : \/ PlaceOrder(s) \/ RouteRead(s) \/ RouteSave(s)
                        \/ AcceptCheck(s) \/ AcceptTake(s) \/ Die(s)
    \/ \E s \in Slots, v \in Vendors : AcceptRead(s, v)
    \/ Escalate \/ Withdraw

Next == InviteNext \/ VendorNext \/ AdminNext \/ OrderNext
Spec == Init /\ [][Next]_vars

-----------------------------------------------------------------------------
Memory ==
    [op : {"none", "place"}] \cup [op : {"invite"}, to : Vendors]
    \cup [op : {"issue", "revoke"}, row : Invites]
    \cup [op : {"capabilities"}, vendor : Vendors, wanted : SUBSET Technologies,
          read : [Technologies -> Capability]]
    \cup [op : {"status"}, vendor : Vendors, to : VendorStatus \ {"none"}]
    \cup [op : {"review"}, vendor : Vendors, technology : Technologies, read : Capability,
          to : [status : {"approved", "rejected"}, preferred : BOOLEAN]]
    \cup [op : {"verify", "reject"}, vendor : Vendors, form : 1 .. MaxDocuments]
    \cup [op : {"route"}, stage : Stages] \cup [op : {"accept"}, vendor : Vendors, stage : Stages]
    \cup [op : {"take"}, vendor : Vendors]

\* The rows and what handlers hold are of their kinds, an order has a vendor
\* just when it was accepted, and no capability row is preferred and absent.
TypeOK ==
    /\ invite \in [Invites -> Invite \cup {None}]
    /\ vendor \in [Vendors -> [status : VendorStatus, agreement : 0 .. version, done : SUBSET Items]]
    /\ capability \in [Vendors -> [Technologies -> Capability]]
    /\ \A v \in Vendors, t \in Technologies :
          capability[v][t].status = "none" => ~capability[v][t].preferred
    /\ taxForms \in [Vendors -> Seq(TaxForm)]
    /\ \A v \in Vendors : Len(taxForms[v]) <= MaxDocuments
    /\ rated \in [Vendors -> SUBSET Technologies] /\ approved \in [Vendors -> SUBSET Technologies]
    /\ version \in 1 .. MaxVersion
    /\ order \in [status : {"none", "open", "accepted", "cancelled"},
                  vendor : Vendors \cup {None}, stage : Stages]
    /\ order.status = "accepted" <=> order.vendor # None
    /\ run \in [Slots -> Memory] /\ asked \in 0 .. MaxRequests

\* Only a vetted vendor ever has a customer's order, whatever requests of its
\* own, of administrators and of the order crossed on the way: its tax form was
\* verified, each technology of the order approved and rated, and the agreement
\* accepted (order_acceptance_service.ts:80-83, vendor_onboarding_service.ts:507).
TakerWasVetted ==
    order.vendor # None =>
        /\ \E f \in DOMAIN taxForms[order.vendor] : taxForms[order.vendor][f].verified
        /\ Required \subseteq approved[order.vendor] \cap rated[order.vendor]
        /\ vendor[order.vendor].agreement > 0
=============================================================================
