---------------------------- MODULE ReviewProofs ----------------------------
(***************************************************************************)
(* Proofs about what is reviewed before it goes on.  First Vetting, for    *)
(* any number of vendors, technologies, handlers at once, requests and     *)
(* versions of the agreement: who may take an order.  Then Messaging, for  *)
(* any number of messages, files, handlers at once and requests: what      *)
(* reaches a vendor.                                                       *)
(***************************************************************************)
EXTENDS Vetting, Messaging, SequenceTheorems, TLAPS

(***************************************************************************)
(* The inductive invariant.                                                *)
(***************************************************************************)

\* One of the vendor's tax forms was verified.
TaxSeen(v) == \E f \in DOMAIN taxForms[v] : taxForms[v][f].verified

\* What a handler has seen to, and may count on until it saves.
HandlerSound(s) ==
    LET r == run[s] IN
    /\ r.op \in {"issue", "revoke"} => invite[r.row] \in Invite
    /\ r.op \in {"verify", "reject"} => r.form \in DOMAIN taxForms[r.vendor]
    /\ r.op = "status" /\ r.to \in {"active", "suspended"} => TaxSeen(r.vendor)
    /\ r.op \in {"accept", "take"} => vendor[r.vendor].agreement > 0
    /\ r.op = "take" => TaxSeen(r.vendor) /\ Required \subseteq approved[r.vendor]

\* A vendor at work, or suspended, was activated; what is approved was reviewed.
RowsSound ==
    /\ \A v \in Vendors : vendor[v].status \in {"active", "suspended"} => TaxSeen(v)
    /\ \A v \in Vendors, t \in Technologies :
          capability[v][t].status = "approved" => t \in approved[v]

VetInv == TypeOK /\ (\A s \in Slots : HandlerSound(s)) /\ RowsSound /\ TakerWasVetted

\* The rows are of their kinds.
RowsTyped ==
    /\ invite \in [Invites -> Invite \cup {None}]
    /\ vendor \in [Vendors -> [status : VendorStatus, agreement : 0 .. version, done : SUBSET Items]]
    /\ capability \in [Vendors -> [Technologies -> Capability]]
    /\ \A v \in Vendors, t \in Technologies :
          capability[v][t].status = "none" => ~capability[v][t].preferred
    /\ taxForms \in [Vendors -> Seq(TaxForm)]
    /\ \A v \in Vendors : Len(taxForms[v]) <= MaxDocuments
    /\ rated \in [Vendors -> SUBSET Technologies] /\ approved \in [Vendors -> SUBSET Technologies]
    /\ version \in 1 .. MaxVersion
    /\ order \in [status : {"none", "open", "accepted", "cancelled"},
                  vendor : Vendors \cup {None}, stage : Stages]
    /\ order.status = "accepted" <=> order.vendor # None

\* What was once seen or approved stays so.
Grows ==
    /\ \A i \in Invites : invite[i] \in Invite => invite'[i] \in Invite
    /\ \A v \in Vendors :
        /\ TaxSeen(v) => TaxSeen(v)'
        /\ DOMAIN taxForms[v] \subseteq DOMAIN taxForms'[v]
        /\ rated[v] \subseteq rated'[v] /\ approved[v] \subseteq approved'[v]
        /\ vendor[v].agreement > 0 => vendor'[v].agreement > 0

-----------------------------------------------------------------------------
\* What a handler holds, by what it is doing.
LEMMA MemoryKinds ==
  ASSUME NEW m \in Memory
  PROVE  /\ m.op = "invite" => m.to \in Vendors
         /\ m.op \in {"issue", "revoke"} => m.row \in Invites
         /\ m.op = "capabilities" => /\ m.vendor \in Vendors /\ m.wanted \in SUBSET Technologies
                                     /\ m.read \in [Technologies -> Capability]
         /\ m.op = "status" => m.vendor \in Vendors /\ m.to \in VendorStatus \ {"none"}
         /\ m.op = "review" => /\ m.vendor \in Vendors /\ m.technology \in Technologies
                               /\ m.read \in Capability
                               /\ m.to \in [status : {"approved", "rejected"}, preferred : BOOLEAN]
         /\ m.op \in {"verify", "reject"} => m.vendor \in Vendors /\ m.form \in 1 .. MaxDocuments
         /\ m.op = "route" => m.stage \in Stages
         /\ m.op = "accept" => m.vendor \in Vendors /\ m.stage \in Stages
         /\ m.op = "take" => m.vendor \in Vendors
  BY DEF Memory

LEMMA MemoryMade ==
  /\ Idle \in Memory /\ [op |-> "place"] \in Memory
  /\ \A v \in Vendors : [op |-> "invite", to |-> v] \in Memory
  /\ \A op \in {"issue", "revoke"}, i \in Invites : [op |-> op, row |-> i] \in Memory
  /\ \A v \in Vendors, wanted \in SUBSET Technologies, read \in [Technologies -> Capability] :
        [op |-> "capabilities", vendor |-> v, wanted |-> wanted, read |-> read] \in Memory
  /\ \A v \in Vendors, to \in VendorStatus \ {"none"} :
        [op |-> "status", vendor |-> v, to |-> to] \in Memory
  /\ \A v \in Vendors, t \in Technologies, read \in Capability,
        to \in [status : {"approved", "rejected"}, preferred : BOOLEAN] :
        [op |-> "review", vendor |-> v, technology |-> t, read |-> read, to |-> to] \in Memory
  /\ \A op \in {"verify", "reject"}, v \in Vendors, f \in 1 .. MaxDocuments :
        [op |-> op, vendor |-> v, form |-> f] \in Memory
  /\ \A g \in Stages : [op |-> "route", stage |-> g] \in Memory
  /\ \A v \in Vendors, g \in Stages : [op |-> "accept", vendor |-> v, stage |-> g] \in Memory
  /\ \A v \in Vendors : [op |-> "take", vendor |-> v] \in Memory
  <1>1. Idle \in Memory /\ [op |-> "place"] \in Memory
    BY DEF Idle, Memory
  <1>2. \A v \in Vendors : [op |-> "invite", to |-> v] \in Memory
    BY DEF Memory
  <1>3. \A op \in {"issue", "revoke"}, i \in Invites : [op |-> op, row |-> i] \in Memory
    BY DEF Memory
  <1>4. \A v \in Vendors, wanted \in SUBSET Technologies, read \in [Technologies -> Capability] :
        [op |-> "capabilities", vendor |-> v, wanted |-> wanted, read |-> read] \in Memory
    BY DEF Memory
  <1>5. \A v \in Vendors, to \in VendorStatus \ {"none"} :
        [op |-> "status", vendor |-> v, to |-> to] \in Memory
    BY DEF Memory
  <1>6. \A v \in Vendors, t \in Technologies, read \in Capability,
        to \in [status : {"approved", "rejected"}, preferred : BOOLEAN] :
        [op |-> "review", vendor |-> v, technology |-> t, read |-> read, to |-> to] \in Memory
    BY DEF Memory
  <1>7. \A op \in {"verify", "reject"}, v \in Vendors, f \in 1 .. MaxDocuments :
        [op |-> op, vendor |-> v, form |-> f] \in Memory
    BY DEF Memory
  <1>8. \A g \in Stages : [op |-> "route", stage |-> g] \in Memory
    BY DEF Memory
  <1>9. \A v \in Vendors, g \in Stages : [op |-> "accept", vendor |-> v, stage |-> g] \in Memory
    BY DEF Memory
  <1>10. \A v \in Vendors : [op |-> "take", vendor |-> v] \in Memory
    BY DEF Memory
  <1>. QED
    BY <1>1, <1>2, <1>3, <1>4, <1>5, <1>6, <1>7, <1>8, <1>9, <1>10

\* A step of one handler, of whatever rows it writes.
LEMMA HandlerStep ==
  ASSUME VetInv, NEW s \in Slots, NEW r \in Memory, run' = [run EXCEPT ![s] = r],
         asked' \in 0 .. MaxRequests, RowsTyped', Grows, RowsSound', TakerWasVetted',
         HandlerSound(s)'
  PROVE  VetInv'
  <1>1. run \in [Slots -> Memory]
    BY DEF VetInv, TypeOK
  <1>2. /\ run' \in [Slots -> Memory]
        /\ \A k \in Slots : k # s => run'[k] = run[k]
    BY <1>1
  <1>3. TypeOK'
    BY <1>2 DEF RowsTyped, TypeOK
  <1>4. ASSUME NEW k \in Slots, k # s PROVE HandlerSound(k)'
    <2>1. run[k] \in Memory /\ run'[k] = run[k] /\ HandlerSound(k)
      BY <1>1, <1>2, <1>4 DEF VetInv
    <2>2. /\ run[k].op \in {"verify", "reject", "status", "accept", "take"} => run[k].vendor \in Vendors
          /\ run[k].op \in {"issue", "revoke"} => run[k].row \in Invites
      BY <2>1, MemoryKinds
    <2>. QED
      BY <2>1, <2>2 DEF HandlerSound, Grows
  <1>. QED
    BY <1>3, <1>4 DEF VetInv

\* What a handler that has just read or ended must be sound about.
SoundMemory(r) ==
    /\ r.op \in {"issue", "revoke"} => invite[r.row] \in Invite
    /\ r.op \in {"verify", "reject"} => r.form \in DOMAIN taxForms[r.vendor]
    /\ r.op = "status" /\ r.to \in {"active", "suspended"} => TaxSeen(r.vendor)
    /\ r.op \in {"accept", "take"} => vendor[r.vendor].agreement > 0
    /\ r.op = "take" => TaxSeen(r.vendor) /\ Required \subseteq approved[r.vendor]

\* A handler that reads, and writes nothing yet.
LEMMA HandlerReads ==
  ASSUME VetInv, NEW s \in Slots, NEW r \in Memory, run' = [run EXCEPT ![s] = r],
         asked' \in 0 .. MaxRequests, UNCHANGED <<invite, vendor, papers, version, order>>,
         SoundMemory(r)
  PROVE  VetInv'
  <1>1. run'[s] = r
    BY DEF VetInv, TypeOK
  <1>2. UNCHANGED <<invite, vendor, capability, taxForms, rated, approved, version, order>>
    BY DEF papers
  <1>3. RowsTyped' /\ RowsSound' /\ TakerWasVetted' /\ Grows
    BY <1>2 DEF VetInv, TypeOK, RowsTyped, RowsSound, TakerWasVetted, Grows, TaxSeen
  <1>4. HandlerSound(s)'
    BY <1>1, <1>2 DEF SoundMemory, HandlerSound, TaxSeen
  <1>. QED
    BY <1>3, <1>4, HandlerStep

\* A handler that ends.
LEMMA HandlerEnds ==
  ASSUME VetInv, NEW s \in Slots, Ends(s), RowsTyped', Grows, RowsSound', TakerWasVetted'
  PROVE  VetInv'
  <1>1. run' = [run EXCEPT ![s] = Idle] /\ asked' \in 0 .. MaxRequests
    BY DEF Ends, Continue, VetInv, TypeOK
  <1>2. Idle \in Memory
    BY MemoryMade
  <1>3. HandlerSound(s)'
    BY <1>1 DEF HandlerSound, Idle, VetInv, TypeOK
  <1>. QED
    BY <1>1, <1>2, <1>3, HandlerStep

\* A handler that ends having written nothing.
LEMMA EndsQuietly ==
  ASSUME VetInv, NEW s \in Slots, Ends(s), UNCHANGED <<invite, vendor, papers, version, order>>
  PROVE  VetInv'
  <1>1. UNCHANGED <<invite, vendor, capability, taxForms, rated, approved, version, order>>
    BY DEF papers
  <1>2. RowsTyped' /\ RowsSound' /\ TakerWasVetted' /\ Grows
    BY <1>1 DEF VetInv, TypeOK, RowsTyped, RowsSound, TakerWasVetted, Grows, TaxSeen
  <1>. QED
    BY <1>2, HandlerEnds

\* A step that no handler takes part in.
LEMMA RowsStep ==
  ASSUME VetInv, UNCHANGED run, asked' \in 0 .. MaxRequests,
         RowsTyped', Grows, RowsSound', TakerWasVetted'
  PROVE  VetInv'
  <1>1. TypeOK'
    BY DEF VetInv, TypeOK, RowsTyped
  <1>2. ASSUME NEW k \in Slots PROVE HandlerSound(k)'
    <2>1. run[k] \in Memory /\ run'[k] = run[k] /\ HandlerSound(k)
      BY DEF VetInv, TypeOK
    <2>2. /\ run[k].op \in {"verify", "reject", "status", "accept", "take"} => run[k].vendor \in Vendors
          /\ run[k].op \in {"issue", "revoke"} => run[k].row \in Invites
      BY <2>1, MemoryKinds
    <2>. QED
      BY <2>1, <2>2 DEF HandlerSound, Grows
  <1>. QED
    BY <1>1, <1>2 DEF VetInv

\* An order in the hands of a vetted vendor stays so.
LEMMA TakerStaysVetted ==
  ASSUME VetInv, Grows, UNCHANGED order
  PROVE  TakerWasVetted'
  <1>1. order.vendor # None => order.vendor \in Vendors
    BY DEF VetInv, TypeOK
  <1>. QED
    BY <1>1 DEF VetInv, TakerWasVetted, Grows, TaxSeen

\* Beginning and going on.
LEMMA Asked ==
  ASSUME VetInv
  PROVE  /\ \A s \in Slots : \A r : Begin(s, r) => /\ run' = [run EXCEPT ![s] = r]
                                              /\ asked' \in 0 .. MaxRequests
         /\ \A s \in Slots : \A r : Continue(s, r) => /\ run' = [run EXCEPT ![s] = r]
                                                 /\ asked' \in 0 .. MaxRequests
         /\ \A s \in Slots : \A r : BeginFree(s, r) => run' = [run EXCEPT ![s] = r]
         /\ AtOnce => UNCHANGED run /\ asked' \in 0 .. MaxRequests
         /\ asked \in 0 .. MaxRequests
  <1>1. asked \in 0 .. MaxRequests /\ MaxRequests \in Nat
    BY HandlersAssumption DEF VetInv, TypeOK
  <1>. QED
    BY <1>1 DEF Begin, BeginFree, Continue, AtOnce

\* What the program starts with.
LEMMA InitVet == Init => VetInv
  <1>. SUFFICES ASSUME Init PROVE VetInv
    OBVIOUS
  <1>1. PICK role \in [Vendors -> Roles] :
          /\ vendor = [v \in Vendors |->
                [status |-> FirstStatus(role[v]),
                 agreement |-> IF role[v] = "stranger" THEN 0 ELSE 1,
                 done |-> IF role[v] = "stranger" THEN {} ELSE Items]]
          /\ capability = [v \in Vendors |-> [t \in Technologies |-> FirstCapability(role[v])]]
          /\ taxForms = [v \in Vendors |-> FirstForms(role[v])]
          /\ rated = [v \in Vendors |-> IF role[v] \in Reviewed THEN Technologies ELSE {}]
          /\ approved = [v \in Vendors |-> IF role[v] \in Reviewed THEN Technologies ELSE {}]
    BY DEF Init
  <1>2. \A x \in Roles : /\ FirstStatus(x) \in VendorStatus
                         /\ FirstStatus(x) \in {"active", "suspended"} => x = "member"
    BY DEF Roles, FirstStatus, VendorStatus
  <1>3. \A x \in Roles : /\ FirstCapability(x) \in Capability
                         /\ FirstCapability(x).status = "none" => ~FirstCapability(x).preferred
                         /\ FirstCapability(x).status = "approved" => x \in Reviewed
    BY DEF Roles, FirstCapability, Capability, NoCapability, Reviewed
  <1>4. \A x \in Roles : /\ FirstForms(x) \in Seq(TaxForm) /\ Len(FirstForms(x)) <= MaxDocuments
                         /\ x = "member" => /\ 1 \in DOMAIN FirstForms(x)
                                            /\ FirstForms(x)[1].verified
    <2>1. ASSUME NEW b \in BOOLEAN
          PROVE  /\ <<[verified |-> b, rejected |-> FALSE]>> \in Seq(TaxForm)
                 /\ Len(<<[verified |-> b, rejected |-> FALSE]>>) = 1
      BY DEF TaxForm
    <2>2. <<>> \in Seq(TaxForm) /\ Len(<<>>) = 0
      OBVIOUS
    <2>3. FirstForms("stranger") = <<>>
      BY DEF FirstForms
    <2>4. FirstForms("member") = <<[verified |-> TRUE, rejected |-> FALSE]>>
      BY DEF FirstForms
    <2>5. FirstForms("candidate") = <<[verified |-> FALSE, rejected |-> FALSE]>>
      BY DEF FirstForms
    <2>6. FirstForms("joining") = <<[verified |-> FALSE, rejected |-> FALSE]>>
      BY DEF FirstForms
    <2>7. 1 \in DOMAIN FirstForms("member") /\ FirstForms("member")[1].verified
      BY <2>4
    <2>8. 0 <= MaxDocuments /\ 1 <= MaxDocuments
      BY VettingAssumption
    <2>9. TRUE \in BOOLEAN /\ FALSE \in BOOLEAN
      OBVIOUS
    <2>. QED
      BY <2>1, <2>2, <2>3, <2>4, <2>5, <2>6, <2>7, <2>8, <2>9 DEF Roles
  <1>5. RowsTyped
    <2>1. vendor \in [Vendors -> [status : VendorStatus, agreement : 0 .. version, done : SUBSET Items]]
      BY <1>1, <1>2 DEF Init
    <2>2. /\ capability \in [Vendors -> [Technologies -> Capability]]
          /\ \A v \in Vendors, t \in Technologies :
                capability[v][t].status = "none" => ~capability[v][t].preferred
      BY <1>1, <1>3
    <2>3. taxForms \in [Vendors -> Seq(TaxForm)] /\ \A v \in Vendors : Len(taxForms[v]) <= MaxDocuments
      BY <1>1, <1>4
    <2>4. version \in 1 .. MaxVersion
      BY VettingAssumption DEF Init
    <2>5. order \in [status : {"none", "open", "accepted", "cancelled"},
                     vendor : Vendors \cup {None}, stage : Stages]
      BY DEF Init, Stages
    <2>. QED
      BY <1>1, <2>1, <2>2, <2>3, <2>4, <2>5 DEF RowsTyped, Init
  <1>6. TypeOK
    <2>1. run \in [Slots -> Memory] /\ asked \in 0 .. MaxRequests
      BY MemoryMade, HandlersAssumption DEF Init
    <2>. QED
      BY <1>5, <2>1 DEF RowsTyped, TypeOK
  <1>7. RowsSound
    <2>1. ASSUME NEW v \in Vendors, vendor[v].status \in {"active", "suspended"} PROVE TaxSeen(v)
      <3>1. role[v] = "member"
        BY <1>1, <1>2, <2>1
      <3>. QED
        BY <1>1, <1>4, <3>1 DEF TaxSeen
    <2>2. \A v \in Vendors, t \in Technologies : capability[v][t].status = "approved" => t \in approved[v]
      BY <1>1, <1>3
    <2>. QED
      BY <2>1, <2>2 DEF RowsSound
  <1>8. (\A s \in Slots : HandlerSound(s)) /\ TakerWasVetted
    BY DEF Init, HandlerSound, Idle, TakerWasVetted
  <1>. QED
    BY <1>6, <1>7, <1>8 DEF VetInv

\* A vendor's row is written, for what may happen to it.
LEMMA VendorWritten ==
  ASSUME VetInv, NEW v \in Vendors,
         NEW row \in [status : VendorStatus, agreement : 0 .. version, done : SUBSET Items],
         vendor' = [vendor EXCEPT ![v] = row],
         vendor[v].agreement > 0 => row.agreement > 0,
         row.status \in {"active", "suspended"} => TaxSeen(v),
         invite' \in [Invites -> Invite \cup {None}],
         \A i \in Invites : invite[i] \in Invite => invite'[i] \in Invite,
         UNCHANGED <<papers, version, order>>
  PROVE  RowsTyped' /\ Grows /\ RowsSound' /\ TakerWasVetted'
  <1>1. UNCHANGED <<capability, taxForms, rated, approved, version, order>>
    BY DEF papers
  <1>2. vendor \in [Vendors -> [status : VendorStatus, agreement : 0 .. version, done : SUBSET Items]]
    BY DEF VetInv, TypeOK
  <1>3. /\ vendor' \in [Vendors -> [status : VendorStatus, agreement : 0 .. version, done : SUBSET Items]]
        /\ vendor'[v] = row /\ \A w \in Vendors : w # v => vendor'[w] = vendor[w]
    BY <1>2
  <1>4. RowsTyped'
    BY <1>1, <1>3 DEF RowsTyped, VetInv, TypeOK
  <1>5. Grows
    BY <1>1, <1>3 DEF Grows, TaxSeen
  <1>6. RowsSound'
    BY <1>1, <1>3 DEF VetInv, RowsSound, TaxSeen
  <1>. QED
    BY <1>1, <1>4, <1>5, <1>6, TakerStaysVetted

\* What may be written to a vendor's row.
LEMMA VendorUpdates ==
  ASSUME VetInv, NEW v \in Vendors
  PROVE  LET Kind == [status : VendorStatus, agreement : 0 .. version, done : SUBSET Items] IN
         /\ \A x \in VendorStatus : /\ [vendor[v] EXCEPT !.status = x] \in Kind
                                    /\ [vendor[v] EXCEPT !.status = x].status = x
                                    /\ [vendor[v] EXCEPT !.status = x].agreement = vendor[v].agreement
         /\ \A x \in SUBSET Items :
               /\ [vendor[v] EXCEPT !.done = x] \in Kind
               /\ [vendor[v] EXCEPT !.done = x].status = vendor[v].status
               /\ [vendor[v] EXCEPT !.done = x].agreement = vendor[v].agreement
         /\ [vendor[v] EXCEPT !.agreement = version] \in Kind
         /\ [vendor[v] EXCEPT !.agreement = version].status = vendor[v].status
         /\ [vendor[v] EXCEPT !.agreement = version].agreement > 0
  <1>1. vendor[v] \in [status : VendorStatus, agreement : 0 .. version, done : SUBSET Items]
    BY DEF VetInv, TypeOK
  <1>2. version \in 0 .. version /\ version > 0
    BY VettingAssumption DEF VetInv, TypeOK
  <1>. QED
    BY <1>1, <1>2

\* Invitations.
LEMMA InviteVet ==
  ASSUME VetInv, InviteNext
  PROVE  VetInv'
  <1>1. invite \in [Invites -> Invite \cup {None}] /\ RowsTyped
    BY DEF VetInv, TypeOK, RowsTyped
  \* A step that writes invitations only.
  <1>2. ASSUME invite' \in [Invites -> Invite \cup {None}],
               \A i \in Invites : invite[i] \in Invite => invite'[i] \in Invite,
               UNCHANGED <<vendor, papers, version, order>>
        PROVE  RowsTyped' /\ Grows /\ RowsSound' /\ TakerWasVetted'
    <2>1. UNCHANGED <<vendor, capability, taxForms, rated, approved, version, order>>
      BY <1>2 DEF papers
    <2>2. RowsTyped'
      BY <1>1, <1>2, <2>1 DEF RowsTyped
    <2>. QED
      BY <1>2, <2>1, <2>2 DEF VetInv, RowsSound, TakerWasVetted, Grows, TaxSeen
  <1>3. /\ \A i \in Invites : invite[i] # None => invite[i] \in Invite
        /\ \A x \in Invite : /\ [x EXCEPT !.expired = FALSE] \in Invite
                             /\ [x EXCEPT !.expired = TRUE] \in Invite
                             /\ [x EXCEPT !.revoked = TRUE] \in Invite
                             /\ [x EXCEPT !.accepted = TRUE] \in Invite
    BY <1>1 DEF Invite
  \* One row is written.
  <1>3a. ASSUME NEW i \in Invites, NEW x \in Invite, invite' = [invite EXCEPT ![i] = x]
         PROVE  /\ invite' \in [Invites -> Invite \cup {None}]
                /\ \A k \in Invites : invite[k] \in Invite => invite'[k] \in Invite
    BY <1>1, <1>3a
  <1>4. ASSUME NEW s \in Slots, NEW v \in Vendors, InviteRead(s, v) PROVE VetInv'
    <2>1. PICK r \in Memory : Begin(s, r) /\ SoundMemory(r)
      <3>1. CASE Begin(s, [op |-> "invite", to |-> v])
        BY <3>1, MemoryMade DEF SoundMemory
      <3>2. ASSUME NEW i \in Invites, invite[i] # None, Begin(s, [op |-> "issue", row |-> i])
            PROVE  \E r \in Memory : Begin(s, r) /\ SoundMemory(r)
        BY <1>3, <3>2, MemoryMade DEF SoundMemory
      <3>. QED
        BY <1>4, <3>1, <3>2 DEF InviteRead
    <2>2. UNCHANGED <<invite, vendor, papers, version, order>>
      BY <1>4 DEF InviteRead
    <2>. QED
      BY <2>1, <2>2, Asked, HandlerReads
  <1>5. ASSUME NEW s \in Slots, NEW i \in Invites, NEW op \in {"issue", "revoke"},
               InviteTouch(s, i, op)
        PROVE  VetInv'
    <2>. DEFINE r == [op |-> op, row |-> i]
    <2>1. r \in Memory /\ Begin(s, r) /\ UNCHANGED <<invite, vendor, papers, version, order>>
      BY <1>5, MemoryMade DEF InviteTouch
    <2>2. SoundMemory(r)
      BY <1>3, <1>5 DEF SoundMemory, InviteTouch
    <2>. HIDE DEF r
    <2>. QED
      BY <2>1, <2>2, Asked, HandlerReads
  <1>6. ASSUME NEW s \in Slots, InviteSave(s) PROVE VetInv'
    <2>1. run[s].to \in Vendors
      BY <1>6, MemoryKinds DEF InviteSave, VetInv, TypeOK
    <2>. DEFINE x == [to |-> run[s].to, accepted |-> FALSE, revoked |-> FALSE, expired |-> FALSE]
    <2>2. x \in Invite
      BY <2>1 DEF Invite
    <2>3. UNCHANGED invite \/ \E i \in Invites : invite' = [invite EXCEPT ![i] = x]
      BY <1>6 DEF InviteSave
    <2>. HIDE DEF x
    <2>4. /\ invite' \in [Invites -> Invite \cup {None}]
          /\ \A k \in Invites : invite[k] \in Invite => invite'[k] \in Invite
      BY <1>1, <1>3a, <2>2, <2>3
    <2>. QED
      BY <1>2, <1>6, <2>4, HandlerEnds DEF InviteSave
  <1>7. ASSUME NEW s \in Slots, Issue(s) \/ Revoke(s) PROVE VetInv'
    <2>. DEFINE i == run[s].row
    <2>1. i \in Invites /\ invite[i] \in Invite
      BY <1>7, MemoryKinds DEF Issue, Revoke, VetInv, TypeOK, HandlerSound
    <2>2. \/ invite' = [invite EXCEPT ![i] = [invite[i] EXCEPT !.expired = FALSE]]
          \/ invite' = [invite EXCEPT ![i] = [invite[i] EXCEPT !.revoked = TRUE]]
      BY <1>7 DEF Issue, Revoke
    <2>3. /\ invite' \in [Invites -> Invite \cup {None}]
          /\ \A k \in Invites : invite[k] \in Invite => invite'[k] \in Invite
      BY <1>3, <1>3a, <2>1, <2>2
    <2>. QED
      BY <1>2, <1>7, <2>3, HandlerEnds DEF Issue, Revoke
  <1>8. ASSUME NEW i \in Invites, Expire(i) PROVE VetInv'
    <2>1. /\ invite' \in [Invites -> Invite \cup {None}]
          /\ \A k \in Invites : invite[k] \in Invite => invite'[k] \in Invite
      BY <1>3, <1>3a, <1>8 DEF Expire
    <2>. QED
      BY <1>2, <1>8, <2>1, Asked, RowsStep DEF Expire
  <1>9. ASSUME NEW i \in Invites, AcceptInvitation(i) PROVE VetInv'
    <2>. DEFINE v == invite[i].to
    <2>1. invite[i] \in Invite /\ v \in Vendors
      BY <1>3, <1>9 DEF AcceptInvitation, Invite
    <2>2. /\ invite' \in [Invites -> Invite \cup {None}]
          /\ \A k \in Invites : invite[k] \in Invite => invite'[k] \in Invite
      BY <1>3, <1>3a, <1>9, <2>1 DEF AcceptInvitation
    <2>. DEFINE row == [vendor[v] EXCEPT !.status = "onboarding"]
    <2>3. vendor' = [vendor EXCEPT ![v] = row] /\ UNCHANGED <<papers, version, order>>
      BY <1>9, <2>1 DEF AcceptInvitation, VetInv, TypeOK
    <2>4. /\ row \in [status : VendorStatus, agreement : 0 .. version, done : SUBSET Items]
          /\ row.status = "onboarding" /\ row.agreement = vendor[v].agreement
      BY <2>1, VendorUpdates DEF VendorStatus
    <2>. HIDE DEF row, v
    <2>5. RowsTyped' /\ Grows /\ RowsSound' /\ TakerWasVetted'
      BY <2>1, <2>2, <2>3, <2>4, VendorWritten
    <2>. QED
      BY <1>9, <2>5, Asked, RowsStep DEF AcceptInvitation
  <1>. QED
    BY <1>4, <1>5, <1>6, <1>7, <1>8, <1>9 DEF InviteNext

-----------------------------------------------------------------------------
\* A vendor's tax forms are written: none goes, and what was verified stays so.
LEMMA FormsWritten ==
  ASSUME VetInv, NEW v \in Vendors, NEW forms \in Seq(TaxForm), Len(forms) <= MaxDocuments,
         taxForms' = [taxForms EXCEPT ![v] = forms],
         DOMAIN taxForms[v] \subseteq DOMAIN forms,
         \A f \in DOMAIN taxForms[v] : taxForms[v][f].verified => forms[f].verified,
         UNCHANGED <<invite, vendor, capability, rated, approved, version, order>>
  PROVE  RowsTyped' /\ Grows /\ RowsSound' /\ TakerWasVetted'
  <1>1. taxForms \in [Vendors -> Seq(TaxForm)]
    BY DEF VetInv, TypeOK
  <1>2. /\ taxForms' \in [Vendors -> Seq(TaxForm)]
        /\ taxForms'[v] = forms /\ \A w \in Vendors : w # v => taxForms'[w] = taxForms[w]
    BY <1>1
  <1>3. RowsTyped'
    BY <1>2 DEF RowsTyped, VetInv, TypeOK
  <1>4. \A w \in Vendors : /\ TaxSeen(w) => TaxSeen(w)'
                           /\ DOMAIN taxForms[w] \subseteq DOMAIN taxForms'[w]
    BY <1>2 DEF TaxSeen
  <1>5. Grows
    BY <1>4 DEF Grows
  <1>6. RowsSound'
    BY <1>4 DEF VetInv, RowsSound
  <1>. QED
    BY <1>3, <1>5, <1>6, TakerStaysVetted

\* Capabilities are written: what becomes approved was approved by somebody.
LEMMA CapabilitiesWritten ==
  ASSUME VetInv, capability' \in [Vendors -> [Technologies -> Capability]],
         \A v \in Vendors, t \in Technologies :
            /\ capability'[v][t].status = "none" => ~capability'[v][t].preferred
            /\ capability'[v][t].status = "approved" => t \in approved'[v],
         approved' \in [Vendors -> SUBSET Technologies],
         \A v \in Vendors : approved[v] \subseteq approved'[v],
         UNCHANGED <<invite, vendor, taxForms, rated, version, order>>
  PROVE  RowsTyped' /\ Grows /\ RowsSound' /\ TakerWasVetted'
  <1>1. RowsTyped'
    BY DEF RowsTyped, VetInv, TypeOK
  <1>2. Grows
    BY DEF Grows, TaxSeen
  <1>3. RowsSound'
    BY DEF VetInv, RowsSound, TaxSeen
  <1>. QED
    BY <1>1, <1>2, <1>3, TakerStaysVetted

\* A capability is what it was, none, or requested anew: never newly approved.
LEMMA DeclaredKind ==
  ASSUME NEW now \in Capability, NEW read \in Capability, NEW wanted \in BOOLEAN,
         now.status = "none" => ~now.preferred
  PROVE  LET c == Declared(now, read, wanted) IN
         /\ c \in Capability
         /\ c.status = "none" => ~c.preferred
         /\ c.status = "approved" => now.status = "approved"
  <1>1. NoCapability \in Capability /\ NoCapability.status = "none" /\ ~NoCapability.preferred
    BY DEF NoCapability, Capability
  <1>2. ASSUME NEW b \in BOOLEAN
        PROVE  /\ [status |-> "requested", preferred |-> b] \in Capability
               /\ [status |-> "requested", preferred |-> b].status = "requested"
    BY DEF Capability
  <1>3. (now.preferred /\ ~read.preferred) \in BOOLEAN
    BY DEF Capability
  <1>4. \/ Declared(now, read, wanted) = now
        \/ Declared(now, read, wanted) = NoCapability
        \/ Declared(now, read, wanted) = [status |-> "requested", preferred |-> FALSE]
        \/ Declared(now, read, wanted) =
              [status |-> "requested", preferred |-> now.preferred /\ ~read.preferred]
    BY DEF Declared
  <1>. QED
    BY <1>1, <1>2, <1>3, <1>4

\* The vendor's own steps.
LEMMA VendorVet ==
  ASSUME VetInv, VendorNext
  PROVE  VetInv'
  <1>1. /\ RowsTyped /\ run \in [Slots -> Memory]
        /\ invite \in [Invites -> Invite \cup {None}]
        /\ vendor \in [Vendors -> [status : VendorStatus, agreement : 0 .. version, done : SUBSET Items]]
        /\ capability \in [Vendors -> [Technologies -> Capability]]
        /\ taxForms \in [Vendors -> Seq(TaxForm)]
        /\ approved \in [Vendors -> SUBSET Technologies]
    BY DEF VetInv, TypeOK, RowsTyped
  <1>2. ASSUME NEW v \in Vendors, NEW done \in SUBSET Items, Edit(v, done) PROVE VetInv'
    <2>. DEFINE row == [vendor[v] EXCEPT !.done = done]
    <2>1. /\ vendor' = [vendor EXCEPT ![v] = row] /\ UNCHANGED <<invite, papers, version, order>>
          /\ AtOnce
      BY <1>2 DEF Edit
    <2>2. /\ row \in [status : VendorStatus, agreement : 0 .. version, done : SUBSET Items]
          /\ row.status = vendor[v].status /\ row.agreement = vendor[v].agreement
      BY VendorUpdates
    <2>3. row.status \in {"active", "suspended"} => TaxSeen(v)
      BY <2>2 DEF VetInv, RowsSound
    <2>. HIDE DEF row
    <2>4. RowsTyped' /\ Grows /\ RowsSound' /\ TakerWasVetted'
      BY <1>1, <2>1, <2>2, <2>3, VendorWritten
    <2>. QED
      BY <2>1, <2>4, Asked, RowsStep
  <1>3. ASSUME NEW v \in Vendors, AcceptAgreement(v) PROVE VetInv'
    <2>. DEFINE row == [vendor[v] EXCEPT !.agreement = version]
    <2>1. /\ vendor' = [vendor EXCEPT ![v] = row] /\ UNCHANGED <<invite, papers, version, order>>
          /\ AtOnce
      BY <1>3 DEF AcceptAgreement
    <2>2. /\ row \in [status : VendorStatus, agreement : 0 .. version, done : SUBSET Items]
          /\ row.status = vendor[v].status /\ row.agreement > 0
      BY VendorUpdates
    <2>3. row.status \in {"active", "suspended"} => TaxSeen(v)
      BY <2>2 DEF VetInv, RowsSound
    <2>. HIDE DEF row
    <2>4. RowsTyped' /\ Grows /\ RowsSound' /\ TakerWasVetted'
      BY <1>1, <2>1, <2>2, <2>3, VendorWritten
    <2>. QED
      BY <2>1, <2>4, Asked, RowsStep
  <1>4. ASSUME NEW v \in Vendors, UploadTaxDocument(v) PROVE VetInv'
    <2>. DEFINE forms == Append(taxForms[v], [verified |-> FALSE, rejected |-> FALSE])
    <2>0. taxForms[v] \in Seq(TaxForm) /\ [verified |-> FALSE, rejected |-> FALSE] \in TaxForm
      BY <1>1 DEF TaxForm
    <2>1. /\ Len(forms) = Len(taxForms[v]) + 1 /\ forms \in Seq(TaxForm)
          /\ \A i \in 1 .. Len(taxForms[v]) : forms[i] = taxForms[v][i]
      BY <2>0, AppendProperties
    <2>2. /\ DOMAIN taxForms[v] = 1 .. Len(taxForms[v]) /\ DOMAIN forms = 1 .. Len(forms)
          /\ Len(taxForms[v]) \in Nat
      BY <2>0, <2>1, LenProperties
    <2>3. /\ taxForms' = [taxForms EXCEPT ![v] = forms] /\ Len(taxForms[v]) < MaxDocuments
          /\ UNCHANGED <<invite, vendor, capability, rated, approved, version, order>> /\ AtOnce
      BY <1>4 DEF UploadTaxDocument
    <2>. HIDE DEF forms
    <2>4. /\ DOMAIN taxForms[v] \subseteq DOMAIN forms /\ Len(forms) <= MaxDocuments
          /\ \A f \in DOMAIN taxForms[v] : taxForms[v][f].verified => forms[f].verified
      BY <2>1, <2>2, <2>3, VettingAssumption
    <2>5. RowsTyped' /\ Grows /\ RowsSound' /\ TakerWasVetted'
      BY <2>1, <2>3, <2>4, FormsWritten
    <2>. QED
      BY <2>3, <2>5, Asked, RowsStep
  <1>5. ASSUME NEW s \in Slots, NEW v \in Vendors, NEW wanted \in SUBSET Technologies,
               CapabilitiesRead(s, v, wanted)
        PROVE  VetInv'
    <2>. DEFINE r == [op |-> "capabilities", vendor |-> v, wanted |-> wanted, read |-> capability[v]]
    <2>1. r \in Memory /\ SoundMemory(r)
      BY <1>1, MemoryMade DEF SoundMemory
    <2>2. Begin(s, r) /\ UNCHANGED <<invite, vendor, papers, version, order>>
      BY <1>5 DEF CapabilitiesRead
    <2>. HIDE DEF r
    <2>. QED
      BY <2>1, <2>2, Asked, HandlerReads
  <1>6. ASSUME NEW s \in Slots, NEW v \in Vendors, SubmitRead(s, v) PROVE VetInv'
    <2>. DEFINE r == [op |-> "status", vendor |-> v, to |-> "pending_review"]
    <2>1. r \in Memory /\ SoundMemory(r)
      BY MemoryMade DEF SoundMemory, VendorStatus
    <2>2. Begin(s, r) /\ UNCHANGED <<invite, vendor, papers, version, order>>
      BY <1>6 DEF SubmitRead
    <2>. HIDE DEF r
    <2>. QED
      BY <2>1, <2>2, Asked, HandlerReads
  <1>7. ASSUME NEW s \in Slots, CapabilitiesSave(s) PROVE VetInv'
    <2>. DEFINE r == run[s]
                new == [t \in Technologies |->
                          Declared(capability[r.vendor][t], r.read[t], t \in r.wanted)]
    <2>1. r.vendor \in Vendors /\ r.read \in [Technologies -> Capability]
      BY <1>1, <1>7, MemoryKinds DEF CapabilitiesSave
    <2>2. \A t \in Technologies : /\ new[t] \in Capability
                                  /\ new[t].status = "none" => ~new[t].preferred
                                  /\ new[t].status = "approved" => capability[r.vendor][t].status = "approved"
      <3>. SUFFICES ASSUME NEW t \in Technologies
                    PROVE  /\ new[t] \in Capability
                           /\ new[t].status = "none" => ~new[t].preferred
                           /\ new[t].status = "approved" => capability[r.vendor][t].status = "approved"
        OBVIOUS
      <3>. DEFINE c == Declared(capability[r.vendor][t], r.read[t], t \in r.wanted)
      <3>1. /\ capability[r.vendor][t] \in Capability /\ r.read[t] \in Capability
            /\ (t \in r.wanted) \in BOOLEAN
            /\ capability[r.vendor][t].status = "none" => ~capability[r.vendor][t].preferred
        BY <1>1, <2>1 DEF RowsTyped
      <3>2. /\ c \in Capability
            /\ c.status = "none" => ~c.preferred
            /\ c.status = "approved" => capability[r.vendor][t].status = "approved"
        BY <3>1, DeclaredKind
      <3>3. new[t] = c
        BY Zenon
      <3>. HIDE DEF c, new
      <3>. QED
        BY <3>2, <3>3
    <2>3. new \in [Technologies -> Capability]
      BY <2>2
    <2>4. UNCHANGED capability \/ capability' = [capability EXCEPT ![r.vendor] = new]
      BY <1>7 DEF CapabilitiesSave
    <2>5. UNCHANGED <<invite, vendor, taxForms, rated, approved, version, order>> /\ Ends(s)
      BY <1>7 DEF CapabilitiesSave
    <2>6. \A v \in Vendors, t \in Technologies :
             /\ capability[v][t].status = "none" => ~capability[v][t].preferred
             /\ capability[v][t].status = "approved" => t \in approved[v]
      BY DEF VetInv, RowsSound, TypeOK
    <2>. HIDE DEF new
    <2>7. /\ capability' \in [Vendors -> [Technologies -> Capability]]
          /\ \A v \in Vendors, t \in Technologies :
                /\ capability'[v][t].status = "none" => ~capability'[v][t].preferred
                /\ capability'[v][t].status = "approved" => t \in approved[v]
      <3>1. CASE UNCHANGED capability
        BY <1>1, <2>6, <3>1
      <3>2. CASE capability' = [capability EXCEPT ![r.vendor] = new]
        BY <1>1, <2>1, <2>2, <2>3, <2>6, <3>2
      <3>. QED
        BY <2>4, <3>1, <3>2
    <2>8. RowsTyped' /\ Grows /\ RowsSound' /\ TakerWasVetted'
      BY <1>1, <2>5, <2>7, CapabilitiesWritten
    <2>. QED
      BY <2>5, <2>8, HandlerEnds
  <1>8. ASSUME NEW s \in Slots, StatusSave(s) PROVE VetInv'
    <2>. DEFINE v == run[s].vendor
                row == [vendor[v] EXCEPT !.status = run[s].to]
    <2>1. v \in Vendors /\ run[s].to \in VendorStatus
      BY <1>1, <1>8, MemoryKinds DEF StatusSave
    <2>2. /\ vendor' = [vendor EXCEPT ![v] = row] /\ UNCHANGED <<invite, papers, version, order>>
          /\ Ends(s)
      BY <1>8 DEF StatusSave
    <2>3. /\ row \in [status : VendorStatus, agreement : 0 .. version, done : SUBSET Items]
          /\ row.status = run[s].to /\ row.agreement = vendor[v].agreement
      BY <2>1, VendorUpdates
    <2>4. row.status \in {"active", "suspended"} => TaxSeen(v)
      BY <1>8, <2>3 DEF VetInv, HandlerSound, StatusSave
    <2>. HIDE DEF row, v
    <2>5. RowsTyped' /\ Grows /\ RowsSound' /\ TakerWasVetted'
      BY <1>1, <2>1, <2>2, <2>3, <2>4, VendorWritten
    <2>. QED
      BY <2>2, <2>5, HandlerEnds
  <1>9. CASE BumpVersion
    <2>1. /\ version' = version + 1 /\ version' \in 1 .. MaxVersion /\ version \in Nat
          /\ UNCHANGED <<invite, vendor, capability, taxForms, rated, approved, order, run, asked>>
      BY <1>1, <1>9, VettingAssumption DEF BumpVersion, papers, RowsTyped
    <2>2. vendor' \in [Vendors -> [status : VendorStatus, agreement : 0 .. version', done : SUBSET Items]]
      <3>1. 0 .. version \subseteq 0 .. version'
        BY <2>1
      <3>. QED
        BY <1>1, <2>1, <3>1
    <2>3. RowsTyped'
      BY <1>1, <2>1, <2>2 DEF RowsTyped
    <2>4. Grows /\ RowsSound'
      BY <2>1 DEF VetInv, Grows, RowsSound, TaxSeen
    <2>. QED
      BY <2>1, <2>3, <2>4, TakerStaysVetted, Asked, RowsStep
  <1>. QED
    BY <1>2, <1>3, <1>4, <1>5, <1>6, <1>7, <1>8, <1>9 DEF VendorNext

\* What a review writes is a capability, there just when it was, and newly
\* approved only by an approving review.
LEMMA ChangedKind ==
  ASSUME NEW now \in Capability, NEW read \in Capability, now.status # "none",
         NEW to \in [status : {"approved", "rejected"}, preferred : BOOLEAN]
  PROVE  LET c == Changed(now, read, to) IN
         /\ c \in Capability /\ c.status # "none"
         /\ c.status = "approved" => now.status = "approved" \/ to.status = "approved"
  BY DEF Changed, Capability

\* The latest tax form is one of them.
LEMMA LatestForm ==
  ASSUME VetInv, NEW v \in Vendors, taxForms[v] # <<>>
  PROVE  /\ Len(taxForms[v]) \in DOMAIN taxForms[v] /\ Len(taxForms[v]) \in 1 .. MaxDocuments
         /\ TaxStatus(Latest(v)) = "verified" => TaxSeen(v)
  <1>1. taxForms[v] \in Seq(TaxForm) /\ Len(taxForms[v]) <= MaxDocuments
    BY DEF VetInv, TypeOK
  <1>2. DOMAIN taxForms[v] = 1 .. Len(taxForms[v]) /\ Len(taxForms[v]) \in Nat
    BY <1>1, LenProperties
  <1>3. Len(taxForms[v]) # 0
    BY <1>1, EmptySeq
  <1>4. Len(taxForms[v]) \in DOMAIN taxForms[v] /\ Len(taxForms[v]) \in 1 .. MaxDocuments
    BY <1>1, <1>2, <1>3, VettingAssumption
  <1>5. ASSUME TaxStatus(Latest(v)) = "verified" PROVE TaxSeen(v)
    <2>1. Latest(v).verified
      BY <1>5 DEF TaxStatus
    <2>. QED
      BY <1>4, <2>1 DEF Latest, TaxSeen
  <1>. QED
    BY <1>4, <1>5

\* The administrators' review.
LEMMA AdminVet ==
  ASSUME VetInv, AdminNext
  PROVE  VetInv'
  <1>1. /\ RowsTyped /\ run \in [Slots -> Memory]
        /\ capability \in [Vendors -> [Technologies -> Capability]]
        /\ taxForms \in [Vendors -> Seq(TaxForm)]
        /\ approved \in [Vendors -> SUBSET Technologies]
        /\ rated \in [Vendors -> SUBSET Technologies]
    BY DEF VetInv, TypeOK, RowsTyped
  <1>2. ASSUME NEW s \in Slots, NEW v \in Vendors, NEW t \in Technologies,
               NEW to \in {"approved", "rejected"}, NEW p \in Preferences, ReviewRead(s, v, t, to, p)
        PROVE  VetInv'
    <2>. DEFINE preferred == to = "approved" /\ (p = "yes" \/ (p = "same" /\ capability[v][t].preferred))
                r == [op |-> "review", vendor |-> v, technology |-> t, read |-> capability[v][t],
                      to |-> [status |-> to, preferred |-> preferred]]
    <2>1. Begin(s, r) /\ UNCHANGED <<invite, vendor, papers, version, order>>
      BY <1>2 DEF ReviewRead
    <2>2. preferred \in BOOLEAN /\ capability[v][t] \in Capability
      BY <1>1
    <2>. HIDE DEF preferred
    <2>3. [status |-> to, preferred |-> preferred] \in [status : {"approved", "rejected"}, preferred : BOOLEAN]
      BY <2>2
    <2>4. r \in Memory /\ SoundMemory(r)
      BY <2>2, <2>3, MemoryMade DEF SoundMemory
    <2>. HIDE DEF r
    <2>. QED
      BY <2>1, <2>4, Asked, HandlerReads
  <1>3. ASSUME NEW s \in Slots, NEW v \in Vendors, NEW verdict \in {"verify", "reject"},
               TaxRead(s, v, verdict)
        PROVE  VetInv'
    <2>. DEFINE r == [op |-> verdict, vendor |-> v, form |-> Len(taxForms[v])]
    <2>1. Begin(s, r) /\ UNCHANGED <<invite, vendor, papers, version, order>> /\ taxForms[v] # <<>>
      BY <1>3 DEF TaxRead
    <2>2. Len(taxForms[v]) \in DOMAIN taxForms[v] /\ Len(taxForms[v]) \in 1 .. MaxDocuments
      BY <2>1, LatestForm
    <2>3. r \in Memory /\ SoundMemory(r)
      BY <2>2, MemoryMade DEF SoundMemory
    <2>. HIDE DEF r
    <2>. QED
      BY <2>1, <2>3, Asked, HandlerReads
  \* Whoever is activated has had a tax form verified, and so has whoever is
  \* suspended or reinstated.
  <1>4. ASSUME NEW s \in Slots, NEW v \in Vendors,
               ActivateRead(s, v) \/ SuspendRead(s, v) \/ ReinstateRead(s, v)
        PROVE  VetInv'
    <2>1. TaxSeen(v)
      <3>1. CASE ActivateRead(s, v)
        BY <3>1, LatestForm DEF ActivateRead, OnboardingComplete, ReviewComplete
      <3>2. CASE SuspendRead(s, v) \/ ReinstateRead(s, v)
        BY <3>2 DEF SuspendRead, ReinstateRead, VetInv, RowsSound
      <3>. QED
        BY <1>4, <3>1, <3>2
    <2>2. PICK to \in {"active", "suspended"} : Begin(s, [op |-> "status", vendor |-> v, to |-> to])
      BY <1>4 DEF ActivateRead, SuspendRead, ReinstateRead
    <2>. DEFINE r == [op |-> "status", vendor |-> v, to |-> to]
    <2>3. r \in Memory /\ SoundMemory(r)
      BY <2>1, MemoryMade DEF SoundMemory, VendorStatus
    <2>4. UNCHANGED <<invite, vendor, papers, version, order>>
      BY <1>4 DEF ActivateRead, SuspendRead, ReinstateRead
    <2>. HIDE DEF r
    <2>5. Begin(s, r)
      BY <2>2 DEF r
    <2>. QED
      BY <2>3, <2>4, <2>5, Asked, HandlerReads
  <1>5. ASSUME NEW v \in Vendors, NEW t \in Technologies, Rate(v, t) PROVE VetInv'
    <2>1. /\ rated' = [rated EXCEPT ![v] = @ \cup {t}] /\ AtOnce
          /\ UNCHANGED <<invite, vendor, capability, taxForms, approved, version, order>>
      BY <1>5 DEF Rate
    <2>2. rated' \in [Vendors -> SUBSET Technologies] /\ \A w \in Vendors : rated[w] \subseteq rated'[w]
      BY <1>1, <2>1
    <2>3. RowsTyped'
      BY <1>1, <2>1, <2>2 DEF RowsTyped
    <2>4. Grows /\ RowsSound'
      BY <2>1, <2>2 DEF VetInv, Grows, RowsSound, TaxSeen
    <2>. QED
      BY <2>1, <2>3, <2>4, TakerStaysVetted, Asked, RowsStep
  <1>6. ASSUME NEW s \in Slots, ReviewSave(s) PROVE VetInv'
    <2>. DEFINE v == run[s].vendor
                t == run[s].technology
                c == Changed(capability[v][t], run[s].read, run[s].to)
    <2>1. /\ v \in Vendors /\ t \in Technologies /\ run[s].read \in Capability
          /\ run[s].to \in [status : {"approved", "rejected"}, preferred : BOOLEAN]
      BY <1>1, <1>6, MemoryKinds DEF ReviewSave
    <2>2. UNCHANGED <<invite, vendor, taxForms, rated, version, order>> /\ Ends(s)
      BY <1>6 DEF ReviewSave
    <2>3. \A w \in Vendors, u \in Technologies :
             /\ capability[w][u].status = "none" => ~capability[w][u].preferred
             /\ capability[w][u].status = "approved" => u \in approved[w]
      BY DEF VetInv, RowsSound, TypeOK
    <2>4. CASE capability[v][t].status = "none"
      <3>1. UNCHANGED <<capability, approved>>
        BY <1>6, <2>4 DEF ReviewSave
      <3>2. RowsTyped' /\ Grows /\ RowsSound' /\ TakerWasVetted'
        BY <1>1, <2>2, <2>3, <3>1, CapabilitiesWritten
      <3>. QED
        BY <2>2, <3>2, HandlerEnds
    <2>5. CASE capability[v][t].status # "none"
      <3>1. /\ c \in Capability /\ c.status # "none"
            /\ c.status = "approved" => capability[v][t].status = "approved" \/ run[s].to.status = "approved"
        <4>1. capability[v][t] \in Capability
          BY <1>1, <2>1
        <4>. QED
          BY <2>1, <2>5, <4>1, ChangedKind
      <3>2. /\ capability' = [capability EXCEPT ![v][t] = c]
            /\ approved' = IF run[s].to.status = "approved"
                           THEN [approved EXCEPT ![v] = @ \cup {t}] ELSE approved
        BY <1>6, <2>5 DEF ReviewSave
      <3>. HIDE DEF c, v, t
      <3>3. /\ capability' \in [Vendors -> [Technologies -> Capability]]
            /\ \A w \in Vendors, u \in Technologies :
                  capability'[w][u] = IF w = v /\ u = t THEN c ELSE capability[w][u]
        BY <1>1, <2>1, <3>1, <3>2
      <3>4. /\ approved' \in [Vendors -> SUBSET Technologies]
            /\ \A w \in Vendors : approved[w] \subseteq approved'[w]
            /\ run[s].to.status = "approved" => t \in approved'[v]
        BY <1>1, <2>1, <3>2
      <3>5. \A w \in Vendors, u \in Technologies :
               /\ capability'[w][u].status = "none" => ~capability'[w][u].preferred
               /\ capability'[w][u].status = "approved" => u \in approved'[w]
        BY <2>1, <2>3, <3>1, <3>3, <3>4
      <3>6. RowsTyped' /\ Grows /\ RowsSound' /\ TakerWasVetted'
        BY <2>2, <3>3, <3>4, <3>5, CapabilitiesWritten
      <3>. QED
        BY <2>2, <3>6, HandlerEnds
    <2>. QED
      BY <2>4, <2>5
  <1>7. ASSUME NEW s \in Slots, TaxSave(s) PROVE VetInv'
    <2>. DEFINE v == run[s].vendor
                f == run[s].form
                old == taxForms[v]
    <2>1. v \in Vendors /\ f \in DOMAIN old /\ old \in Seq(TaxForm) /\ Len(old) <= MaxDocuments
      <3>1. v \in Vendors
        BY <1>1, <1>7, MemoryKinds DEF TaxSave
      <3>2. f \in DOMAIN old
        BY <1>7 DEF TaxSave, VetInv, HandlerSound
      <3>. QED
        BY <1>1, <3>1, <3>2 DEF RowsTyped
    <2>2. DOMAIN old = 1 .. Len(old) /\ old[f] \in TaxForm
      BY <2>1, LenProperties
    <2>3. PICK form \in {[old[f] EXCEPT !.verified = TRUE], [old[f] EXCEPT !.rejected = TRUE]} :
             taxForms' = [taxForms EXCEPT ![v] = [old EXCEPT ![f] = form]]
      BY <1>7 DEF TaxSave
    <2>4. form \in TaxForm /\ (old[f].verified => form.verified)
      BY <2>2 DEF TaxForm
    <2>. DEFINE forms == [old EXCEPT ![f] = form]
    <2>5. /\ forms \in Seq(TaxForm) /\ Len(forms) = Len(old)
          /\ \A i \in 1 .. Len(old) : forms[i] = IF i = f THEN form ELSE old[i]
      BY <2>1, <2>2, <2>4, ExceptSeq
    <2>6. DOMAIN forms = DOMAIN old
      <3>. HIDE DEF forms, old
      <3>. QED
        BY <2>2, <2>5, LenProperties
    <2>7. /\ UNCHANGED <<invite, vendor, capability, rated, approved, version, order>> /\ Ends(s)
          /\ taxForms' = [taxForms EXCEPT ![v] = forms]
      BY <1>7, <2>3 DEF TaxSave
    <2>. HIDE DEF forms
    <2>8. \A i \in DOMAIN old : old[i].verified => forms[i].verified
      BY <2>2, <2>4, <2>5
    <2>9. Len(forms) <= MaxDocuments
      BY <2>1, <2>5
    <2>10. RowsTyped' /\ Grows /\ RowsSound' /\ TakerWasVetted'
      <3>. HIDE DEF v
      <3>. QED
        BY <2>1, <2>5, <2>6, <2>7, <2>8, <2>9, FormsWritten
    <2>. QED
      BY <2>7, <2>10, HandlerEnds
  <1>. QED
    BY <1>2, <1>3, <1>4, <1>5, <1>6, <1>7 DEF AdminNext

-----------------------------------------------------------------------------
\* What covers an order has been reviewed and belongs to an activated vendor.
LEMMA CoverVetted ==
  ASSUME VetInv, NEW v \in Vendors, NEW preferred, Covers(v, Required, preferred)
  PROVE  TaxSeen(v) /\ Required \subseteq approved[v]
  <1>1. vendor[v].status = "active" /\ \A t \in Required : capability[v][t].status = "approved"
    BY DEF Covers
  <1>2. TaxSeen(v)
    BY <1>1 DEF VetInv, RowsSound
  <1>3. Required \subseteq approved[v]
    BY <1>1, VettingAssumption DEF VetInv, RowsSound
  <1>. QED
    BY <1>2, <1>3

\* A step that writes the order alone, and not who took it.
LEMMA OrderWritten ==
  ASSUME VetInv, UNCHANGED <<invite, vendor, papers, version>>,
         order' \in [status : {"none", "open", "accepted", "cancelled"},
                     vendor : Vendors \cup {None}, stage : Stages],
         order'.status = "accepted" <=> order'.vendor # None
  PROVE  /\ RowsTyped' /\ Grows /\ RowsSound'
         /\ order'.vendor = order.vendor => TakerWasVetted'
  <1>1. UNCHANGED <<invite, vendor, capability, taxForms, rated, approved, version>>
    BY DEF papers
  <1>2. RowsTyped' /\ Grows /\ RowsSound'
    BY <1>1 DEF VetInv, TypeOK, RowsTyped, RowsSound, Grows, TaxSeen
  <1>3. order'.vendor = order.vendor => TakerWasVetted'
    BY <1>1 DEF VetInv, TakerWasVetted
  <1>. QED
    BY <1>2, <1>3

\* Checkout, routing and acceptance.
LEMMA OrderVet ==
  ASSUME VetInv, OrderNext
  PROVE  VetInv'
  <1>1. /\ run \in [Slots -> Memory]
        /\ order \in [status : {"none", "open", "accepted", "cancelled"},
                      vendor : Vendors \cup {None}, stage : Stages]
        /\ order.status = "accepted" <=> order.vendor # None
    BY DEF VetInv, TypeOK
  <1>2. ASSUME NEW s \in Slots, PlaceOrder(s) PROVE VetInv'
    <2>. DEFINE r == [op |-> "place"]
    <2>1. r \in Memory
      BY MemoryMade
    <2>2. /\ order.status = "none" /\ order' = [order EXCEPT !.status = "open"]
          /\ BeginFree(s, r) /\ UNCHANGED <<invite, vendor, papers, version, asked>>
      BY <1>2 DEF PlaceOrder
    <2>3. RowsTyped' /\ Grows /\ RowsSound' /\ TakerWasVetted'
      BY <1>1, <2>2, OrderWritten
    <2>4. run' = [run EXCEPT ![s] = r] /\ asked' \in 0 .. MaxRequests
      BY <2>2, Asked
    <2>5. HandlerSound(s)'
      BY <1>1, <2>4 DEF HandlerSound
    <2>. HIDE DEF r
    <2>. QED
      BY <2>1, <2>3, <2>4, <2>5, HandlerStep
  <1>3. ASSUME NEW s \in Slots, RouteRead(s) PROVE VetInv'
    <2>1. UNCHANGED <<invite, vendor, papers, version, order>>
      BY <1>3 DEF RouteRead
    <2>2. CASE Ends(s)
      BY <2>1, <2>2, EndsQuietly
    <2>3. CASE \E g \in Stages : Continue(s, [op |-> "route", stage |-> g])
      <3>. PICK g \in Stages : Continue(s, [op |-> "route", stage |-> g])
        BY <2>3
      <3>. DEFINE r == [op |-> "route", stage |-> g]
      <3>1. r \in Memory /\ SoundMemory(r)
        BY MemoryMade DEF SoundMemory
      <3>. HIDE DEF r
      <3>. QED
        BY <2>1, <3>1, Asked, HandlerReads DEF r
    <2>. QED
      <3>1. {"unfulfillable", "preferred", "open"} \subseteq Stages
        BY DEF Stages
      <3>. QED
        BY <1>3, <2>2, <2>3, <3>1 DEF RouteRead
  <1>4. ASSUME NEW s \in Slots, RouteSave(s) PROVE VetInv'
    <2>1. /\ run[s].stage \in Stages /\ order' = [order EXCEPT !.stage = run[s].stage]
          /\ Ends(s) /\ UNCHANGED <<invite, vendor, papers, version>>
      BY <1>1, <1>4, MemoryKinds DEF RouteSave
    <2>2. RowsTyped' /\ Grows /\ RowsSound' /\ TakerWasVetted'
      BY <1>1, <2>1, OrderWritten
    <2>. QED
      BY <2>1, <2>2, HandlerEnds
  <1>5. ASSUME NEW s \in Slots, NEW v \in Vendors, AcceptRead(s, v) PROVE VetInv'
    <2>. DEFINE r == [op |-> "accept", vendor |-> v, stage |-> order.stage]
    <2>1. vendor[v].agreement > 0
      BY <1>5 DEF AcceptRead, HasAgreement, VetInv, TypeOK
    <2>2. r \in Memory /\ SoundMemory(r)
      BY <1>1, <2>1, MemoryMade DEF SoundMemory
    <2>3. BeginFree(s, r) /\ UNCHANGED <<invite, vendor, papers, version, order, asked>>
      BY <1>5 DEF AcceptRead
    <2>. HIDE DEF r
    <2>. QED
      BY <2>2, <2>3, Asked, HandlerReads
  <1>6. ASSUME NEW s \in Slots, AcceptCheck(s) PROVE VetInv'
    <2>1. UNCHANGED <<invite, vendor, papers, version, order>>
      BY <1>6 DEF AcceptCheck
    <2>2. CASE Ends(s)
      BY <2>1, <2>2, EndsQuietly
    <2>3. CASE /\ Covers(run[s].vendor, Required, run[s].stage = "preferred")
               /\ Continue(s, [op |-> "take", vendor |-> run[s].vendor])
      <3>. DEFINE r == [op |-> "take", vendor |-> run[s].vendor]
      <3>1. run[s].vendor \in Vendors /\ vendor[run[s].vendor].agreement > 0
        BY <1>1, <1>6, MemoryKinds DEF AcceptCheck, VetInv, HandlerSound
      <3>2. TaxSeen(run[s].vendor) /\ Required \subseteq approved[run[s].vendor]
        BY <2>3, <3>1, CoverVetted
      <3>3. r \in Memory /\ SoundMemory(r)
        BY <3>1, <3>2, MemoryMade DEF SoundMemory
      <3>4. Continue(s, r)
        BY <2>3
      <3>. HIDE DEF r
      <3>. QED
        BY <2>1, <3>3, <3>4, Asked, HandlerReads
    <2>. QED
      BY <1>6, <2>2, <2>3 DEF AcceptCheck
  <1>7. ASSUME NEW s \in Slots, AcceptTake(s) PROVE VetInv'
    <2>. DEFINE v == run[s].vendor
    <2>1. /\ v \in Vendors /\ TaxSeen(v) /\ Required \subseteq approved[v] /\ vendor[v].agreement > 0
      BY <1>1, <1>7, MemoryKinds DEF AcceptTake, VetInv, HandlerSound
    <2>2. UNCHANGED <<invite, vendor, papers, version>> /\ Ends(s)
      BY <1>7 DEF AcceptTake
    <2>3. CASE UNCHANGED order
      BY <2>2, <2>3, EndsQuietly
    <2>4. CASE /\ Required \subseteq rated[v]
               /\ order' = [order EXCEPT !.status = "accepted", !.vendor = v]
      <3>1. order'.vendor = v /\ v # None
        BY <1>1, <2>1, <2>4, VettingAssumption
      <3>2. RowsTyped' /\ Grows /\ RowsSound'
        BY <1>1, <2>1, <2>2, <2>4, <3>1, OrderWritten
      <3>3. TakerWasVetted'
        BY <2>1, <2>2, <2>4, <3>1 DEF TakerWasVetted, TaxSeen, papers
      <3>. QED
        BY <2>2, <3>2, <3>3, HandlerEnds
    <2>. QED
      BY <1>7, <2>3, <2>4 DEF AcceptTake
  <1>8. ASSUME NEW s \in Slots, Die(s) PROVE VetInv'
    BY <1>8, EndsQuietly DEF Die
  <1>9. CASE Escalate \/ Withdraw
    <2>1. /\ UNCHANGED <<invite, vendor, papers, version, run, asked>>
          /\ \/ order' = [order EXCEPT !.stage = "open"]
             \/ /\ order.status = "open"
                /\ order' = [order EXCEPT !.status = "cancelled"]
      BY <1>9 DEF Escalate, Withdraw
    <2>2. "open" \in Stages
      BY DEF Stages
    <2>3. RowsTyped' /\ Grows /\ RowsSound' /\ TakerWasVetted'
      BY <1>1, <2>1, <2>2, OrderWritten
    <2>. QED
      BY <2>1, <2>3, Asked, RowsStep
  <1>. QED
    BY <1>2, <1>3, <1>4, <1>5, <1>6, <1>7, <1>8, <1>9 DEF OrderNext

-----------------------------------------------------------------------------
\* The rows are sound between any two steps, and every handler may count on what
\* it has seen: forms and approvals are only added to, and an agreement accepted
\* is only replaced by a later one (vendor_onboarding_service.ts,
\* order_acceptance_service.ts).
THEOREM VetInvariance == Spec => []VetInv
  <1>1. Init => VetInv
    BY InitVet
  <1>2. VetInv /\ [Next]_vars => VetInv'
    <2>. SUFFICES ASSUME VetInv, [Next]_vars PROVE VetInv'
      OBVIOUS
    <2>1. CASE Next
      BY <2>1, InviteVet, VendorVet, AdminVet, OrderVet DEF Next
    <2>2. CASE UNCHANGED vars
      <3>1. UNCHANGED <<invite, vendor, papers, version, order, run, asked>>
        BY <2>2 DEF vars, papers
      <3>2. RowsTyped' /\ Grows /\ RowsSound' /\ TakerWasVetted'
        BY <3>1, OrderWritten DEF VetInv, TypeOK
      <3>. QED
        BY <3>1, <3>2, Asked, RowsStep
    <2>. QED
      BY <2>1, <2>2
  <1>. QED
    BY <1>1, <1>2, PTL DEF Spec

\* Rows and what the handlers hold stay of their kinds, an order has a vendor
\* just when it was accepted, and no capability is preferred and absent, for any
\* number of vendors, technologies and handlers at once.
THEOREM TypeCorrect == Spec => []TypeOK
  <1>1. VetInv => TypeOK
    BY DEF VetInv
  <1>. QED
    BY <1>1, VetInvariance, PTL

\* Only a vetted vendor ever has the customer's order, however its requests, the
\* administrators' and the order's cross (order_acceptance_service.ts:80-83,
\* vendor_onboarding_service.ts:507), for any number of handlers at once.
THEOREM TakersVetted == Spec => []TakerWasVetted
  <1>1. VetInv => TakerWasVetted
    BY DEF VetInv
  <1>. QED
    BY <1>1, VetInvariance, PTL

-----------------------------------------------------------------------------
(***************************************************************************)
(* Messaging.                                                              *)
(***************************************************************************)

Verdict == Waiting \cup Delivered \cup {"blocked"}
CaseRow == [msg : Keys, open : BOOLEAN]
FileRow == [status : FileStatus, msg : Keys \cup {None}, scans : Nat]

\* What a handler of messages may hold.
Held ==
    [op : {"none"}]
    \cup [op : {"send"}, key : Keys, files : SUBSET Files, reopen : BOOLEAN, status : Verdict]
    \cup [op : {"dispatch", "rescan"}, key : Keys]
    \cup [op : {"pass"}, key : Keys, status : Verdict]
    \cup [op : {"deliver"}, key : Keys, status : Delivered, case : Nat]
    \cup [op : {"block"}, key : Keys, case : Nat, status : {"blocked", "removed"}]
    \cup [op : {"resolve", "claim"}, case : Nat]
    \cup [op : {"complete"}, file : Files]
    \cup [op : {"scan"}, file : Files, msg : Keys \cup {None}]
    \cup [op : {"refresh"}, tier : Tiers]
    \cup [op : {"close"}, reason : Reasons]
    \cup [op : {"bar"}, open : BOOLEAN]

\* Nothing keeps the files from going out with their message.
AllClean(fs) == \A f \in fs \ again : file[f].status = "clean"

\* A message that was sent and neither waits nor will wait again.
Settled(k) == msg[k] \notin Waiting \cup {"none"}

\* The rows agree with one another.
RowsAgree ==
    /\ \A c \in DOMAIN cases : msg[cases[c].msg] # "none"
    /\ \A f \in Files : /\ f \notin again /\ file[f].scans # 0 => file[f].status = "uploaded" /\ file[f].scans = 1
                        /\ file[f].msg # None => file[f].status # "none"

\* What a handler has seen, and may count on until it writes.
Seen(r) ==
    /\ r.op = "send" => /\ \A f \in r.files : file[f].status # "none"
                        /\ r.status \in Delivered => AllClean(r.files)
    /\ r.op = "pass" => msg[r.key] # "none" /\ (r.status \in Delivered => AllClean(FilesOf(r.key)))
    /\ r.op = "deliver" => /\ msg[r.key] # "none"
                           /\ r.case = 0 => AllClean(FilesOf(r.key))
    /\ r.op \in {"deliver", "block", "claim", "resolve"} /\ r.case # 0 => r.case \in DOMAIN cases
    /\ r.op \in {"block", "claim", "resolve"} => r.case # 0
    /\ r.op \in {"deliver", "block"} /\ r.case # 0 => cases[r.case].msg = r.key
    /\ r.op = "resolve" => Settled(cases[r.case].msg)
    /\ r.op = "rescan" => msg[r.key] # "none"
    /\ r.op = "scan" /\ r.file \notin again =>
           file[r.file].status = "uploaded" /\ file[r.file].scans = 0

\* A file whose upload was completed once is scanned once.
ScannedOnce ==
    \A s, t \in Slots :
        s # t /\ run[s].op = "scan" /\ run[t].op = "scan" /\ run[s].file \notin again
        => run[s].file # run[t].file

SideKinds ==
    /\ thread \in [status : {"open", "read_only"}, reason : Reasons \cup {None},
                   seen : BOOLEAN, quiet : BOOLEAN, late : BOOLEAN]
    /\ thread.status = "open" <=> thread.reason = None
    /\ barred \in BOOLEAN /\ tier \in Tiers
    /\ queue \subseteq [key : Keys, final : BOOLEAN]

CoreKinds ==
    /\ msg \in [Keys -> MessageStatus] /\ file \in [Files -> FileRow] /\ cases \in Seq(CaseRow)
    /\ \A f \in Files : file[f].msg # None => msg[file[f].msg] # "none"
    /\ cleared \subseteq Keys /\ again \subseteq Files

MessageInv ==
    /\ SideKinds /\ CoreKinds /\ run \in [Slots -> Held] /\ RowsAgree
    /\ (\A s \in Slots : Seen(run[s])) /\ ScannedOnce
    /\ ReviewHasCase /\ FilesScannedOrApproved

\* What no step takes back.
Lasts ==
    /\ \A k \in Keys : /\ msg[k] # "none" => msg'[k] # "none"
                       /\ Settled(k) => Settled(k)'
                       /\ msg[k] # "none" => FilesOf(k)' \subseteq FilesOf(k)
    /\ DOMAIN cases \subseteq DOMAIN cases' /\ \A c \in DOMAIN cases : cases'[c].msg = cases[c].msg
    /\ \A f \in Files : /\ file[f].status = "clean" /\ f \notin again' => file'[f].status = "clean"
                        /\ file[f].status # "none" => file'[f].status # "none"
    /\ again \subseteq again'

\* A file that t's scan is looking at is left to it.
ScanSpared(t) ==
    run[t].op = "scan" /\ run[t].file \notin again' =>
        file'[run[t].file].status = "uploaded" /\ file'[run[t].file].scans = 0

\* What else the invariant says of the rows.
RowsKept == SideKinds /\ CoreKinds /\ RowsAgree /\ ReviewHasCase /\ FilesScannedOrApproved

-----------------------------------------------------------------------------
\* What a handler holds, by what it is doing.
LEMMA HeldKinds ==
  ASSUME NEW m \in Held
  PROVE  /\ m.op \in {"send", "dispatch", "rescan", "pass", "deliver", "block"} => m.key \in Keys
         /\ m.op \in {"send", "pass"} => m.status \in Verdict
         /\ m.op = "send" => m.files \in SUBSET Files /\ m.reopen \in BOOLEAN
         /\ m.op = "deliver" => m.status \in Delivered
         /\ m.op = "block" => m.status \in {"blocked", "removed"}
         /\ m.op \in {"deliver", "block", "resolve", "claim"} => m.case \in Nat
         /\ m.op \in {"scan", "complete"} => m.file \in Files
         /\ m.op = "scan" => m.msg \in Keys \cup {None}
         /\ m.op = "refresh" => m.tier \in Tiers
         /\ m.op = "close" => m.reason \in Reasons
         /\ m.op = "bar" => m.open \in BOOLEAN
  BY DEF Held

LEMMA HeldMade ==
  /\ [op |-> "none"] \in Held
  /\ \A k \in Keys, fs \in SUBSET Files, b \in BOOLEAN, v \in Verdict :
        [op |-> "send", key |-> k, files |-> fs, reopen |-> b, status |-> v] \in Held
  /\ \A k \in Keys, op \in {"dispatch", "rescan"} : [op |-> op, key |-> k] \in Held
  /\ \A k \in Keys, v \in Verdict : [op |-> "pass", key |-> k, status |-> v] \in Held
  /\ \A k \in Keys, v \in Delivered, c \in Nat :
        [op |-> "deliver", key |-> k, status |-> v, case |-> c] \in Held
  /\ \A k \in Keys, v \in {"blocked", "removed"}, c \in Nat :
        [op |-> "block", key |-> k, case |-> c, status |-> v] \in Held
  /\ \A c \in Nat, op \in {"resolve", "claim"} : [op |-> op, case |-> c] \in Held
  /\ \A f \in Files, m \in Keys \cup {None} : [op |-> "scan", file |-> f, msg |-> m] \in Held
  /\ \A t \in Tiers : [op |-> "refresh", tier |-> t] \in Held
  /\ \A r \in Reasons : [op |-> "close", reason |-> r] \in Held
  /\ \A b \in BOOLEAN : [op |-> "bar", open |-> b] \in Held
  /\ \A f \in Files : [op |-> "complete", file |-> f] \in Held
  <1>1. [op |-> "none"] \in Held
    BY DEF Held
  <1>2. \A k \in Keys, fs \in SUBSET Files, b \in BOOLEAN, v \in Verdict :
          [op |-> "send", key |-> k, files |-> fs, reopen |-> b, status |-> v] \in Held
    BY DEF Held
  <1>3. \A k \in Keys, op \in {"dispatch", "rescan"} : [op |-> op, key |-> k] \in Held
    BY DEF Held
  <1>4. \A k \in Keys, v \in Verdict : [op |-> "pass", key |-> k, status |-> v] \in Held
    BY DEF Held
  <1>5. \A k \in Keys, v \in Delivered, c \in Nat :
          [op |-> "deliver", key |-> k, status |-> v, case |-> c] \in Held
    BY DEF Held
  <1>6. \A k \in Keys, v \in {"blocked", "removed"}, c \in Nat :
          [op |-> "block", key |-> k, case |-> c, status |-> v] \in Held
    BY DEF Held
  <1>7. \A c \in Nat, op \in {"resolve", "claim"} : [op |-> op, case |-> c] \in Held
    BY DEF Held
  <1>8. \A f \in Files, m \in Keys \cup {None} : [op |-> "scan", file |-> f, msg |-> m] \in Held
    BY DEF Held
  <1>9. /\ \A t \in Tiers : [op |-> "refresh", tier |-> t] \in Held
        /\ \A r \in Reasons : [op |-> "close", reason |-> r] \in Held
    BY DEF Held
  <1>10. /\ \A b \in BOOLEAN : [op |-> "bar", open |-> b] \in Held
         /\ \A f \in Files : [op |-> "complete", file |-> f] \in Held
    BY DEF Held
  <1>. QED
    BY <1>1, <1>2, <1>3, <1>4, <1>5, <1>6, <1>7, <1>8, <1>9, <1>10

\* The types of the rows, by the variable.
LEMMA KindsAre == SideKinds /\ CoreKinds => MessagingTypeOK
  BY DEF SideKinds, CoreKinds, MessagingTypeOK, FileRow, CaseRow

LEMMA CasesAre ==
  ASSUME CoreKinds
  PROVE  /\ DOMAIN cases = 1 .. Len(cases) /\ Len(cases) \in Nat
         /\ \A c \in DOMAIN cases : cases[c] \in CaseRow /\ cases[c].msg \in Keys /\ c \in Nat \ {0}
  <1>1. /\ DOMAIN cases = 1 .. Len(cases) /\ Len(cases) \in Nat
        /\ cases \in [1 .. Len(cases) -> CaseRow]
    BY LenProperties DEF CoreKinds
  <1>. QED
    BY <1>1 DEF CaseRow

\* A case is opened.
LEMMA CaseOpened ==
  ASSUME CoreKinds, NEW k \in Keys, OpenCase(k)
  PROVE  /\ cases' \in Seq(CaseRow) /\ DOMAIN cases \subseteq DOMAIN cases'
         /\ \A c \in DOMAIN cases : cases'[c] = cases[c]
         /\ \A c \in DOMAIN cases' : c \in DOMAIN cases \/ cases'[c].msg = k
         /\ \E c \in DOMAIN cases' : cases'[c].msg = k /\ cases'[c].open
  <1>. DEFINE row == [msg |-> k, open |-> TRUE]
  <1>1. row \in CaseRow /\ cases' = Append(cases, row) /\ cases \in Seq(CaseRow)
    BY DEF OpenCase, CaseRow, CoreKinds
  <1>2. /\ cases' \in Seq(CaseRow) /\ Len(cases') = Len(cases) + 1
        /\ \A c \in 1 .. Len(cases) : cases'[c] = cases[c]
        /\ cases'[Len(cases) + 1] = row
    BY <1>1, AppendProperties
  <1>3. /\ DOMAIN cases = 1 .. Len(cases) /\ Len(cases) \in Nat
        /\ DOMAIN cases' = 1 .. Len(cases) + 1
    BY <1>1, <1>2, LenProperties
  <1>4. \E c \in DOMAIN cases' : cases'[c].msg = k /\ cases'[c].open
    <2>1. Len(cases) + 1 \in DOMAIN cases'
      BY <1>3
    <2>. QED
      BY <1>2, <2>1
  <1>5. \A c \in DOMAIN cases' : c \in DOMAIN cases \/ cases'[c].msg = k
    BY <1>2, <1>3
  <1>. QED
    BY <1>2, <1>3, <1>4, <1>5

\* A case's status is written.
LEMMA CaseMarked ==
  ASSUME CoreKinds, NEW c \in DOMAIN cases, NEW o \in BOOLEAN,
         cases' = [cases EXCEPT ![c].open = o]
  PROVE  /\ cases' \in Seq(CaseRow) /\ DOMAIN cases' = DOMAIN cases
         /\ \A d \in DOMAIN cases : /\ cases'[d].msg = cases[d].msg
                                    /\ d # c => cases'[d] = cases[d]
         /\ cases'[c].open = o
  <1>. DEFINE row == [cases[c] EXCEPT !.open = o]
  <1>1. cases \in Seq(CaseRow) /\ row \in CaseRow /\ c \in 1 .. Len(cases)
        /\ row.msg = cases[c].msg /\ row.open = o
    BY CasesAre DEF CoreKinds, CaseRow
  <1>2. cases' = [cases EXCEPT ![c] = row]
    OBVIOUS
  <1>. HIDE DEF row
  <1>3. /\ cases' \in Seq(CaseRow) /\ Len(cases') = Len(cases)
        /\ \A d \in 1 .. Len(cases) : cases'[d] = IF d = c THEN row ELSE cases[d]
    BY <1>1, <1>2, ExceptSeq
  <1>4. DOMAIN cases = 1 .. Len(cases) /\ DOMAIN cases' = 1 .. Len(cases)
    BY <1>1, <1>3, LenProperties
  <1>. QED
    BY <1>1, <1>3, <1>4

\* What another handler has seen stays true.
LEMMA StaysSeen ==
  ASSUME NEW m \in Held, Seen(m), CoreKinds, Lasts,
         m.op = "scan" /\ m.file \notin again' =>
             file'[m.file].status = "uploaded" /\ file'[m.file].scans = 0
  PROVE  Seen(m)'
  <1>1. CASE m.op = "send"
    <2>1. m.files \in SUBSET Files
      BY <1>1, HeldKinds
    <2>. QED
      BY <1>1, <2>1 DEF Seen, Lasts, AllClean
  <1>2. CASE m.op \in {"pass", "deliver"}
    <2>1. m.key \in Keys /\ FilesOf(m.key) \subseteq Files
      BY <1>2, HeldKinds DEF FilesOf
    <2>2. msg[m.key] # "none" /\ msg'[m.key] # "none" /\ FilesOf(m.key)' \subseteq FilesOf(m.key)
      BY <1>2, <2>1 DEF Seen, Lasts
    <2>3. AllClean(FilesOf(m.key)) => AllClean(FilesOf(m.key))'
      BY <2>1, <2>2 DEF AllClean, Lasts
    <2>. QED
      BY <1>2, <2>1, <2>2, <2>3 DEF Seen, Lasts
  <1>3. CASE m.op \in {"block", "claim"}
    BY <1>3 DEF Seen, Lasts
  <1>4. CASE m.op = "resolve"
    <2>1. m.case \in DOMAIN cases /\ m.case \in DOMAIN cases' /\ cases'[m.case].msg = cases[m.case].msg
      BY <1>4 DEF Seen, Lasts
    <2>2. cases[m.case].msg \in Keys
      BY <2>1, CasesAre
    <2>3. Settled(cases[m.case].msg) /\ m.case # 0
      BY <1>4 DEF Seen
    <2>4. Settled(cases[m.case].msg)' 
      BY <2>1, <2>2, <2>3 DEF Lasts, Settled
    <2>. QED
      BY <1>4, <2>1, <2>3, <2>4 DEF Seen
  <1>5. CASE m.op = "rescan"
    <2>1. m.key \in Keys
      BY <1>5, HeldKinds
    <2>. QED
      BY <1>5, <2>1 DEF Seen, Lasts
  <1>6. CASE m.op \notin {"send", "pass", "deliver", "block", "claim", "resolve", "rescan"}
    BY <1>6 DEF Seen
  <1>. QED
    BY <1>1, <1>2, <1>3, <1>4, <1>5, <1>6

\* A step of one handler.
LEMMA HandlerMoves ==
  ASSUME MessageInv, NEW s \in Slots, NEW r \in Held, run' = [run EXCEPT ![s] = r],
         RowsKept', Lasts, \A t \in Slots : t # s => ScanSpared(t), Seen(r)',
         r.op = "scan" /\ r.file \notin again' =>
             \A t \in Slots : t # s /\ run[t].op = "scan" => run[t].file # r.file
  PROVE  MessageInv' /\ Lasts
  <1>1. run \in [Slots -> Held] /\ CoreKinds
    BY DEF MessageInv
  <1>2. /\ run' \in [Slots -> Held] /\ run'[s] = r
        /\ \A t \in Slots : t # s => run'[t] = run[t]
    BY <1>1
  <1>3. ASSUME NEW t \in Slots, t # s PROVE Seen(run[t])'
    <2>1. ScanSpared(t) /\ Seen(run[t]) /\ run[t] \in Held /\ run'[t] = run[t]
      BY <1>1, <1>2, <1>3 DEF MessageInv
    <2>2. ASSUME NEW m \in Held, m = run[t] PROVE Seen(m)'
      <3>1. Seen(m) /\ (m.op = "scan" /\ m.file \notin again' =>
             file'[m.file].status = "uploaded" /\ file'[m.file].scans = 0)
        BY <2>1, <2>2 DEF ScanSpared
      <3>. QED
        BY <1>1, <3>1, StaysSeen
    <2>. QED
      BY <2>1, <2>2 DEF Seen
  <1>4. \A t \in Slots : Seen(run[t])'
    BY <1>2, <1>3 DEF Seen
  <1>5. ScannedOnce'
    BY <1>2 DEF MessageInv, ScannedOnce, Lasts
  <1>. QED
    BY <1>2, <1>4, <1>5 DEF MessageInv, RowsKept

\* A step that no handler takes.
LEMMA NoneMoves ==
  ASSUME MessageInv, UNCHANGED run, RowsKept', Lasts, \A t \in Slots : ScanSpared(t)
  PROVE  MessageInv' /\ Lasts
  <1>1. run \in [Slots -> Held] /\ CoreKinds
    BY DEF MessageInv
  <1>2. ASSUME NEW t \in Slots PROVE Seen(run[t])'
    <2>1. ScanSpared(t) /\ Seen(run[t]) /\ run[t] \in Held
      BY <1>1, <1>2 DEF MessageInv
    <2>2. ASSUME NEW m \in Held, m = run[t] PROVE Seen(m)'
      <3>1. Seen(m) /\ (m.op = "scan" /\ m.file \notin again' =>
             file'[m.file].status = "uploaded" /\ file'[m.file].scans = 0)
        BY <2>1, <2>2 DEF ScanSpared
      <3>. QED
        BY <1>1, <3>1, StaysSeen
    <2>. QED
      BY <2>1, <2>2 DEF Seen
  <1>. QED
    BY <1>1, <1>2 DEF MessageInv, RowsKept, ScannedOnce, Lasts

\* A step that leaves messages, files, cases and approvals as they are.
LEMMA RowsAlone ==
  ASSUME MessageInv, UNCHANGED <<msg, file, cases, cleared, again>>, SideKinds'
  PROVE  RowsKept' /\ Lasts /\ \A t \in Slots : ScanSpared(t)
  <1>1. CoreKinds' /\ RowsAgree' /\ ReviewHasCase' /\ FilesScannedOrApproved'
    BY DEF MessageInv, CoreKinds, RowsAgree, ReviewHasCase, HasCase, FilesScannedOrApproved
  <1>2. Lasts
    BY DEF Lasts, Settled, FilesOf
  <1>3. \A t \in Slots : ScanSpared(t)
    BY DEF MessageInv, Seen, ScanSpared
  <1>. QED
    BY <1>1, <1>2, <1>3 DEF RowsKept

LEMMA QuietMove ==
  ASSUME MessageInv, NEW s \in Slots, NEW r \in Held, run' = [run EXCEPT ![s] = r],
         UNCHANGED <<msg, file, cases, cleared, again>>, SideKinds', Seen(r), r.op # "scan"
  PROVE  MessageInv' /\ Lasts
  <1>1. Seen(r)'
    BY DEF Seen, AllClean, FilesOf, Settled
  <1>. QED
    BY <1>1, RowsAlone, HandlerMoves

\* One that leaves the files, but not the messages or cases, as they are.
LEMMA FilesAlone ==
  ASSUME MessageInv, UNCHANGED <<file, again>>, CoreKinds',
         \A k \in Keys : msg[k] # "none" => msg'[k] # "none",
         \A k \in Keys : Settled(k) => Settled(k)',
         DOMAIN cases \subseteq DOMAIN cases', \A c \in DOMAIN cases : cases'[c].msg = cases[c].msg
  PROVE  Lasts /\ \A t \in Slots : ScanSpared(t)
  <1>1. Lasts
    BY DEF Lasts, FilesOf
  <1>2. \A t \in Slots : ScanSpared(t)
    BY DEF MessageInv, Seen, ScanSpared
  <1>. QED
    BY <1>1, <1>2

\* A handler that moves on from its rows.
LEMMA Starts ==
  ASSUME NEW s \in Slots, NEW op, NEW r
  PROVE  /\ BeginOp(s, op, r) => run' = [run EXCEPT ![s] = r]
         /\ Continue(s, r) => run' = [run EXCEPT ![s] = r]
         /\ Ends(s) => run' = [run EXCEPT ![s] = Idle]
         /\ Idle \in Held /\ Idle.op = "none" /\ Seen(Idle)
  BY HeldMade DEF BeginOp, Continue, Ends, Idle, Seen

-----------------------------------------------------------------------------
(***************************************************************************)
(* What the rules decide.                                                  *)
(***************************************************************************)

AllDecisions == {"allow", "flag", "escalate", "review", "hold", "block"}

LEMMA Ranks ==
  /\ Rank("allow") = 1 /\ Rank("flag") = 2 /\ Rank("escalate") = 3
  /\ Rank("review") = 4 /\ Rank("hold") = 5 /\ Rank("block") = 6
  <1>1. DOMAIN Decisions = 1 .. 6
    BY DEF Decisions
  <1>2. /\ Decisions[1] = "allow" /\ Decisions[2] = "flag" /\ Decisions[3] = "escalate"
        /\ Decisions[4] = "review" /\ Decisions[5] = "hold" /\ Decisions[6] = "block"
    BY DEF Decisions
  <1>3. \A i \in 1 .. 6 : i = 1 \/ i = 2 \/ i = 3 \/ i = 4 \/ i = 5 \/ i = 6
    OBVIOUS
  <1>4. ASSUME NEW n \in 1 .. 6 PROVE Rank(Decisions[n]) = n
    <2>1. \A i \in 1 .. 6 : Decisions[i] = Decisions[n] => i = n
      BY <1>2, <1>3
    <2>. QED
      BY <1>1, <2>1 DEF Rank
  <1>5. 1 \in 1 .. 6 /\ 2 \in 1 .. 6 /\ 3 \in 1 .. 6 /\ 4 \in 1 .. 6 /\ 5 \in 1 .. 6 /\ 6 \in 1 .. 6
    OBVIOUS
  <1>. QED
    BY <1>2, <1>4, <1>5

\* The strongest of some decisions is one of them that none outranks.
LEMMA StrongestIs ==
  ASSUME NEW D, D \subseteq AllDecisions, D # {}
  PROVE  Strongest(D) \in D /\ \A e \in D : Rank(e) <= Rank(Strongest(D))
  <1>1. \A e \in D : e \in AllDecisions
    OBVIOUS
  <1>2. \E d \in D : \A e \in D : Rank(e) <= Rank(d)
    <2>1. CASE "block" \in D
      BY <1>1, <2>1, Ranks DEF AllDecisions
    <2>2. CASE "block" \notin D /\ "hold" \in D
      BY <1>1, <2>2, Ranks DEF AllDecisions
    <2>3. CASE "block" \notin D /\ "hold" \notin D /\ "review" \in D
      BY <1>1, <2>3, Ranks DEF AllDecisions
    <2>4. CASE D \subseteq {"allow", "flag", "escalate"} /\ "escalate" \in D
      BY <2>4, Ranks
    <2>5. CASE D \subseteq {"allow", "flag"} /\ "flag" \in D
      BY <2>5, Ranks
    <2>6. CASE D = {"allow"}
      BY <2>6, Ranks
    <2>. QED
      BY <1>1, <2>1, <2>2, <2>3, <2>4, <2>5, <2>6 DEF AllDecisions
  <1>. QED
    BY <1>2, Zenon DEF Strongest

\* A decision that may deliver a message is over clean files.
LEMMA Judged ==
  ASSUME CoreKinds, NEW text \in Texts, NEW fs \in SUBSET Files,
         \A f \in fs : file[f].status # "none"
  PROVE  /\ Decide(text, fs) \in AllDecisions
         /\ Decide(text, fs) \in {"allow", "flag", "escalate"} => AllClean(fs)
  <1>. DEFINE D == {text} \cup {FileDecision(file[f].status) : f \in fs}
              d == Strongest(D)
  <1>1. text \in AllDecisions
    BY MessagingAssumption DEF Decisions, AllDecisions
  <1>2. \A f \in fs : file[f].status \in {"uploaded", "clean", "review", "rejected"}
    BY DEF CoreKinds, FileRow, FileStatus
  <1>3. \A f \in fs : /\ FileDecision(file[f].status) \in {"hold", "review", "block", "allow"}
                      /\ FileDecision(file[f].status) = "allow" => file[f].status = "clean"
    BY <1>2 DEF FileDecision
  <1>4. D \subseteq AllDecisions /\ D # {}
    BY <1>1, <1>3 DEF AllDecisions
  <1>5. d \in D /\ \A e \in D : Rank(e) <= Rank(d)
    BY <1>4, StrongestIs
  <1>6. d \in {"allow", "flag", "escalate"} => AllClean(fs)
    <2>. SUFFICES ASSUME d \in {"allow", "flag", "escalate"}, NEW f \in fs
                  PROVE  file[f].status = "clean"
      BY DEF AllClean
    <2>1. Rank(FileDecision(file[f].status)) <= Rank(d)
      BY <1>5
    <2>. HIDE DEF d, D
    <2>2. Rank(d) \in {1, 2, 3}
      BY Ranks
    <2>3. FileDecision(file[f].status) = "allow"
      BY <1>3, <2>1, <2>2, Ranks
    <2>. QED
      BY <1>3, <2>3
  <1>7. d \in AllDecisions
    BY <1>4, <1>5
  <1>8. Decide(text, fs) = d
    BY DEF Decide
  <1>. HIDE DEF d
  <1>. QED
    BY <1>6, <1>7, <1>8

LEMMA StatusIs ==
  ASSUME NEW d \in AllDecisions, NEW restricted \in BOOLEAN, NEW llm \in BOOLEAN
  PROVE  /\ StatusFor(d, restricted, llm) \in Verdict
         /\ StatusFor(d, restricted, llm) \in Delivered => d \in {"allow", "flag"}
  BY DEF AllDecisions, StatusFor, Verdict, Waiting, Delivered

LEMMA VerdictIs ==
  ASSUME NEW d \in AllDecisions, NEW v \in Verdicts(d)
  PROVE  v \in Verdict /\ (v \in Delivered => d \in {"allow", "flag", "escalate"})
  <1>1. CASE d = "escalate" /\ ~Restricted /\ Enforce
    BY <1>1 DEF Verdicts, Verdict, Waiting, Delivered
  <1>2. CASE ~(d = "escalate" /\ ~Restricted /\ Enforce)
    <2>1. v = StatusFor(d, Restricted, FALSE)
      BY <1>2 DEF Verdicts
    <2>2. Restricted \in BOOLEAN
      BY DEF Restricted
    <2>. QED
      BY <2>1, <2>2, StatusIs
  <1>. QED
    BY <1>1, <1>2

-----------------------------------------------------------------------------
(***************************************************************************)
(* What handlers read, and what they write of threads and tiers.           *)
(***************************************************************************)

\* An update of the thread, the tier, the block or the queue.
LEMMA SidesKept ==
  ASSUME MessageInv
  PROVE  /\ UNCHANGED <<thread, barred, tier>> /\ queue' \subseteq [key : Keys, final : BOOLEAN]
            => SideKinds'
         /\ queue \subseteq [key : Keys, final : BOOLEAN]
         /\ \A k \in Keys, final \in BOOLEAN : WithJob(k, final) \subseteq [key : Keys, final : BOOLEAN]
  BY DEF MessageInv, SideKinds, WithJob

\* What the invariant says of files.
LEMMA FilesAre ==
  ASSUME MessageInv
  PROVE  /\ file \in [Files -> FileRow]
         /\ \A f \in Files : /\ f \notin again /\ file[f].scans # 0
                                => file[f].status = "uploaded" /\ file[f].scans = 1
                             /\ file[f].msg # None => /\ file[f].status # "none"
                                                      /\ msg[file[f].msg] # "none"
  <1>1. RowsAgree /\ CoreKinds
    BY DEF MessageInv
  <1>. QED
    BY <1>1 DEF RowsAgree, CoreKinds

\* What a handler at work holds.
LEMMA AtWork ==
  ASSUME MessageInv, NEW s \in Slots
  PROVE  run[s] \in Held /\ Seen(run[s]) /\ CoreKinds /\ RowsAgree
  BY DEF MessageInv

\* The verdict on a message that is being sent.
LEMMA SentVerdict ==
  ASSUME MessageInv, NEW text \in Texts, NEW fs \in SUBSET Files,
         \A f \in fs : file[f].status # "none"
  PROVE  LET v == StatusFor(Decide(text, fs), Restricted, Enforce)
         IN  v \in Verdict /\ (v \in Delivered => AllClean(fs))
  <1>1. /\ Decide(text, fs) \in AllDecisions
        /\ Decide(text, fs) \in {"allow", "flag", "escalate"} => AllClean(fs)
    BY Judged DEF MessageInv
  <1>2. Restricted \in BOOLEAN /\ Enforce \in BOOLEAN
    BY MessagingAssumption DEF Restricted
  <1>. QED
    BY <1>1, <1>2, StatusIs

LEMMA SendReadKeeps ==
  ASSUME MessageInv, NEW s \in Slots, NEW k \in Keys, NEW fs \in SUBSET Files,
         SendRead(s, k, fs)
  PROVE  MessageInv' /\ Lasts
  <1>1. PICK text \in Texts :
          BeginOp(s, "send", [op |-> "send", key |-> k, files |-> fs, reopen |-> thread.status # "open",
                            status |-> StatusFor(Decide(text, fs), Restricted, Enforce)])
    BY DEF SendRead
  <1>2. /\ \A f \in fs : file[f].status # "none"
        /\ UNCHANGED <<thread, barred, tier, msg, file, cases, queue, cleared, again>>
    BY DEF SendRead
  <1>. DEFINE v == StatusFor(Decide(text, fs), Restricted, Enforce)
              b == thread.status # "open"
              r == [op |-> "send", key |-> k, files |-> fs, reopen |-> b, status |-> v]
  <1>3. v \in Verdict /\ (v \in Delivered => AllClean(fs))
    BY <1>2, SentVerdict
  <1>4. b \in BOOLEAN /\ run' = [run EXCEPT ![s] = r]
    BY <1>1, Starts
  <1>. HIDE DEF v, b
  <1>5. r \in Held
    BY <1>3, <1>4, HeldMade
  <1>6. Seen(r) /\ r.op # "scan"
    BY <1>2, <1>3 DEF Seen
  <1>7. SideKinds'
    BY <1>2, SidesKept
  <1>. HIDE DEF r
  <1>. QED
    BY <1>2, <1>4, <1>5, <1>6, <1>7, QuietMove

LEMMA DispatchKeeps ==
  ASSUME MessageInv, NEW s \in Slots, Dispatch(s)
  PROVE  MessageInv' /\ Lasts
  <1>1. run[s].key \in Keys
    BY AtWork, HeldKinds DEF Dispatch
  <1>2. SideKinds'
    BY <1>1, SidesKept DEF Dispatch
  <1>. QED
    BY <1>2, QuietMove, Starts DEF Dispatch

\* The verdict on a message that is judged again.
LEMMA PassVerdict ==
  ASSUME MessageInv, NEW k \in Keys, NEW text \in Texts,
         NEW v \in Verdicts(Decide(text, FilesOf(k)))
  PROVE  v \in Verdict /\ (v \in Delivered => AllClean(FilesOf(k)))
  <1>1. FilesOf(k) \in SUBSET Files
    BY DEF FilesOf
  <1>2. \A f \in FilesOf(k) : file[f].status # "none"
    <2>1. k # None
      BY MessagingAssumption
    <2>. QED
      BY <2>1, FilesAre DEF FilesOf
  <1>3. /\ Decide(text, FilesOf(k)) \in AllDecisions
        /\ Decide(text, FilesOf(k)) \in {"allow", "flag", "escalate"} => AllClean(FilesOf(k))
    BY <1>1, <1>2, Judged DEF MessageInv
  <1>. QED
    BY <1>3, VerdictIs

LEMMA PassReadKeeps ==
  ASSUME MessageInv, NEW s \in Slots, NEW j \in queue, PassRead(s, j)
  PROVE  MessageInv' /\ Lasts
  <1>1. j.key \in Keys /\ SideKinds'
    BY SidesKept DEF PassRead
  <1>2. UNCHANGED <<msg, file, cases, cleared, again>>
    BY DEF PassRead
  <1>3. CASE UNCHANGED run
    BY <1>1, <1>2, <1>3, RowsAlone, NoneMoves
  <1>4. CASE \E text \in Texts : \E v \in Verdicts(Decide(text, FilesOf(j.key))) :
               /\ msg[j.key] = "held"
               /\ BeginOp(s, "pass", [op |-> "pass", key |-> j.key,
                                    status |-> IF v = "held" THEN "pending_review" ELSE v])
    <2>1. PICK text \in Texts : \E v \in Verdicts(Decide(text, FilesOf(j.key))) :
               /\ msg[j.key] = "held"
               /\ BeginOp(s, "pass", [op |-> "pass", key |-> j.key,
                                    status |-> IF v = "held" THEN "pending_review" ELSE v])
      BY <1>4
    <2>2. PICK v \in Verdicts(Decide(text, FilesOf(j.key))) :
               /\ msg[j.key] = "held"
               /\ BeginOp(s, "pass", [op |-> "pass", key |-> j.key,
                                    status |-> IF v = "held" THEN "pending_review" ELSE v])
      BY <2>1
    <2>. DEFINE w == IF v = "held" THEN "pending_review" ELSE v
                r == [op |-> "pass", key |-> j.key, status |-> w]
    <2>3. v \in Verdict /\ (v \in Delivered => AllClean(FilesOf(j.key)))
      BY <1>1, PassVerdict
    <2>4. w \in Verdict /\ (w \in Delivered => AllClean(FilesOf(j.key)))
      BY <2>3 DEF Verdict, Waiting, Delivered
    <2>5. run' = [run EXCEPT ![s] = r]
      BY <2>2, Starts
    <2>. HIDE DEF w
    <2>6. r \in Held
      BY <1>1, <2>4, HeldMade
    <2>7. Seen(r) /\ r.op # "scan"
      BY <2>2, <2>4 DEF Seen
    <2>. HIDE DEF r
    <2>. QED
      BY <1>1, <1>2, <2>5, <2>6, <2>7, QuietMove
  <1>. QED
    BY <1>3, <1>4 DEF PassRead

LEMMA SweepHeldKeeps ==
  ASSUME MessageInv, NEW k \in Keys, SweepHeld(k)
  PROVE  MessageInv' /\ Lasts
  <1>1. SideKinds'
    BY SidesKept DEF SweepHeld
  <1>. QED
    BY <1>1, RowsAlone, NoneMoves DEF SweepHeld

\* A case is read of a message that was sent.
LEMMA CaseRead ==
  ASSUME MessageInv, NEW c \in DOMAIN cases
  PROVE  /\ c \in Nat /\ c # 0 /\ cases[c].msg \in Keys
         /\ msg[cases[c].msg] \in MessageStatus \ {"none"}
         /\ msg[cases[c].msg] \notin Waiting => Settled(cases[c].msg)
  <1>1. c \in Nat /\ c # 0 /\ cases[c].msg \in Keys
    BY CasesAre DEF MessageInv
  <1>. QED
    BY <1>1 DEF MessageInv, RowsAgree, CoreKinds, Settled

LEMMA BlockReadKeeps ==
  ASSUME MessageInv, NEW s \in Slots, NEW c \in DOMAIN cases, BlockRead(s, c)
  PROVE  MessageInv' /\ Lasts
  <1>. DEFINE k == cases[c].msg
              v == IF msg[k] \in Waiting THEN "blocked" ELSE "removed"
              r == IF msg[k] \in Waiting \cup Delivered
                   THEN [op |-> "block", key |-> k, case |-> c, status |-> v]
                   ELSE [op |-> "resolve", case |-> c]
  <1>1. c \in Nat /\ c # 0 /\ k \in Keys /\ (msg[k] \notin Waiting => Settled(k))
    BY CaseRead
  <1>2. run' = [run EXCEPT ![s] = r] /\ SideKinds'
    BY Starts, SidesKept DEF BlockRead
  <1>3. r \in Held
    <2>1. v \in {"blocked", "removed"}
      OBVIOUS
    <2>. HIDE DEF v
    <2>. QED
      BY <1>1, <2>1, HeldMade
  <1>4. Seen(r) /\ r.op # "scan"
    BY <1>1 DEF Seen
  <1>. HIDE DEF r
  <1>. QED
    BY <1>2, <1>3, <1>4, QuietMove DEF BlockRead

LEMMA ClaimReadKeeps ==
  ASSUME MessageInv, NEW s \in Slots, NEW c \in DOMAIN cases, ClaimRead(s, c)
  PROVE  MessageInv' /\ Lasts
  <1>. DEFINE r == [op |-> "claim", case |-> c]
  <1>1. c \in Nat /\ c # 0
    BY CaseRead
  <1>2. run' = [run EXCEPT ![s] = r] /\ SideKinds'
    BY Starts, SidesKept DEF ClaimRead
  <1>3. r \in Held
    BY <1>1, HeldMade
  <1>4. Seen(r) /\ r.op # "scan"
    BY <1>1 DEF Seen
  <1>. HIDE DEF r
  <1>. QED
    BY <1>2, <1>3, <1>4, QuietMove DEF ClaimRead

LEMMA RescanReadKeeps ==
  ASSUME MessageInv, NEW s \in Slots, NEW k \in Keys, RescanRead(s, k)
  PROVE  MessageInv' /\ Lasts
  <1>. DEFINE r == [op |-> "rescan", key |-> k]
  <1>1. run' = [run EXCEPT ![s] = r] /\ SideKinds'
    BY Starts, SidesKept DEF RescanRead
  <1>2. r \in Held
    BY HeldMade
  <1>3. Seen(r) /\ r.op # "scan"
    BY DEF Seen, RescanRead, Delivered
  <1>. HIDE DEF r
  <1>. QED
    BY <1>1, <1>2, <1>3, QuietMove DEF RescanRead

\* The recount of the customer's tier, and a moderator's setting of it.
LEMMA TierKeeps ==
  ASSUME MessageInv, NEW s \in Slots, NEW t \in Tiers,
         RefreshRead(s) \/ RefreshSave(s, t) \/ RestrictSender(t)
  PROVE  MessageInv' /\ Lasts
  <1>1. CASE RefreshRead(s)
    <2>. DEFINE r == [op |-> "refresh", tier |-> tier]
    <2>1. run' = [run EXCEPT ![s] = r] /\ SideKinds'
      BY <1>1, Starts, SidesKept DEF RefreshRead
    <2>2. r \in Held
      BY HeldMade DEF MessageInv, SideKinds
    <2>3. Seen(r) /\ r.op # "scan"
      BY DEF Seen
    <2>. HIDE DEF r
    <2>. QED
      BY <1>1, <2>1, <2>2, <2>3, QuietMove DEF RefreshRead
  <1>2. CASE RefreshSave(s, t)
    <2>1. SideKinds'
      BY <1>2 DEF MessageInv, SideKinds, RefreshSave
    <2>. QED
      BY <1>2, <2>1, Starts, QuietMove DEF RefreshSave
  <1>3. CASE RestrictSender(t)
    <2>1. SideKinds' /\ UNCHANGED run
      BY <1>3 DEF MessageInv, SideKinds, RestrictSender, AtOnceOp
    <2>. QED
      BY <1>3, <2>1, RowsAlone, NoneMoves DEF RestrictSender
  <1>. QED
    BY <1>1, <1>2, <1>3

LEMMA CloseReadKeeps ==
  ASSUME MessageInv, NEW s \in Slots, NEW op \in {"decline", "staff"},
         CloseRead(s, op) \/ ExpireRead(s)
  PROVE  MessageInv' /\ Lasts
  <1>1. ASSUME NEW b, NEW reason \in Reasons, BeginOp(s, b, [op |-> "close", reason |-> reason]),
               UNCHANGED <<thread, barred, tier, msg, file, cases, queue, cleared, again>>
        PROVE  MessageInv' /\ Lasts
    <2>. DEFINE r == [op |-> "close", reason |-> reason]
    <2>1. run' = [run EXCEPT ![s] = r] /\ SideKinds'
      BY <1>1, Starts, SidesKept
    <2>2. r \in Held
      BY HeldMade
    <2>3. Seen(r) /\ r.op # "scan"
      BY DEF Seen
    <2>. HIDE DEF r
    <2>. QED
      BY <1>1, <2>1, <2>2, <2>3, QuietMove
  <1>2. CASE CloseRead(s, op)
    <2>. DEFINE reason == IF op = "decline" THEN "declined" ELSE "staff"
    <2>1. reason \in Reasons
      BY DEF Reasons
    <2>2. BeginOp(s, op, [op |-> "close", reason |-> reason])
      BY <1>2 DEF CloseRead
    <2>. HIDE DEF reason
    <2>. QED
      BY <1>1, <1>2, <2>1, <2>2 DEF CloseRead
  <1>3. CASE ExpireRead(s)
    <2>1. "idle" \in Reasons
      BY DEF Reasons
    <2>. QED
      BY <1>1, <1>3, <2>1 DEF ExpireRead
  <1>. QED
    BY <1>2, <1>3

\* A thread that is closed has a reason for it.
LEMMA ThreadClosed ==
  ASSUME MessageInv, NEW reason \in Reasons, Close(reason), barred' \in BOOLEAN,
         UNCHANGED <<tier, queue>>
  PROVE  SideKinds'
  BY MessagingAssumption DEF MessageInv, SideKinds, Close

LEMMA CloseSaveKeeps ==
  ASSUME MessageInv, NEW s \in Slots, CloseSave(s)
  PROVE  MessageInv' /\ Lasts
  <1>1. run[s].reason \in Reasons
    BY AtWork, HeldKinds DEF CloseSave
  <1>2. SideKinds'
    <2>1. barred' \in BOOLEAN
      BY DEF CloseSave, MessageInv, SideKinds
    <2>. QED
      BY <1>1, <2>1, ThreadClosed DEF CloseSave
  <1>. QED
    BY <1>2, QuietMove, Starts DEF CloseSave

LEMMA BarKeeps ==
  ASSUME MessageInv, NEW s \in Slots, BarRead(s) \/ BarSave(s)
  PROVE  MessageInv' /\ Lasts
  <1>1. CASE BarRead(s)
    <2>. DEFINE b == thread.status = "open"
                r == [op |-> "bar", open |-> b]
    <2>1. run' = [run EXCEPT ![s] = r] /\ SideKinds' /\ b \in BOOLEAN
      BY <1>1, Starts, SidesKept DEF BarRead
    <2>. HIDE DEF b
    <2>2. r \in Held
      BY <2>1, HeldMade
    <2>3. Seen(r) /\ r.op # "scan"
      BY DEF Seen
    <2>. HIDE DEF r
    <2>. QED
      BY <1>1, <2>1, <2>2, <2>3, QuietMove DEF BarRead
  <1>2. CASE BarSave(s)
    <2>1. CASE run[s].open
      <3>1. "blocked" \in Reasons /\ Close("blocked") /\ barred' \in BOOLEAN
        BY <1>2, <2>1 DEF BarSave, Reasons
      <3>2. SideKinds'
        BY <1>2, <3>1, ThreadClosed DEF BarSave
      <3>. QED
        BY <1>2, <3>2, QuietMove, Starts DEF BarSave
    <2>2. CASE ~run[s].open
      <3>1. SideKinds'
        BY <1>2, <2>2 DEF BarSave, MessageInv, SideKinds
      <3>. QED
        BY <1>2, <3>1, QuietMove, Starts DEF BarSave
    <2>. QED
      BY <2>1, <2>2
  <1>. QED
    BY <1>1, <1>2

LEMMA QuietenKeeps ==
  ASSUME MessageInv, Quieten
  PROVE  MessageInv' /\ Lasts
  <1>1. SideKinds'
    BY DEF MessageInv, SideKinds, Quieten
  <1>. QED
    BY <1>1, RowsAlone, NoneMoves DEF Quieten

LEMMA DieKeeps ==
  ASSUME MessageInv, NEW s \in Slots, Crash(s)
  PROVE  MessageInv' /\ Lasts
  <1>1. SideKinds' /\ run' = [run EXCEPT ![s] = Idle]
    BY SidesKept DEF Crash
  <1>. QED
    BY <1>1, QuietMove, Starts DEF Crash

-----------------------------------------------------------------------------
(***************************************************************************)
(* Files.                                                                  *)
(***************************************************************************)

\* What a step on files leaves of each.
FilesKept ==
    \A f \in Files :
        /\ file'[f].msg = file[f].msg
        /\ file[f].status = "clean" /\ f \notin again' => file'[f].status = "clean"
        /\ file[f].status # "none" => file'[f].status # "none"
        /\ f \notin again' /\ file'[f].scans # 0 => file'[f].status = "uploaded" /\ file'[f].scans = 1

\* A step that changes files and no message, case or approval keeps what the
\* invariant says of them when what is clean stays clean, but for the files whose
\* upload was completed twice.
LEMMA FileStep ==
  ASSUME MessageInv, UNCHANGED <<msg, cases, cleared>>, SideKinds', file' \in [Files -> FileRow],
         again \subseteq again', again' \subseteq Files, FilesKept
  PROVE  RowsKept' /\ Lasts
  <1>1. CoreKinds'
    BY DEF MessageInv, CoreKinds, FilesKept
  <1>2. RowsAgree'
    <2>1. RowsAgree
      BY DEF MessageInv
    <2>. QED
      BY <2>1, FilesAre DEF RowsAgree, FilesKept
  <1>3. ReviewHasCase' /\ FilesScannedOrApproved'
    BY DEF MessageInv, ReviewHasCase, HasCase, FilesScannedOrApproved, FilesKept
  <1>4. Lasts
    BY DEF Lasts, Settled, FilesOf, FilesKept
  <1>. QED
    BY <1>1, <1>2, <1>3, <1>4 DEF RowsKept

LEMMA CompleteReadKeeps ==
  ASSUME MessageInv, NEW s \in Slots, NEW f \in Files, CompleteRead(s, f)
  PROVE  MessageInv' /\ Lasts
  <1>. DEFINE r == [op |-> "complete", file |-> f]
  <1>1. run' = [run EXCEPT ![s] = r] /\ SideKinds'
    BY Starts, SidesKept DEF CompleteRead
  <1>2. r \in Held
    BY HeldMade
  <1>3. Seen(r) /\ r.op # "scan"
    BY DEF Seen
  <1>. HIDE DEF r
  <1>. QED
    BY <1>1, <1>2, <1>3, QuietMove DEF CompleteRead

\* A completion writes a file's status and its scans.
LEMMA FileWritten ==
  ASSUME file \in [Files -> FileRow], NEW f \in Files, NEW st \in FileStatus, NEW n \in Nat,
         file' = [file EXCEPT ![f].status = st, ![f].scans = n]
  PROVE  /\ \A g \in Files : g # f => file'[g] = file[g]
         /\ file'[f].status = st /\ file'[f].scans = n /\ file'[f].msg = file[f].msg
         /\ file' \in [Files -> FileRow]
  BY DEF FileRow

\* A completion that finds the file still awaited uploads it; another's file is
\* one of those completed twice.
LEMMA CompleteSaveKeeps ==
  ASSUME MessageInv, NEW s \in Slots, NEW status \in {"uploaded", "rejected"},
         NEW queued \in BOOLEAN, CompleteSave(s, status, queued)
  PROVE  MessageInv' /\ Lasts
  <1>. DEFINE f == run[s].file
              n == IF queued /\ status = "uploaded" THEN file[f].scans + 1 ELSE file[f].scans
  <1>1. /\ f \in Files /\ file \in [Files -> FileRow] /\ again \subseteq Files
        /\ file' = [file EXCEPT ![f].status = status, ![f].scans = n]
        /\ again' = IF file[f].status = "none" THEN again ELSE again \cup {f}
        /\ UNCHANGED <<thread, barred, tier, msg, cases, queue, cleared>>
        /\ run' = [run EXCEPT ![s] = Idle]
    BY AtWork, HeldKinds, Starts DEF CompleteSave, MessageInv, CoreKinds
  <1>2. file[f].scans \in Nat /\ n \in {file[f].scans, file[f].scans + 1}
        /\ (status # "uploaded" => n = file[f].scans)
    BY <1>1 DEF FileRow
  <1>. HIDE DEF n
  <1>3. /\ \A g \in Files : g # f => file'[g] = file[g]
        /\ file'[f].status = status /\ file'[f].scans = n /\ file'[f].msg = file[f].msg
        /\ file' \in [Files -> FileRow] /\ again \subseteq again' /\ again' \subseteq Files
    <2>1. again \subseteq again' /\ again' \subseteq Files
      BY <1>1
    <2>2. status \in FileStatus /\ n \in Nat
      BY <1>2 DEF FileStatus
    <2>3. file \in [Files -> FileRow] /\ f \in Files
          /\ file' = [file EXCEPT ![f].status = status, ![f].scans = n]
      BY <1>1
    <2>. HIDE DEF f
    <2>4. /\ \A g \in Files : g # f => file'[g] = file[g]
          /\ file'[f].status = status /\ file'[f].scans = n /\ file'[f].msg = file[f].msg
          /\ file' \in [Files -> FileRow]
      BY <2>2, <2>3, FileWritten, Zenon
    <2>. QED
      BY <2>1, <2>4
  <1>4. f \notin again' => file[f].status = "none" /\ f \notin again /\ file[f].scans = 0
    BY <1>1, FilesAre
  <1>5. SideKinds'
    BY <1>1, SidesKept
  <1>6. FilesKept
    <2>. SUFFICES ASSUME NEW g \in Files
                  PROVE /\ file'[g].msg = file[g].msg
                        /\ file[g].status = "clean" /\ g \notin again' => file'[g].status = "clean"
                        /\ file[g].status # "none" => file'[g].status # "none"
                        /\ g \notin again' /\ file'[g].scans # 0
                             => file'[g].status = "uploaded" /\ file'[g].scans = 1
      BY DEF FilesKept
    <2>1. CASE g = f
      <3>1. g \notin again' /\ file'[g].scans # 0 => status = "uploaded" /\ n = 1
        BY <1>2, <1>3, <1>4, <2>1
      <3>. QED
        BY <1>3, <1>4, <2>1, <3>1
    <2>2. CASE g # f
      BY <1>3, <2>2, FilesAre
    <2>. QED
      BY <2>1, <2>2
  <1>7. RowsKept' /\ Lasts
    BY <1>1, <1>3, <1>5, <1>6, FileStep
  <1>8. ASSUME NEW t \in Slots PROVE ScanSpared(t)
    <2>. SUFFICES ASSUME run[t].op = "scan", run[t].file \notin again'
                  PROVE  file'[run[t].file].status = "uploaded" /\ file'[run[t].file].scans = 0
      BY DEF ScanSpared
    <2>1. run[t].file \in Files /\ run[t].file \notin again
      BY <1>3, AtWork, HeldKinds
    <2>2. file[run[t].file].status = "uploaded" /\ file[run[t].file].scans = 0
      BY <2>1, AtWork DEF Seen
    <2>. QED
      BY <1>3, <1>4, <2>1, <2>2
  <1>9. Idle \in Held /\ Seen(Idle)' /\ Idle.op # "scan"
    BY HeldMade DEF Idle, Seen
  <1>. QED
    BY <1>1, <1>7, <1>8, <1>9, HandlerMoves

LEMMA ScanReadKeeps ==
  ASSUME MessageInv, NEW s \in Slots, NEW f \in Files, ScanRead(s, f)
  PROVE  MessageInv' /\ Lasts
  <1>. DEFINE m == file[f].msg
  <1>1. /\ file \in [Files -> FileRow] /\ file[f].scans \in Nat /\ file[f].scans # 0
        /\ file' = [file EXCEPT ![f].scans = file[f].scans - 1]
        /\ UNCHANGED <<thread, barred, tier, msg, cases, queue, cleared, again>>
        /\ m \in Keys \cup {None} /\ again \subseteq Files
    <2>1. file \in [Files -> FileRow] /\ again \subseteq Files
      BY DEF MessageInv, CoreKinds
    <2>2. file[f].scans \in Nat /\ m \in Keys \cup {None}
      BY <2>1 DEF FileRow
    <2>3. /\ file[f].scans > 0 /\ file' = [file EXCEPT ![f].scans = @ - 1]
          /\ UNCHANGED <<thread, barred, tier, msg, cases, queue, cleared, again>>
      BY DEF ScanRead
    <2>4. file' = [file EXCEPT ![f].scans = file[f].scans - 1]
      BY <2>3
    <2>5. file[f].scans # 0
      BY <2>2, <2>3
    <2>. HIDE DEF m
    <2>. QED
      BY <2>1, <2>2, <2>3, <2>4, <2>5
  <1>2. /\ \A g \in Files : g # f => file'[g] = file[g]
        /\ file'[f].status = file[f].status /\ file'[f].msg = file[f].msg
        /\ file'[f].scans = file[f].scans - 1 /\ file' \in [Files -> FileRow]
    <2>. DEFINE n == file[f].scans - 1
    <2>1. n \in Nat /\ file' = [file EXCEPT ![f].scans = n]
      BY <1>1
    <2>. HIDE DEF n
    <2>2. /\ \A g \in Files : g # f => file'[g] = file[g]
          /\ file'[f].status = file[f].status /\ file'[f].msg = file[f].msg
          /\ file'[f].scans = n /\ file' \in [Files -> FileRow]
      BY <1>1, <2>1 DEF FileRow
    <2>. QED
      BY <2>2 DEF n
  <1>3. f \notin again => file[f].status = "uploaded" /\ file'[f].scans = 0
    BY <1>1, <1>2, FilesAre
  <1>4. SideKinds'
    BY <1>1, SidesKept
  <1>5. RowsKept' /\ Lasts
    <2>1. FilesKept
      BY <1>1, <1>2, <1>3, FilesAre DEF FilesKept
    <2>. QED
      BY <1>1, <1>2, <1>4, <2>1, FileStep
  <1>6. ASSUME NEW t \in Slots
        PROVE  ScanSpared(t) /\ (run[t].op = "scan" /\ f \notin again' => run[t].file # f)
    <2>1. run[t].op = "scan" /\ run[t].file \notin again =>
            /\ run[t].file \in Files
            /\ file[run[t].file].status = "uploaded" /\ file[run[t].file].scans = 0
      BY AtWork, HeldKinds DEF Seen
    <2>. QED
      BY <1>1, <1>2, <2>1 DEF ScanSpared
  <1>7. CASE file[f].status = "uploaded"
    <2>1. run' = [run EXCEPT ![s] = [op |-> "scan", file |-> f, msg |-> m]]
      BY <1>7, Starts DEF ScanRead
    <2>2. PICK r \in Held : r = [op |-> "scan", file |-> f, msg |-> m]
      <3>. HIDE DEF m
      <3>. QED
        BY <1>1, HeldMade
    <2>3. Seen(r)' /\ r.file = f
      BY <1>1, <1>2, <1>3, <2>2 DEF Seen
    <2>. QED
      BY <1>1, <1>5, <1>6, <2>1, <2>2, <2>3, HandlerMoves
  <1>8. CASE file[f].status # "uploaded"
    <2>1. UNCHANGED run
      BY <1>8 DEF ScanRead
    <2>. QED
      BY <1>5, <1>6, <2>1, NoneMoves
  <1>. QED
    BY <1>7, <1>8

LEMMA ScanSaveKeeps ==
  ASSUME MessageInv, NEW s \in Slots, NEW status \in {"clean", "review", "rejected"},
         ScanSave(s, status)
  PROVE  MessageInv' /\ Lasts
  <1>. DEFINE f == run[s].file
  <1>1. /\ run[s].op = "scan" /\ run[s] \in Held /\ Seen(run[s])
        /\ file \in [Files -> FileRow] /\ file' = [file EXCEPT ![f].status = status]
        /\ UNCHANGED <<thread, barred, tier, msg, cases, cleared, again>>
        /\ run' = [run EXCEPT ![s] = Idle]
    BY AtWork, Starts DEF ScanSave, MessageInv, CoreKinds
  <1>2. f \in Files /\ run[s].msg \in Keys \cup {None} /\ again \subseteq Files
        /\ (f \notin again => file[f].status = "uploaded" /\ file[f].scans = 0)
    BY <1>1, HeldKinds DEF Seen, MessageInv, CoreKinds
  <1>3. /\ \A g \in Files : g # f => file'[g] = file[g]
        /\ file'[f].status = status /\ file'[f].scans = file[f].scans /\ file'[f].msg = file[f].msg
        /\ file' \in [Files -> FileRow]
    BY <1>1, <1>2 DEF FileRow, FileStatus
  <1>4. SideKinds'
    <2>1. queue' \subseteq [key : Keys, final : BOOLEAN]
      BY <1>2, SidesKept DEF ScanSave
    <2>. QED
      BY <1>1, <2>1, SidesKept
  <1>5. RowsKept' /\ Lasts
    <2>1. FilesKept
      BY <1>1, <1>2, <1>3, FilesAre DEF FilesKept
    <2>. QED
      BY <1>1, <1>2, <1>3, <1>4, <2>1, FileStep
  <1>6. ASSUME NEW t \in Slots, t # s PROVE ScanSpared(t)
    <2>. SUFFICES ASSUME run[t].op = "scan", run[t].file \notin again
                  PROVE  file'[run[t].file].status = "uploaded" /\ file'[run[t].file].scans = 0
      BY <1>1 DEF ScanSpared
    <2>1. /\ run[t].file \in Files
          /\ file[run[t].file].status = "uploaded" /\ file[run[t].file].scans = 0
      BY AtWork, HeldKinds DEF Seen
    <2>2. run[t].file # f
      BY <1>1, <1>6 DEF MessageInv, ScannedOnce
    <2>. QED
      BY <1>3, <2>1, <2>2
  <1>7. Idle \in Held /\ Seen(Idle)' /\ Idle.op # "scan"
    BY HeldMade DEF Idle, Seen
  <1>. QED
    BY <1>1, <1>5, <1>6, <1>7, HandlerMoves

LEMMA ApproveReadKeeps ==
  ASSUME MessageInv, NEW s \in Slots, NEW c \in DOMAIN cases, ApproveRead(s, c)
  PROVE  MessageInv' /\ Lasts
  <1>. DEFINE k == cases[c].msg
  <1>1. /\ c \in Nat /\ c # 0 /\ k \in Keys /\ msg[k] # "none" /\ (msg[k] \notin Waiting => Settled(k))
        /\ UNCHANGED <<thread, barred, tier, msg, cases, queue, cleared, again>> /\ SideKinds'
    BY CaseRead, SidesKept DEF ApproveRead
  <1>2. CASE msg[k] \in Waiting
    <2>. DEFINE d == [op |-> "deliver", key |-> k, status |-> "delivered", case |-> c]
    <2>1. /\ run' = [run EXCEPT ![s] = d] /\ file \in [Files -> FileRow]
          /\ file' = [f \in Files |-> IF f \in FilesOf(k) /\ file[f].status = "review"
                                      THEN [file[f] EXCEPT !.status = "clean"] ELSE file[f]]
      BY <1>2, Starts DEF ApproveRead, MessageInv, CoreKinds
    <2>2. /\ \A f \in Files : file[f].status # "review" => file'[f] = file[f]
          /\ \A f \in Files : file'[f].msg = file[f].msg /\ file'[f].scans = file[f].scans
          /\ \A f \in Files : file[f].status = "review" => file'[f].status \in {"review", "clean"}
          /\ file' \in [Files -> FileRow]
      BY <2>1 DEF FileRow, FileStatus
    <2>3. RowsKept' /\ Lasts
      <3>1. FilesKept
        BY <1>1, <2>2, FilesAre DEF FilesKept
      <3>2. again \subseteq Files
        BY DEF MessageInv, CoreKinds
      <3>. QED
        BY <1>1, <2>2, <3>1, <3>2, FileStep
    <2>4. ASSUME NEW t \in Slots PROVE ScanSpared(t)
      BY <1>1, <2>2, AtWork, HeldKinds DEF ScanSpared, Seen
    <2>5. PICK r \in Held : r = d
      BY <1>1, HeldMade DEF Delivered
    <2>6. Seen(r)' /\ r.op # "scan"
      BY <1>1, <2>5 DEF Seen
    <2>. HIDE DEF d
    <2>. QED
      BY <2>1, <2>3, <2>4, <2>5, <2>6, HandlerMoves
  <1>3. CASE msg[k] \notin Waiting
    <2>. DEFINE r == [op |-> "resolve", case |-> c]
    <2>1. run' = [run EXCEPT ![s] = r] /\ UNCHANGED file
      BY <1>3, Starts DEF ApproveRead
    <2>2. r \in Held
      BY <1>1, HeldMade
    <2>3. Seen(r) /\ r.op # "scan"
      BY <1>1, <1>3 DEF Seen
    <2>. HIDE DEF r
    <2>. QED
      BY <1>1, <2>1, <2>2, <2>3, QuietMove
  <1>. QED
    BY <1>2, <1>3

-----------------------------------------------------------------------------
(***************************************************************************)
(* Messages and cases.                                                     *)
(***************************************************************************)

\* A step that changes cases and no message, file or approval.
LEMMA CaseStep ==
  ASSUME MessageInv, UNCHANGED <<msg, file, cleared, again>>, SideKinds', cases' \in Seq(CaseRow),
         DOMAIN cases \subseteq DOMAIN cases', \A c \in DOMAIN cases : cases'[c].msg = cases[c].msg,
         \A c \in DOMAIN cases' : msg[cases'[c].msg] # "none", ReviewHasCase'
  PROVE  RowsKept' /\ Lasts /\ \A t \in Slots : ScanSpared(t)
  <1>1. CoreKinds' /\ FilesScannedOrApproved'
    BY DEF MessageInv, CoreKinds, FilesScannedOrApproved
  <1>2. RowsAgree'
    BY DEF MessageInv, RowsAgree
  <1>3. \A k \in Keys : Settled(k) => Settled(k)'
    BY DEF Settled
  <1>4. Lasts /\ \A t \in Slots : ScanSpared(t)
    BY <1>1, <1>3, FilesAlone
  <1>. QED
    BY <1>1, <1>2, <1>4 DEF RowsKept

\* A step that writes the status of a message that was sent, keeps its files,
\* and may open a case of it or record its approval.
LEMMA MessageStep ==
  ASSUME MessageInv, NEW k \in Keys, NEW v \in MessageStatus \ {"none"},
         msg' = [msg EXCEPT ![k] = v], UNCHANGED <<file, again>>, SideKinds',
         msg[k] # "none", v \in Waiting => ~Settled(k),
         UNCHANGED cases \/ OpenCase(k), v = "pending_review" => OpenCase(k),
         cleared \subseteq cleared', cleared' \subseteq Keys,
         v \in Delivered => k \in cleared' \/ AllClean(FilesOf(k))
  PROVE  RowsKept' /\ Lasts /\ \A t \in Slots : ScanSpared(t)
  <1>1. /\ msg' \in [Keys -> MessageStatus] /\ msg'[k] = v
        /\ \A l \in Keys : l # k => msg'[l] = msg[l]
        /\ \A l \in Keys : msg[l] # "none" => msg'[l] # "none"
    BY DEF MessageInv, CoreKinds
  <1>2. /\ cases' \in Seq(CaseRow) /\ DOMAIN cases \subseteq DOMAIN cases'
        /\ \A c \in DOMAIN cases : cases'[c] = cases[c]
        /\ \A c \in DOMAIN cases' : c \in DOMAIN cases \/ cases'[c].msg = k
    <2>1. CASE UNCHANGED cases
      BY <2>1 DEF MessageInv, CoreKinds
    <2>2. CASE OpenCase(k)
      BY <2>2, CaseOpened DEF MessageInv
    <2>. QED
      BY <2>1, <2>2
  <1>3. CoreKinds'
    BY <1>1, <1>2 DEF MessageInv, CoreKinds, FileRow
  <1>4. \A l \in Keys : Settled(l) => Settled(l)'
    BY <1>1 DEF Settled
  <1>5. Lasts /\ \A t \in Slots : ScanSpared(t)
    BY <1>1, <1>2, <1>3, <1>4, FilesAlone
  <1>6. RowsAgree'
    <2>1. \A c \in DOMAIN cases : cases[c].msg \in Keys /\ msg[cases[c].msg] # "none"
      BY CaseRead
    <2>2. \A c \in DOMAIN cases' : msg'[cases'[c].msg] # "none"
      BY <1>1, <1>2, <2>1
    <2>. QED
      BY <2>2, FilesAre DEF RowsAgree
  <1>7. ReviewHasCase'
    <2>. SUFFICES ASSUME NEW l \in Keys, msg'[l] = "pending_review" PROVE HasCase(l)'
      BY DEF ReviewHasCase
    <2>1. CASE l = k
      <3>1. OpenCase(k)
        BY <1>1, <2>1
      <3>. QED
        BY <2>1, <3>1, CaseOpened DEF MessageInv, HasCase
    <2>2. CASE l # k
      <3>1. HasCase(l)
        BY <1>1, <2>2 DEF MessageInv, ReviewHasCase
      <3>. QED
        BY <1>2, <3>1 DEF HasCase
    <2>. QED
      BY <2>1, <2>2
  <1>8. FilesScannedOrApproved'
    <2>. SUFFICES ASSUME NEW f \in Files \ again, file[f].msg # None, msg'[file[f].msg] \in Delivered,
                         file[f].msg \notin cleared'
                  PROVE  file[f].status = "clean"
      BY DEF FilesScannedOrApproved
    <2>1. CASE file[f].msg = k
      BY <1>1, <2>1 DEF AllClean, FilesOf
    <2>2. CASE file[f].msg # k
      <3>1. file[f].msg \in Keys
        BY FilesAre DEF FileRow
      <3>. QED
        BY <1>1, <2>2, <3>1 DEF MessageInv, FilesScannedOrApproved
    <2>. QED
      BY <2>1, <2>2
  <1>. QED
    BY <1>3, <1>5, <1>6, <1>7, <1>8 DEF RowsKept

\* A delivery is marked on the thread.
LEMMA ThreadMarked ==
  ASSUME SideKinds, thread' = MarkDelivered(thread), UNCHANGED <<barred, tier, queue>>
  PROVE  SideKinds'
  BY DEF SideKinds, MarkDelivered

LEMMA PassSaveKeeps ==
  ASSUME MessageInv, NEW s \in Slots, PassSave(s)
  PROVE  MessageInv' /\ Lasts
  <1>. DEFINE k == run[s].key
              v == run[s].status
  <1>1. /\ k \in Keys /\ v \in Verdict /\ msg[k] # "none" /\ (v \in Delivered => AllClean(FilesOf(k)))
        /\ UNCHANGED <<thread, barred, tier, file, queue, cleared, again>> /\ SideKinds'
    BY AtWork, HeldKinds, SidesKept DEF PassSave, Seen
  <1>2. CASE msg[k] # "held"
    BY <1>1, <1>2, Starts, QuietMove DEF PassSave
  <1>3. CASE msg[k] = "held" /\ v \in Delivered
    <2>1. msg' = msg /\ (UNCHANGED cases \/ OpenCase(k))
          /\ run' = [run EXCEPT ![s] = [op |-> "deliver", key |-> k, status |-> v, case |-> 0]]
      BY <1>3, Starts DEF PassSave, Delivered
    <2>2. RowsKept' /\ Lasts /\ \A t \in Slots : ScanSpared(t)
      <3>1. msg' = [msg EXCEPT ![k] = "held"] /\ "held" \in MessageStatus \ {"none"}
        BY <1>1, <1>3, <2>1 DEF MessageInv, CoreKinds, MessageStatus, Waiting
      <3>2. ~Settled(k) /\ "held" \notin Delivered /\ cleared \subseteq Keys
        BY <1>3 DEF Settled, Waiting, Delivered, MessageInv, CoreKinds
      <3>. QED
        BY <1>1, <1>3, <2>1, <3>1, <3>2, MessageStep
    <2>3. PICK r \in Held : r = [op |-> "deliver", key |-> k, status |-> v, case |-> 0]
      BY <1>1, <1>3, HeldMade
    <2>4. Seen(r)' /\ r.op # "scan"
      BY <1>1, <1>3, <2>1, <2>3 DEF Seen, AllClean, FilesOf
    <2>. QED
      BY <2>1, <2>2, <2>3, <2>4, HandlerMoves
  <1>4. CASE msg[k] = "held" /\ v \notin Delivered
    <2>1. msg' = [msg EXCEPT ![k] = v] /\ (UNCHANGED cases \/ OpenCase(k))
          /\ (v = "pending_review" => OpenCase(k)) /\ run' = [run EXCEPT ![s] = Idle]
      BY <1>4, Starts DEF PassSave
    <2>2. RowsKept' /\ Lasts /\ \A t \in Slots : ScanSpared(t)
      <3>1. v \in MessageStatus \ {"none"}
        BY <1>1 DEF Verdict, MessageStatus, Waiting, Delivered
      <3>2. ~Settled(k) /\ cleared \subseteq Keys
        BY <1>4 DEF Settled, Waiting, MessageInv, CoreKinds
      <3>. QED
        BY <1>1, <1>4, <2>1, <3>1, <3>2, MessageStep
    <2>3. Idle \in Held /\ Seen(Idle)' /\ Idle.op # "scan"
      BY HeldMade DEF Idle, Seen
    <2>. QED
      BY <2>1, <2>2, <2>3, HandlerMoves
  <1>. QED
    BY <1>2, <1>3, <1>4

LEMMA DeliverSaveKeeps ==
  ASSUME MessageInv, NEW s \in Slots, DeliverSave(s)
  PROVE  MessageInv' /\ Lasts
  <1>. DEFINE k == run[s].key
              v == run[s].status
              c == run[s].case
  <1>1. /\ k \in Keys /\ v \in Delivered /\ c \in Nat /\ msg[k] # "none"
        /\ (c = 0 => AllClean(FilesOf(k)))
        /\ (c # 0 => c \in DOMAIN cases /\ cases[c].msg = k)
    BY AtWork, HeldKinds DEF DeliverSave, Seen
  <1>2. /\ msg' = [msg EXCEPT ![k] = v] /\ UNCHANGED <<barred, tier, file, cases, queue, again>>
        /\ cleared' = IF c = 0 THEN cleared ELSE cleared \cup {k}
        /\ SideKinds' /\ msg'[k] = v
    BY <1>1, ThreadMarked DEF DeliverSave, MessageInv, CoreKinds
  <1>3. RowsKept' /\ Lasts /\ \A t \in Slots : ScanSpared(t)
    <2>1. v \in MessageStatus \ {"none"} /\ v \notin Waiting
      BY <1>1 DEF MessageStatus, Waiting, Delivered
    <2>2. cleared \subseteq cleared' /\ cleared' \subseteq Keys
      BY <1>1, <1>2 DEF MessageInv, CoreKinds
    <2>3. k \in cleared' \/ AllClean(FilesOf(k))
      BY <1>1, <1>2
    <2>4. v # "pending_review"
      BY <2>1 DEF Waiting
    <2>. HIDE DEF k, v, c
    <2>. QED
      BY <1>1, <1>2, <2>1, <2>2, <2>3, <2>4, MessageStep
  <1>4. CASE c = 0
    <2>1. run' = [run EXCEPT ![s] = Idle] /\ Idle \in Held /\ Seen(Idle)' /\ Idle.op # "scan"
      BY <1>4, Starts, HeldMade DEF DeliverSave, Idle, Seen
    <2>. QED
      BY <1>3, <2>1, HandlerMoves
  <1>5. CASE c # 0
    <2>1. run' = [run EXCEPT ![s] = [op |-> "resolve", case |-> c]]
      BY <1>5, Starts DEF DeliverSave
    <2>2. PICK r \in Held : r = [op |-> "resolve", case |-> c]
      BY <1>1, HeldMade
    <2>3. msg'[k] \notin Waiting \cup {"none"}
      BY <1>1, <1>2 DEF Waiting, Delivered
    <2>4. Seen(r)' /\ r.op # "scan"
      BY <1>1, <1>2, <1>5, <2>2, <2>3 DEF Seen, Settled
    <2>. QED
      BY <1>3, <2>1, <2>2, <2>4, HandlerMoves
  <1>. QED
    BY <1>4, <1>5

LEMMA BlockSaveKeeps ==
  ASSUME MessageInv, NEW s \in Slots, BlockSave(s)
  PROVE  MessageInv' /\ Lasts
  <1>. DEFINE k == run[s].key
              v == run[s].status
              c == run[s].case
  <1>1. /\ k \in Keys /\ v \in {"blocked", "removed"} /\ c \in Nat /\ c # 0
        /\ c \in DOMAIN cases /\ cases[c].msg = k /\ msg[k] # "none"
    BY AtWork, HeldKinds, CaseRead DEF BlockSave, Seen
  <1>2. /\ msg' = [msg EXCEPT ![k] = v] /\ UNCHANGED <<file, cases, cleared, again>>
        /\ SideKinds' /\ msg'[k] = v /\ run' = [run EXCEPT ![s] = [op |-> "resolve", case |-> c]]
    BY <1>1, Starts, SidesKept DEF BlockSave, MessageInv, CoreKinds
  <1>3. RowsKept' /\ Lasts /\ \A t \in Slots : ScanSpared(t)
    <2>1. v \in MessageStatus \ {"none"} /\ v \notin Waiting /\ v \notin Delivered
      BY <1>1 DEF MessageStatus, Waiting, Delivered
    <2>2. v # "pending_review" /\ cleared \subseteq Keys
      BY <1>1 DEF MessageInv, CoreKinds
    <2>. HIDE DEF k, v, c
    <2>. QED
      BY <1>1, <1>2, <2>1, <2>2, MessageStep
  <1>4. PICK r \in Held : r = [op |-> "resolve", case |-> c]
    BY <1>1, HeldMade
  <1>5. msg'[k] \notin Waiting \cup {"none"}
    BY <1>1, <1>2 DEF Waiting
  <1>6. Seen(r)' /\ r.op # "scan"
    BY <1>1, <1>2, <1>4, <1>5 DEF Seen, Settled
  <1>. QED
    BY <1>2, <1>3, <1>4, <1>6, HandlerMoves

LEMMA RescanSaveKeeps ==
  ASSUME MessageInv, NEW s \in Slots, RescanSave(s)
  PROVE  MessageInv' /\ Lasts
  <1>. DEFINE k == run[s].key
  <1>1. k \in Keys /\ msg[k] # "none"
    BY AtWork, HeldKinds DEF RescanSave, Seen
  <1>2. /\ msg' = [msg EXCEPT ![k] = "removed"] /\ OpenCase(k) /\ UNCHANGED <<file, cleared, again>>
        /\ SideKinds' /\ run' = [run EXCEPT ![s] = Idle]
    BY Starts, SidesKept DEF RescanSave
  <1>3. RowsKept' /\ Lasts /\ \A t \in Slots : ScanSpared(t)
    <2>1. "removed" \in MessageStatus \ {"none"} /\ "removed" \notin Waiting \cup Delivered
      BY DEF MessageStatus, Waiting, Delivered
    <2>2. cleared \subseteq Keys
      BY DEF MessageInv, CoreKinds
    <2>. HIDE DEF k
    <2>. QED
      BY <1>1, <1>2, <2>1, <2>2, MessageStep
  <1>4. Idle \in Held /\ Seen(Idle)' /\ Idle.op # "scan"
    BY HeldMade DEF Idle, Seen
  <1>. QED
    BY <1>2, <1>3, <1>4, HandlerMoves

LEMMA PassFailsKeeps ==
  ASSUME MessageInv, NEW j \in queue, PassFails(j)
  PROVE  MessageInv' /\ Lasts
  <1>1. /\ j.key \in Keys /\ SideKinds' /\ UNCHANGED <<file, cleared, again, run>>
    BY SidesKept DEF PassFails, AtOnceOp
  <1>2. CASE msg[j.key] = "held"
    <2>1. msg' = [msg EXCEPT ![j.key] = "pending_review"] /\ OpenCase(j.key)
      BY <1>2 DEF PassFails
    <2>2. "pending_review" \in MessageStatus \ {"none"} /\ "pending_review" \notin Delivered
          /\ ~Settled(j.key) /\ cleared \subseteq Keys
      BY <1>2 DEF MessageStatus, Waiting, Delivered, Settled, MessageInv, CoreKinds
    <2>3. RowsKept' /\ Lasts /\ \A t \in Slots : ScanSpared(t)
      BY <1>1, <1>2, <2>1, <2>2, MessageStep
    <2>. QED
      BY <1>1, <2>3, NoneMoves
  <1>3. CASE msg[j.key] # "held"
    BY <1>1, <1>3, RowsAlone, NoneMoves DEF PassFails
  <1>. QED
    BY <1>2, <1>3

LEMMA ResolveKeeps ==
  ASSUME MessageInv, NEW s \in Slots, Resolve(s)
  PROVE  MessageInv' /\ Lasts
  <1>. DEFINE c == run[s].case
  <1>1. c \in DOMAIN cases /\ Settled(cases[c].msg)
    BY AtWork, HeldKinds DEF Resolve, Seen
  <1>2. /\ cases' = [cases EXCEPT ![c].open = FALSE] /\ UNCHANGED <<msg, file, cleared, again>>
        /\ SideKinds' /\ run' = [run EXCEPT ![s] = Idle]
    BY Starts, SidesKept DEF Resolve
  <1>3. /\ cases' \in Seq(CaseRow) /\ DOMAIN cases' = DOMAIN cases
        /\ \A d \in DOMAIN cases : cases'[d].msg = cases[d].msg /\ (d # c => cases'[d] = cases[d])
    <2>. HIDE DEF c
    <2>. QED
      BY <1>1, <1>2, CaseMarked DEF MessageInv
  <1>4. ReviewHasCase'
    <2>. SUFFICES ASSUME NEW k \in Keys, msg[k] = "pending_review" PROVE HasCase(k)'
      BY <1>2 DEF ReviewHasCase
    <2>1. PICK d \in DOMAIN cases : cases[d].msg = k /\ cases[d].open
      BY DEF MessageInv, ReviewHasCase, HasCase
    <2>2. d # c
      BY <1>1, <2>1 DEF Settled, Waiting
    <2>. QED
      BY <1>3, <2>1, <2>2 DEF HasCase
  <1>5. \A d \in DOMAIN cases' : msg[cases'[d].msg] # "none"
    BY <1>3, CaseRead
  <1>6. RowsKept' /\ Lasts /\ \A t \in Slots : ScanSpared(t)
    <2>. HIDE DEF c
    <2>. QED
      BY <1>2, <1>3, <1>4, <1>5, CaseStep
  <1>7. Idle \in Held /\ Seen(Idle)' /\ Idle.op # "scan"
    BY HeldMade DEF Idle, Seen
  <1>. QED
    BY <1>2, <1>6, <1>7, HandlerMoves

LEMMA ClaimSaveKeeps ==
  ASSUME MessageInv, NEW s \in Slots, ClaimSave(s)
  PROVE  MessageInv' /\ Lasts
  <1>. DEFINE c == run[s].case
  <1>1. c \in DOMAIN cases
    BY AtWork, HeldKinds DEF ClaimSave, Seen
  <1>2. /\ cases' = [cases EXCEPT ![c].open = TRUE] /\ UNCHANGED <<msg, file, cleared, again>>
        /\ SideKinds' /\ run' = [run EXCEPT ![s] = Idle]
    BY Starts, SidesKept DEF ClaimSave
  <1>3. /\ cases' \in Seq(CaseRow) /\ DOMAIN cases' = DOMAIN cases
        /\ \A d \in DOMAIN cases : /\ cases'[d].msg = cases[d].msg
                                   /\ cases[d].open => cases'[d].open
    <2>. HIDE DEF c
    <2>. QED
      BY <1>1, <1>2, CaseMarked DEF MessageInv
  <1>4. ReviewHasCase'
    BY <1>2, <1>3 DEF MessageInv, ReviewHasCase, HasCase
  <1>5. \A d \in DOMAIN cases' : msg[cases'[d].msg] # "none"
    BY <1>3, CaseRead
  <1>6. RowsKept' /\ Lasts /\ \A t \in Slots : ScanSpared(t)
    <2>. HIDE DEF c
    <2>. QED
      BY <1>2, <1>3, <1>4, <1>5, CaseStep
  <1>7. Idle \in Held /\ Seen(Idle)' /\ Idle.op # "scan"
    BY HeldMade DEF Idle, Seen
  <1>. QED
    BY <1>2, <1>6, <1>7, HandlerMoves

LEMMA ReportKeeps ==
  ASSUME MessageInv, NEW k \in Keys, Report(k)
  PROVE  MessageInv' /\ Lasts
  <1>1. /\ msg[k] # "none" /\ SideKinds' /\ UNCHANGED <<msg, file, cleared, again, run>>
        /\ (UNCHANGED cases \/ OpenCase(k))
    BY SidesKept DEF Report, AtOnceOp, Delivered
  <1>2. CASE UNCHANGED cases
    BY <1>1, <1>2, RowsAlone, NoneMoves
  <1>3. CASE OpenCase(k)
    <2>1. /\ cases' \in Seq(CaseRow) /\ DOMAIN cases \subseteq DOMAIN cases'
          /\ \A c \in DOMAIN cases : cases'[c] = cases[c]
          /\ \A c \in DOMAIN cases' : c \in DOMAIN cases \/ cases'[c].msg = k
      BY <1>3, CaseOpened DEF MessageInv
    <2>2. ReviewHasCase'
      BY <1>1, <2>1 DEF MessageInv, ReviewHasCase, HasCase
    <2>3. \A c \in DOMAIN cases' : msg[cases'[c].msg] # "none"
      BY <1>1, <2>1, CaseRead
    <2>4. RowsKept' /\ Lasts /\ \A t \in Slots : ScanSpared(t)
      BY <1>1, <2>1, <2>2, <2>3, CaseStep
    <2>. QED
      BY <1>1, <2>4, NoneMoves
  <1>. QED
    BY <1>1, <1>2, <1>3

\* The message a send inserts takes only files that the send has judged.
LEMMA SendSaveKeeps ==
  ASSUME MessageInv, NEW s \in Slots, SendSave(s)
  PROVE  MessageInv' /\ Lasts
  <1>. DEFINE k == run[s].key
              v == run[s].status
              fs == run[s].files
  <1>1. /\ k \in Keys /\ v \in Verdict /\ fs \in SUBSET Files /\ (v \in Delivered => AllClean(fs))
        /\ \A f \in fs : file[f].status # "none"
        /\ UNCHANGED <<barred, tier, queue, cleared, again>>
    BY AtWork, HeldKinds DEF SendSave, Seen
  <1>2. CASE msg[k] # "none"
    <2>1. UNCHANGED <<msg, thread, file, cases>> /\ run' = [run EXCEPT ![s] = Idle]
      BY <1>2, Starts DEF SendSave
    <2>2. SideKinds'
      BY <1>1, <2>1, SidesKept
    <2>. QED
      BY <1>1, <2>1, <2>2, Starts, QuietMove
  <1>3. CASE msg[k] = "none"
    <2>1. /\ msg' = [msg EXCEPT ![k] = v]
          /\ file' = [f \in Files |-> IF f \in fs /\ file[f].msg = None
                                      THEN [file[f] EXCEPT !.msg = k] ELSE file[f]]
          /\ (UNCHANGED cases \/ OpenCase(k))
          /\ (v \in {"pending_review", "delivered_flagged"} => OpenCase(k))
          /\ \/ run' = [run EXCEPT ![s] = [op |-> "dispatch", key |-> k]]
             \/ run' = [run EXCEPT ![s] = Idle]
      BY <1>3, Starts DEF SendSave
    <2>2. /\ msg' \in [Keys -> MessageStatus] /\ msg'[k] = v /\ v \in MessageStatus \ {"none"}
          /\ \A l \in Keys : l # k => msg'[l] = msg[l]
      <3>1. v \in MessageStatus \ {"none"}
        BY <1>1 DEF Verdict, MessageStatus, Waiting, Delivered
      <3>2. msg \in [Keys -> MessageStatus]
        BY DEF MessageInv, CoreKinds
      <3>. HIDE DEF v, k
      <3>. QED
        BY <1>1, <2>1, <3>1, <3>2
    <2>3. /\ cases' \in Seq(CaseRow) /\ DOMAIN cases \subseteq DOMAIN cases'
          /\ \A c \in DOMAIN cases : cases'[c] = cases[c]
          /\ \A c \in DOMAIN cases' : c \in DOMAIN cases \/ cases'[c].msg = k
      <3>1. CASE UNCHANGED cases
        BY <3>1 DEF MessageInv, CoreKinds
      <3>2. CASE OpenCase(k)
        <4>. HIDE DEF k
        <4>. QED
          BY <1>1, <3>2, CaseOpened DEF MessageInv
      <3>. QED
        BY <2>1, <3>1, <3>2
    <2>4. /\ file' \in [Files -> FileRow]
          /\ \A f \in Files : file'[f].status = file[f].status /\ file'[f].scans = file[f].scans
          /\ \A f \in Files : file[f].msg # k
          /\ \A f \in Files : file'[f].msg = file[f].msg \/ (f \in fs /\ file'[f].msg = k)
      <3>1. file \in [Files -> FileRow] /\ k # None
        BY <1>1, FilesAre, MessagingAssumption
      <3>2. \A f \in Files : file[f].msg # k
        BY <1>3, <3>1, FilesAre
      <3>. HIDE DEF k, fs
      <3>. QED
        BY <1>1, <2>1, <3>1, <3>2 DEF FileRow
    <2>. HIDE DEF k, v, fs
    <2>5. CoreKinds'
      <3>1. \A f \in Files : file'[f].msg # None => msg'[file'[f].msg] # "none"
        BY <1>1, <2>2, <2>4, FilesAre DEF FileRow
      <3>2. cleared' \subseteq Keys /\ again' \subseteq Files
        BY <1>1 DEF MessageInv, CoreKinds
      <3>. QED
        BY <2>2, <2>3, <2>4, <3>1, <3>2 DEF CoreKinds
    <2>6. RowsAgree'
      <3>1. \A c \in DOMAIN cases' : msg'[cases'[c].msg] # "none"
        BY <1>1, <2>2, <2>3, CaseRead
      <3>2. \A f \in Files : /\ f \notin again' /\ file'[f].scans # 0
                                => file'[f].status = "uploaded" /\ file'[f].scans = 1
                             /\ file'[f].msg # None => file'[f].status # "none"
        BY <1>1, <2>4, FilesAre
      <3>. QED
        BY <3>1, <3>2 DEF RowsAgree
    <2>7. ReviewHasCase'
      <3>. SUFFICES ASSUME NEW l \in Keys, msg'[l] = "pending_review" PROVE HasCase(l)'
        BY DEF ReviewHasCase
      <3>1. CASE l = k
        <4>1. OpenCase(k)
          BY <2>1, <2>2, <3>1
        <4>. QED
          BY <1>1, <3>1, <4>1, CaseOpened DEF MessageInv, HasCase
      <3>2. CASE l # k
        <4>1. HasCase(l)
          BY <2>2, <3>2 DEF MessageInv, ReviewHasCase
        <4>. QED
          BY <2>3, <4>1 DEF HasCase
      <3>. QED
        BY <3>1, <3>2
    <2>8. FilesScannedOrApproved'
      <3>. SUFFICES ASSUME NEW f \in Files \ again, file'[f].msg # None, msg'[file'[f].msg] \in Delivered,
                           file'[f].msg \notin cleared
                    PROVE  file'[f].status = "clean"
        BY <1>1 DEF FilesScannedOrApproved
      <3>1. CASE file'[f].msg = k
        <4>1. f \in fs /\ AllClean(fs)
          BY <1>1, <2>2, <2>4, <3>1
        <4>. QED
          BY <2>4, <4>1 DEF AllClean
      <3>2. CASE file'[f].msg # k
        <4>1. file'[f].msg = file[f].msg /\ file[f].msg \in Keys
          BY <2>4, <3>2, FilesAre DEF FileRow
        <4>2. msg[file[f].msg] \in Delivered
          BY <2>2, <3>2, <4>1
        <4>. QED
          BY <2>4, <4>1, <4>2 DEF MessageInv, FilesScannedOrApproved
      <3>. QED
        BY <3>1, <3>2
    <2>9. Lasts
      <3>1. ASSUME NEW l \in Keys, msg[l] # "none"
            PROVE  msg'[l] = msg[l] /\ FilesOf(l)' \subseteq FilesOf(l)
        <4>1. l # k
          BY <1>3, <3>1 DEF k
        <4>. QED
          BY <2>2, <2>4, <4>1 DEF FilesOf
      <3>2. \A l \in Keys : Settled(l) => Settled(l)'
        BY <3>1 DEF Settled
      <3>. QED
        BY <1>1, <2>3, <2>4, <3>1, <3>2 DEF Lasts
    <2>10. ASSUME NEW t \in Slots PROVE ScanSpared(t)
      BY <1>1, <2>4, AtWork, HeldKinds DEF ScanSpared, Seen
    <2>11. SideKinds'
      <3>1. \/ thread' = thread \/ thread' = MarkDelivered(thread)
            \/ thread' = [thread EXCEPT !.status = "open", !.reason = None]
            \/ thread' = MarkDelivered([thread EXCEPT !.status = "open", !.reason = None])
        BY <1>3 DEF SendSave, k
      <3>. QED
        BY <1>1, <3>1 DEF MessageInv, SideKinds, MarkDelivered
    <2>12. RowsKept'
      BY <2>5, <2>6, <2>7, <2>8, <2>11 DEF RowsKept
    <2>13. PICK r \in Held : r.op \in {"dispatch", "none"} /\ run' = [run EXCEPT ![s] = r]
      BY <1>1, <2>1, HeldMade DEF Idle
    <2>14. Seen(r)'
      BY <2>13 DEF Seen
    <2>. QED
      BY <2>9, <2>10, <2>12, <2>13, <2>14, HandlerMoves
  <1>. QED
    BY <1>2, <1>3

-----------------------------------------------------------------------------
LEMMA InitMessage == MessagingInit => MessageInv
  <1>. SUFFICES ASSUME MessagingInit PROVE MessageInv
    OBVIOUS
  <1>1. SideKinds
    BY DEF MessagingInit, SideKinds, Tiers
  <1>2. CoreKinds
    <2>1. cases = <<>> /\ cases \in Seq(CaseRow)
      BY EmptySeq DEF MessagingInit
    <2>. QED
      BY <2>1 DEF MessagingInit, CoreKinds, MessageStatus, FileRow, FileStatus
  <1>3. DOMAIN cases = {}
    BY EmptySeq DEF MessagingInit
  <1>4. RowsAgree /\ ReviewHasCase /\ FilesScannedOrApproved
    BY <1>3 DEF MessagingInit, RowsAgree, ReviewHasCase, FilesScannedOrApproved
  <1>5. run \in [Slots -> Held] /\ (\A s \in Slots : Seen(run[s])) /\ ScannedOnce
    BY HeldMade DEF MessagingInit, Idle, Seen, ScannedOnce
  <1>. QED
    BY <1>1, <1>2, <1>4, <1>5 DEF MessageInv

LEMMA NextMessage == MessageInv /\ [MessagingNext]_messagingVars => MessageInv' /\ Lasts
  <1>. SUFFICES ASSUME MessageInv, [MessagingNext]_messagingVars PROVE MessageInv' /\ Lasts
    OBVIOUS
  <1>1. ASSUME NEW s \in Slots, Save(s) PROVE MessageInv' /\ Lasts
    BY <1>1, SendSaveKeeps, DispatchKeeps, PassSaveKeeps, DeliverSaveKeeps, CompleteSaveKeeps, ScanSaveKeeps,
       BlockSaveKeeps, ResolveKeeps, ClaimSaveKeeps, RescanSaveKeeps, TierKeeps, BarKeeps,
       CloseSaveKeeps
    DEF Save
  <1>2. ASSUME NEW s \in Slots, Crash(s) PROVE MessageInv' /\ Lasts
    BY <1>2, DieKeeps
  <1>3. ASSUME NEW s \in Slots, NEW k \in Keys,
               RescanRead(s, k) \/ \E fs \in SUBSET Files : SendRead(s, k, fs)
        PROVE  MessageInv' /\ Lasts
    BY <1>3, RescanReadKeeps, SendReadKeeps
  <1>4. ASSUME NEW s \in Slots, NEW f \in Files, CompleteRead(s, f) \/ ScanRead(s, f)
        PROVE  MessageInv' /\ Lasts
    BY <1>4, CompleteReadKeeps, ScanReadKeeps
  <1>5. ASSUME NEW s \in Slots, NEW c \in DOMAIN cases,
               ApproveRead(s, c) \/ BlockRead(s, c) \/ ClaimRead(s, c)
        PROVE  MessageInv' /\ Lasts
    BY <1>5, ApproveReadKeeps, BlockReadKeeps, ClaimReadKeeps
  <1>6. ASSUME NEW s \in Slots, RefreshRead(s) \/ BarRead(s) PROVE MessageInv' /\ Lasts
    BY <1>6, TierKeeps, BarKeeps DEF Tiers
  <1>7. ASSUME NEW s \in Slots, ExpireRead(s) \/ \E op \in {"decline", "staff"} : CloseRead(s, op)
        PROVE  MessageInv' /\ Lasts
    BY <1>7, CloseReadKeeps
  <1>8. ASSUME NEW s \in Slots, NEW j \in queue, PassRead(s, j) PROVE MessageInv' /\ Lasts
    BY <1>8, PassReadKeeps
  <1>9. ASSUME NEW j \in queue, PassFails(j) PROVE MessageInv' /\ Lasts
    BY <1>9, PassFailsKeeps
  <1>10. ASSUME NEW k \in Keys, SweepHeld(k) \/ Report(k) PROVE MessageInv' /\ Lasts
    BY <1>10, SweepHeldKeeps, ReportKeeps
  <1>11. ASSUME NEW t \in Tiers, RestrictSender(t) PROVE MessageInv' /\ Lasts
    <2>1. SideKinds' /\ UNCHANGED run
      BY <1>11 DEF MessageInv, SideKinds, RestrictSender, AtOnceOp
    <2>. QED
      BY <1>11, <2>1, RowsAlone, NoneMoves DEF RestrictSender
  <1>12. CASE Quieten
    BY <1>12, QuietenKeeps
  <1>13. CASE UNCHANGED messagingVars
    <2>1. SideKinds' /\ UNCHANGED <<msg, file, cases, cleared, again, run>>
      BY <1>13, SidesKept DEF messagingVars
    <2>. QED
      BY <2>1, RowsAlone, NoneMoves
  <1>. QED
    BY <1>1, <1>2, <1>3, <1>4, <1>5, <1>6, <1>7, <1>8, <1>9, <1>10, <1>11, <1>12, <1>13
    DEF MessagingNext, Pass

\* What a handler holds and what the rows say of one another stays true together:
\* the inductive invariant of messages, files and cases.
THEOREM MessageInvariance == MessagingSpec => []MessageInv
  <1>1. MessagingInit => MessageInv
    BY InitMessage
  <1>2. MessageInv /\ [MessagingNext]_messagingVars => MessageInv'
    BY NextMessage
  <1>. QED
    BY <1>1, <1>2, PTL DEF MessagingSpec

\* No step takes back what an earlier one settled: a message once sent stays sent
\* and gains no files, one that was decided never waits again, a case keeps its
\* message and its place, and a file found clean stays clean unless its upload is
\* completed a second time, whichever reads of moderators, passes and scans were
\* stale.
THEOREM DecisionsLast == MessagingSpec => [][Lasts]_messagingVars
  <1>1. MessageInv /\ [MessagingNext]_messagingVars => [Lasts]_messagingVars
    BY NextMessage
  <1>. QED
    BY <1>1, MessageInvariance, PTL DEF MessagingSpec

\* The rows are always of their kinds.
THEOREM MessageTypes == MessagingSpec => []MessagingTypeOK
  <1>1. MessageInv => MessagingTypeOK
    BY KindsAre DEF MessageInv
  <1>. QED
    BY <1>1, MessageInvariance, PTL

\* A message that waits for a person is on some moderator's list.
THEOREM ReviewsHaveCase == MessagingSpec => []ReviewHasCase
  <1>1. MessageInv => ReviewHasCase
    BY DEF MessageInv
  <1>. QED
    BY <1>1, MessageInvariance, PTL

\* No file goes out with a message unless it was found clean or the message
\* approved, but for a file whose upload a second call completed over the first
\* (attachment_service.ts:122-138).
THEOREM FilesGoOutClean == MessagingSpec => []FilesScannedOrApproved
  <1>1. MessageInv => FilesScannedOrApproved
    BY DEF MessageInv
  <1>. QED
    BY <1>1, MessageInvariance, PTL

=============================================================================
