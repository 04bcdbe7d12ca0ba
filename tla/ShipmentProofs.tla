--------------------------- MODULE ShipmentProofs ---------------------------
(***************************************************************************)
(* Proofs about Shipment, for any number of requests that buy and void.    *)
(* Types are kept whatever happens; that one label is bought, that none is *)
(* lost and that shipments move forward is proved if no request outlives   *)
(* the lease it took.                                                      *)
(***************************************************************************)
EXTENDS Shipment, FiniteSetTheorems, TLAPS

Row == [status : RowStatus, ep : MaybeBuy, lease : {"none", "fresh", "stale"},
        tracking : MaybeBuy]
BuyMemory == [pc : BuySteps, row : MaybeBuy, ep : MaybeBuy, note : {"none", "noRate"}]
VoidMemory == [pc : VoidSteps, row : MaybeBuy, ep : MaybeBuy]

AtWork(r) == buy[r].pc \notin {"idle", "done"}

\* A request at work knows its row, and once it needs one, an EasyPost id.
Knows ==
    /\ \A r \in Buys :
        /\ AtWork(r) => buy[r].row \in Buys
        /\ buy[r].pc \in {"lookup", "save", "buy", "finalize"} => buy[r].ep \in Buys
    /\ \A v \in Voids :
        void[v].pc \in {"refund", "commit"} => void[v].row \in Buys /\ void[v].ep \in Buys

\* The type invariant, with names for the kinds of row and of memory.
Typed ==
    /\ order \in OrderStatus
    /\ row \in [Buys -> Row]
    /\ label \in [Buys -> LabelStatus]
    /\ carrier \in [Buys -> {"none"} \cup Scans]
    /\ events \subseteq [ep : Buys, scan : Scans]
    /\ buy \in [Buys -> BuyMemory]
    /\ void \in [Voids -> VoidMemory]

TypeInv == Typed /\ Knows

-----------------------------------------------------------------------------
LEMMA InitTyped == Init => TypeInv
  BY DEF Init, TypeInv, Typed, Knows, AtWork, Row, BuyMemory, VoidMemory, NoRow, OrderStatus,
     RowStatus, LabelStatus, BuySteps, VoidSteps, MaybeBuy

\* Replacing one row, one label or one memory leaves the others.
LEMMA OneRow ==
  ASSUME row \in [Buys -> Row], NEW b \in Buys, NEW x \in Row, row' = [row EXCEPT ![b] = x]
  PROVE  /\ row' \in [Buys -> Row] /\ row'[b] = x
         /\ \A c \in Buys : c # b => row'[c] = row[c]
  OBVIOUS

LEMMA OneBuy ==
  ASSUME buy \in [Buys -> BuyMemory], NEW r \in Buys, NEW m \in BuyMemory,
         buy' = [buy EXCEPT ![r] = m]
  PROVE  /\ buy' \in [Buys -> BuyMemory] /\ buy'[r] = m
         /\ \A s \in Buys : s # r => buy'[s] = buy[s]
  OBVIOUS

\* What may be written to a memory or to a row.
LEMMA BuyUpdates ==
  ASSUME NEW m \in BuyMemory
  PROVE  /\ \A pc \in BuySteps : [m EXCEPT !.pc = pc] \in BuyMemory
         /\ \A pc \in BuySteps, b \in MaybeBuy : [m EXCEPT !.pc = pc, !.row = b] \in BuyMemory
         /\ \A pc \in BuySteps, e \in MaybeBuy : [m EXCEPT !.pc = pc, !.ep = e] \in BuyMemory
         /\ \A pc \in BuySteps, n \in {"none", "noRate"} :
               [m EXCEPT !.pc = pc, !.note = n] \in BuyMemory
  BY DEF BuyMemory

LEMMA RowUpdates ==
  ASSUME NEW x \in Row
  PROVE  /\ \A s \in RowStatus : [x EXCEPT !.status = s] \in Row
         /\ \A l \in {"none", "fresh", "stale"} : [x EXCEPT !.lease = l] \in Row
         /\ \A e \in MaybeBuy : [x EXCEPT !.ep = e] \in Row
         /\ \A e \in MaybeBuy :
               [x EXCEPT !.status = "label_created", !.lease = "none", !.tracking = e] \in Row
         /\ NoRow \in Row
         /\ [NoRow EXCEPT !.status = "pending", !.lease = "fresh"] \in Row
  BY DEF Row, RowStatus, NoRow, MaybeBuy

\* What a request at work does: it stays with its row until it is done, and
\* touches that row and its own EasyPost shipment alone.
LEMMA WorkTyped ==
  ASSUME TypeInv, NEW r \in Buys,
         \/ Load(r) \/ LookUp(r) \/ Create(r) \/ SaveId(r) \/ Buy(r)
         \/ Release(r) \/ Finalize(r) \/ BuyCrash(r)
  PROVE  TypeInv'
  <1>. DEFINE b == buy[r].row
  <1>. USE DEF TypeInv, Typed
  <1>0. /\ b \in Buys /\ row[b] \in Row /\ buy[r] \in BuyMemory /\ r \in MaybeBuy
        /\ buy[r].ep \in MaybeBuy /\ row[b].ep \in MaybeBuy
    BY DEF Knows, AtWork, Load, LookUp, Create, SaveId, Buy, Release, Finalize, BuyCrash,
       Row, BuyMemory, MaybeBuy
  <1>1. /\ row' \in [Buys -> Row]
        /\ UNCHANGED <<order, carrier, events, void>>
    <2>1. CASE UNCHANGED row
      BY <2>1 DEF Load, LookUp, Create, SaveId, Buy, Release, Finalize, BuyCrash, world
    <2>2. CASE SaveId(r)
      BY <1>0, <2>2, RowUpdates DEF SaveId, world
    <2>3. CASE Release(r)
      <3>1. NoRow \in Row /\ [row[b] EXCEPT !.lease = "none"] \in Row
        BY <1>0, RowUpdates
      <3>. QED
        BY <2>3, <3>1 DEF Release, world
    <2>4. CASE Finalize(r)
      <3>1. [row[b] EXCEPT !.status = "label_created", !.lease = "none",
                           !.tracking = buy[r].ep] \in Row
        BY <1>0, RowUpdates
      <3>. QED
        BY <2>4, <3>1 DEF Finalize, world
    <2>. QED
      BY <2>1, <2>2, <2>3, <2>4 DEF Load, LookUp, Create, Buy, BuyCrash
  <1>2. label' \in [Buys -> LabelStatus]
    <2>1. UNCHANGED label \/ \E l \in {"created", "bought"} : label' = [label EXCEPT ![r] = l]
      BY DEF Load, LookUp, Create, SaveId, Buy, Release, Finalize, BuyCrash, world
    <2>. QED
      BY <2>1 DEF LabelStatus
  <1>3. \E m \in BuyMemory :
          /\ buy' = [buy EXCEPT ![r] = m]
          /\ m.row = b
          /\ m.pc \in {"lookup", "save", "buy", "finalize"} => m.ep \in Buys
    <2>. DEFINE Goal == \E m \in BuyMemory :
                          /\ buy' = [buy EXCEPT ![r] = m]
                          /\ m.row = b
                          /\ m.pc \in {"lookup", "save", "buy", "finalize"} => m.ep \in Buys
    <2>1. ASSUME NEW pc \in {"release"}, NEW n \in {"none", "noRate"},
                 buy' = [buy EXCEPT ![r] = [buy[r] EXCEPT !.pc = pc, !.note = n]]
          PROVE  Goal
      <3>. DEFINE m == [buy[r] EXCEPT !.pc = pc, !.note = n]
      <3>1. m \in BuyMemory /\ m.row = b /\ m.pc = pc
        BY <1>0 DEF BuyMemory, BuySteps
      <3>. HIDE DEF m
      <3>. QED
        BY <2>1, <3>1 DEF m
    <2>2. ASSUME NEW pc \in BuySteps, buy' = [buy EXCEPT ![r] = [buy[r] EXCEPT !.pc = pc]],
                 pc \in {"lookup", "save", "buy", "finalize"} => buy[r].ep \in Buys
          PROVE  Goal
      <3>. DEFINE m == [buy[r] EXCEPT !.pc = pc]
      <3>1. m \in BuyMemory /\ m.row = b /\ m.pc = pc /\ m.ep = buy[r].ep
        BY <1>0 DEF BuyMemory
      <3>. HIDE DEF m
      <3>. QED
        BY <2>2, <3>1 DEF m
    <2>3. ASSUME NEW pc \in BuySteps, NEW e \in MaybeBuy,
                 buy' = [buy EXCEPT ![r] = [buy[r] EXCEPT !.pc = pc, !.ep = e]],
                 pc \in {"lookup", "save", "buy", "finalize"} => e \in Buys
          PROVE  Goal
      <3>. DEFINE m == [buy[r] EXCEPT !.pc = pc, !.ep = e]
      <3>1. m \in BuyMemory /\ m.row = b /\ m.pc = pc /\ m.ep = e
        BY <1>0 DEF BuyMemory
      <3>. HIDE DEF m
      <3>. QED
        BY <2>3, <3>1 DEF m
    <2>4. CASE Load(r)
      <3>1. CASE row[b].status = "none"
        BY <2>2, <2>4, <3>1 DEF Load, BuyStep, BuySteps
      <3>2. CASE row[b].status # "none"
        <4>. DEFINE pc == IF row[b].ep = None THEN "create" ELSE "lookup"
        <4>1. buy' = [buy EXCEPT ![r] = [buy[r] EXCEPT !.pc = pc, !.ep = row[b].ep]]
          BY <2>4, <3>2 DEF Load
        <4>2. pc \in BuySteps /\ (pc \in {"lookup", "save", "buy", "finalize"} => row[b].ep \in Buys)
          BY <1>0 DEF BuySteps, MaybeBuy
        <4>. HIDE DEF pc
        <4>. QED
          BY <1>0, <2>3, <4>1, <4>2
      <3>. QED
        BY <3>1, <3>2
    <2>5. CASE LookUp(r)
      BY <2>2, <2>5 DEF LookUp, BuyStep, BuySteps, Knows
    <2>6. CASE Create(r)
      <3>1. \/ buy' = [buy EXCEPT ![r] = [buy[r] EXCEPT !.pc = "save", !.ep = r]]
            \/ buy' = [buy EXCEPT ![r] = [buy[r] EXCEPT !.pc = "release"]]
        BY <2>6 DEF Create, BuyStep
      <3>2. "save" \in BuySteps /\ "release" \in BuySteps
        BY DEF BuySteps
      <3>. QED
        BY <1>0, <2>2, <2>3, <3>1, <3>2
    <2>7. CASE SaveId(r)
      BY <2>2, <2>7 DEF SaveId, BuyStep, BuySteps, Knows, AtWork
    <2>8. CASE Buy(r)
      <3>1. \/ buy' = [buy EXCEPT ![r] = [buy[r] EXCEPT !.pc = "finalize"]]
            \/ buy' = [buy EXCEPT ![r] = [buy[r] EXCEPT !.pc = "release"]]
            \/ buy' = [buy EXCEPT ![r] = [buy[r] EXCEPT !.pc = "release", !.note = "noRate"]]
        BY <2>8 DEF Buy, BuyStep
      <3>2. buy[r].ep \in Buys
        BY <2>8 DEF Buy, Knows
      <3>3. "finalize" \in BuySteps /\ "release" \in BuySteps
        BY DEF BuySteps
      <3>. QED
        BY <2>1, <2>2, <3>1, <3>2, <3>3
    <2>9. CASE Release(r) \/ Finalize(r) \/ BuyCrash(r)
      BY <2>2, <2>9 DEF Release, Finalize, BuyCrash, BuyStep, BuySteps
    <2>. QED
      BY <2>4, <2>5, <2>6, <2>7, <2>8, <2>9
  <1>4. PICK m \in BuyMemory :
          /\ buy' = [buy EXCEPT ![r] = m]
          /\ m.row = b
          /\ m.pc \in {"lookup", "save", "buy", "finalize"} => m.ep \in Buys
    BY <1>3
  <1>5. /\ buy' \in [Buys -> BuyMemory] /\ buy'[r] = m
        /\ \A s \in Buys : s # r => buy'[s] = buy[s]
    BY <1>4, OneBuy
  <1>6. Knows'
    BY <1>0, <1>1, <1>4, <1>5 DEF Knows, AtWork
  <1>. QED
    BY <1>1, <1>2, <1>5, <1>6


\* A claim takes a row the request knows from then on, or gives up.
LEMMA ClaimTyped ==
  ASSUME TypeInv, NEW r \in Buys, Claim(r)
  PROVE  TypeInv'
  <1>. USE DEF TypeInv, Typed
  <1>1. buy[r] \in BuyMemory /\ UNCHANGED <<order, label, carrier, events, void>>
    BY DEF Claim, world
  <1>2. "load" \in BuySteps /\ "done" \in BuySteps
    BY DEF BuySteps
  <1>3. ASSUME NEW b \in Buys, NEW x \in Row, row' = [row EXCEPT ![b] = x],
               buy' = [buy EXCEPT ![r] = [buy[r] EXCEPT !.pc = "load", !.row = b]]
        PROVE  TypeInv'
    <2>. DEFINE m == [buy[r] EXCEPT !.pc = "load", !.row = b]
    <2>1. m \in BuyMemory /\ m.pc = "load" /\ m.row = b
      BY <1>1, <1>2 DEF BuyMemory, MaybeBuy
    <2>. HIDE DEF m
    <2>2. /\ buy' \in [Buys -> BuyMemory] /\ buy'[r] = m
          /\ \A s \in Buys : s # r => buy'[s] = buy[s]
      BY <1>3, <2>1, OneBuy DEF m
    <2>3. row' \in [Buys -> Row]
      BY <1>3
    <2>. QED
      BY <1>1, <2>1, <2>2, <2>3 DEF Knows, AtWork
  <1>4. CASE buy' = [buy EXCEPT ![r] = [buy[r] EXCEPT !.pc = "done"]] /\ UNCHANGED row
    <2>1. [buy[r] EXCEPT !.pc = "done"] \in BuyMemory
      BY <1>1, <1>2, BuyUpdates
    <2>2. buy' \in [Buys -> BuyMemory]
      BY <1>4, <2>1
    <2>. QED
      BY <1>1, <1>4, <2>2 DEF Knows, AtWork, BuyMemory
  <1>5. ASSUME NEW b \in Active, row' = [row EXCEPT ![b].lease = "fresh"],
               buy' = [buy EXCEPT ![r].pc = "load", ![r].row = b]
        PROVE  TypeInv'
    <2>1. b \in Buys /\ [row[b] EXCEPT !.lease = "fresh"] \in Row
      BY RowUpdates DEF Active, Rows
    <2>2. buy' = [buy EXCEPT ![r] = [buy[r] EXCEPT !.pc = "load", !.row = b]]
      BY <1>5
    <2>3. row' = [row EXCEPT ![b] = [row[b] EXCEPT !.lease = "fresh"]]
      BY <1>5
    <2>. QED
      BY <1>3, <2>1, <2>2, <2>3
  <1>6. CASE /\ row' = [row EXCEPT ![r] = [NoRow EXCEPT !.status = "pending", !.lease = "fresh"]]
             /\ buy' = [buy EXCEPT ![r].pc = "load", ![r].row = r]
    <2>1. [NoRow EXCEPT !.status = "pending", !.lease = "fresh"] \in Row
      BY RowUpdates
    <2>2. buy' = [buy EXCEPT ![r] = [buy[r] EXCEPT !.pc = "load", !.row = r]]
      BY <1>6
    <2>. QED
      BY <1>3, <1>6, <2>1, <2>2
  <1>. QED
    BY <1>4, <1>5, <1>6 DEF Claim, BuyStep

\* Leases, voids, the carrier, its events and refunds.
LEMMA OthersTyped ==
  ASSUME TypeInv,
         \/ \E b \in Buys : LeaseExpires(b)
         \/ \E v \in Voids : VoidNext(v)
         \/ CarrierNext \/ TrackerNext \/ RefundOrder
  PROVE  TypeInv'
  <1>. USE DEF TypeInv, Typed, world
  <1>1. ASSUME NEW b \in Buys, LeaseExpires(b) PROVE TypeInv'
    <2>1. [row[b] EXCEPT !.lease = "stale"] \in Row
      BY RowUpdates
    <2>2. row' \in [Buys -> Row]
      BY <1>1, <2>1 DEF LeaseExpires
    <2>. QED
      BY <1>1, <2>2 DEF LeaseExpires, Knows, AtWork
  <1>2. ASSUME NEW v \in Voids, NEW b \in Buys, CheckVoid(v, b) PROVE TypeInv'
    <2>. DEFINE m == [pc |-> "refund", row |-> b, ep |-> row[b].ep]
    <2>1. row[b].ep \in Buys
      BY <1>2 DEF CheckVoid, Row, MaybeBuy
    <2>2. m \in VoidMemory
      BY <2>1 DEF VoidMemory, VoidSteps, MaybeBuy
    <2>3. void' \in [Voids -> VoidMemory] /\ void'[v] = m /\ \A w \in Voids : w # v => void'[w] = void[w]
      BY <1>2, <2>2 DEF CheckVoid
    <2>. QED
      BY <1>2, <2>1, <2>3 DEF CheckVoid, Knows, AtWork
  <1>3. ASSUME NEW v \in Voids, Refund(v) \/ CommitVoid(v) \/ VoidCrash(v) PROVE TypeInv'
    <2>1. /\ void[v] \in VoidMemory /\ void[v].row \in Buys /\ void[v].ep \in Buys
          /\ void[v].pc \in {"refund", "commit"}
      BY <1>3 DEF Refund, CommitVoid, VoidCrash, Knows
    <2>2. PICK pc \in {"commit", "done"} : void' = [void EXCEPT ![v] = [void[v] EXCEPT !.pc = pc]]
      BY <1>3 DEF Refund, CommitVoid, VoidCrash, VoidStep
    <2>. DEFINE m == [void[v] EXCEPT !.pc = pc]
    <2>3. m \in VoidMemory /\ m.row = void[v].row /\ m.ep = void[v].ep
      BY <2>1 DEF VoidMemory, VoidSteps
    <2>. HIDE DEF m
    <2>4. /\ void' \in [Voids -> VoidMemory] /\ void'[v] = m
          /\ \A w \in Voids : w # v => void'[w] = void[w]
      BY <2>2, <2>3 DEF m
    <2>5. label' \in [Buys -> LabelStatus]
      BY <1>3, <2>1 DEF Refund, CommitVoid, VoidCrash, LabelStatus
    <2>6. row' \in [Buys -> Row]
      <3>1. [row[void[v].row] EXCEPT !.status = "cancelled"] \in Row
        BY <2>1, RowUpdates DEF RowStatus
      <3>. QED
        BY <1>3, <2>1, <3>1 DEF Refund, CommitVoid, VoidCrash
    <2>. QED
      BY <1>3, <2>1, <2>3, <2>4, <2>5, <2>6 DEF Refund, CommitVoid, VoidCrash, Knows, AtWork
  <1>4. CASE CarrierNext
    BY <1>4 DEF CarrierNext, Scan, Knows, AtWork
  <1>5. ASSUME NEW ev \in events, Tracker(ev) PROVE TypeInv'
    <2>1. row' \in [Buys -> Row] /\ order' \in OrderStatus
      <3>1. ASSUME NEW b \in ShipmentsOf(ev.ep), ApplyUpdate(b, ev.scan)
            PROVE  row' \in [Buys -> Row] /\ order' \in OrderStatus
        <4>1. b \in Buys /\ row[b] \in Row
          BY DEF ShipmentsOf, Active, Rows
        <4>2. Tracked(b, ev.scan) \in RowStatus
          BY <4>1 DEF Tracked, Row, RowStatus, Scans
        <4>3. [row[b] EXCEPT !.status = Tracked(b, ev.scan)] \in Row
          BY <4>1, <4>2, RowUpdates
        <4>4. \A all \in BOOLEAN : Moved(order, all) \in OrderStatus
          BY DEF Moved, OrderStatus
        <4>. QED
          BY <3>1, <4>1, <4>3, <4>4 DEF ApplyUpdate
      <3>. QED
        BY <1>5, <3>1 DEF Tracker
    <2>. QED
      BY <1>5, <2>1 DEF Tracker, Knows, AtWork
  <1>6. CASE RefundOrder
    BY <1>6 DEF RefundOrder, OrderStatus, Knows, AtWork
  <1>. QED
    BY <1>1, <1>2, <1>3, <1>4, <1>5, <1>6 DEF VoidNext, TrackerNext

LEMMA StepTyped == TypeInv /\ [Next]_vars => TypeInv'
  <1>. SUFFICES ASSUME TypeInv, [Next]_vars PROVE TypeInv'
    OBVIOUS
  <1>1. CASE UNCHANGED vars
    BY <1>1 DEF vars, TypeInv, Typed, Knows, AtWork
  <1>2. ASSUME NEW r \in Buys, BuyNext(r) PROVE TypeInv'
    BY <1>2, ClaimTyped, WorkTyped, OthersTyped DEF BuyNext
  <1>. QED
    BY <1>1, <1>2, OthersTyped DEF Next

\* Type correctness, whatever goes wrong and however slow requests are.
THEOREM TypeCorrect == Spec => []TypeOK
  <1>1. TypeInv => TypeOK
    BY DEF TypeInv, Typed, TypeOK, Row, BuyMemory, VoidMemory
  <1>. QED
    BY <1>1, InitTyped, StepTyped, PTL DEF Spec


-----------------------------------------------------------------------------
(***************************************************************************)
(* No request outlives its lease: one label at a time.                     *)
(***************************************************************************)

\* Every request ends within the two minutes of its lease (LEASE_MINUTES).
Prompt == "slow" \notin Mishaps

NotBought(e) == e = None \/ label[e] # "bought"

OneActive == \A b, c \in Active : b = c
OneAtWork == \A r, s \in Buys : AtWork(r) /\ AtWork(s) => r = s

\* What a request may rely on at each of its steps: its row is pending under its
\* lease, and before it leaves an EasyPost id behind, that one is not bought.
Sure(r) ==
    LET b == buy[r].row IN
    /\ AtWork(r) => row[b].status = "pending" /\ row[b].lease = "fresh"
    /\ buy[r].pc \in {"idle", "load", "lookup", "create", "save", "buy"} => buy[r].note = "none"
    /\ buy[r].pc \in {"create", "save"} => NotBought(row[b].ep)
    /\ buy[r].pc = "lookup" => row[b].ep = buy[r].ep
    /\ buy[r].pc = "buy" => row[b].ep = r
    /\ buy[r].pc \in {"save", "buy"} => buy[r].ep = r
    /\ buy[r].pc = "release" /\ (buy[r].ep = None \/ buy[r].note = "noRate") =>
         NotBought(row[b].ep)

\* A request inserts its row and creates its EasyPost shipment once.
Fresh(r) ==
    /\ buy[r].pc = "idle" => row[r].status = "none"
    /\ buy[r].pc \in {"idle", "load", "lookup", "create"} => label[r] = "none"
    /\ buy[r].pc \in {"save", "buy"} => label[r] = "created"

\* A void works on a shipment that has its label, and cancels it when the label
\* is refunded or was used.
Voiding(v) ==
    LET b == void[v].row
        e == void[v].ep IN
    /\ void[v].pc \in {"refund", "commit"} =>
         /\ row[b].status \in {"label_created", "in_transit", "delivered", "cancelled"}
         /\ row[b].ep = e
    /\ void[v].pc = "commit" =>
         label[e] = "refunded" \/ (label[e] = "bought" /\ carrier[e] # "none")

LabelInv ==
    /\ OneActive /\ OneAtWork
    /\ \A r \in Buys : Sure(r) /\ Fresh(r)
    /\ \A v \in Voids : Voiding(v)
    /\ NoLabelLost

LEMMA InitLabels == Init => LabelInv
  BY DEF Init, LabelInv, OneActive, OneAtWork, Sure, Fresh, Voiding, NoLabelLost, Unused,
     Active, Rows, AtWork, NoRow

\* The one request at work changes its row, its EasyPost shipment and its memory.
LEMMA WorkKeeps ==
  ASSUME TypeInv, TypeInv', LabelInv, NEW r \in Buys, NEW b \in Buys,
         AtWork(r), b = buy[r].row,
         UNCHANGED <<order, carrier, events, void>>,
         \A c \in Buys : c # b => row'[c] = row[c],
         \A s \in Buys : s # r => buy'[s] = buy[s] /\ label'[s] = label[s],
         buy'[r].pc # "idle",
         row'[b].status \in {"none", "pending", "label_created"},
         label'[r] = label[r] \/ (label[r] # "bought" /\ label[r] # "refunded"),
         label'[r] = "bought" /\ label[r] # "bought" => row'[b].ep = r /\ row'[b].status # "none",
         (row'[b].status # "none" /\ row'[b].ep = row[b].ep) \/ NotBought(row[b].ep),
         Sure(r)', Fresh(r)'
  PROVE  LabelInv'
  <1>0. row[b].status = "pending" /\ b \in Active
    BY DEF LabelInv, Sure, Active, Rows
  <1>1. \A s \in Buys : s # r => ~AtWork(s) /\ buy'[s] = buy[s]
    BY DEF LabelInv, OneAtWork
  <1>2. OneActive'
    BY <1>0 DEF LabelInv, OneActive, Active, Rows
  <1>3. OneAtWork'
    BY <1>1 DEF OneAtWork, AtWork
  <1>4. ASSUME NEW s \in Buys PROVE Sure(s)' /\ Fresh(s)'
    <2>1. CASE s = r
      BY <2>1
    <2>2. CASE s # r
      <3>1. buy'[s] = buy[s] /\ buy[s].pc \in {"idle", "done"} /\ Sure(s) /\ Fresh(s)
        BY <1>1, <2>2 DEF AtWork, LabelInv
      <3>2. buy[s].pc = "idle" => s # b
        BY <1>0, <3>1 DEF Fresh
      <3>. QED
        BY <2>2, <3>1, <3>2 DEF Sure, Fresh, AtWork
    <2>. QED
      BY <2>1, <2>2
  <1>5. ASSUME NEW v \in Voids PROVE Voiding(v)'
    <2>1. CASE void[v].pc \in {"refund", "commit"}
      <3>1. void[v].row \in Buys /\ void[v].ep \in Buys /\ Voiding(v)
        BY <2>1 DEF TypeInv, Knows, LabelInv
      <3>2. void[v].row # b
        BY <1>0, <2>1, <3>1 DEF Voiding
      <3>3. void[v].pc = "commit" => label'[void[v].ep] = label[void[v].ep]
        BY <3>1 DEF Voiding
      <3>. QED
        BY <2>1, <3>1, <3>2, <3>3 DEF Voiding
    <2>2. CASE void[v].pc \notin {"refund", "commit"}
      BY <2>2 DEF Voiding
    <2>. QED
      BY <2>1, <2>2
  <1>6. NoLabelLost'
    <2>. SUFFICES ASSUME NEW e \in Buys, label'[e] = "bought", carrier'[e] = "none"
                  PROVE  \E a \in Buys : row'[a].status \notin {"none", "cancelled"} /\ row'[a].ep = e
      BY DEF NoLabelLost, Unused, Active, Rows
    <2>1. CASE label[e] = "bought"
      <3>1. PICK a \in Active : row[a].ep = e
        BY <2>1 DEF LabelInv, NoLabelLost, Unused
      <3>2. a = b
        BY <1>0 DEF LabelInv, OneActive
      <3>3. ~NotBought(row[b].ep)
        BY <2>1, <3>1, <3>2, ShipmentAssumption DEF NotBought
      <3>. QED
        BY <3>1, <3>2, <3>3
    <2>2. CASE label[e] # "bought"
      BY <2>2
    <2>. QED
      BY <2>1, <2>2
  <1>. QED
    BY <1>2, <1>3, <1>4, <1>5, <1>6 DEF LabelInv


LEMMA WorkLabels ==
  ASSUME TypeInv, TypeInv', LabelInv, NEW r \in Buys,
         \/ Load(r) \/ LookUp(r) \/ Create(r) \/ SaveId(r) \/ Buy(r)
         \/ Release(r) \/ Finalize(r) \/ BuyCrash(r)
  PROVE  LabelInv'
  <1>. DEFINE b == buy[r].row
  <1>1. /\ AtWork(r) /\ b \in Buys /\ Sure(r) /\ Fresh(r)
        /\ row[b].status = "pending" /\ row[b].lease = "fresh"
    BY DEF Load, LookUp, Create, SaveId, Buy, Release, Finalize, BuyCrash, AtWork, TypeInv, Knows,
       LabelInv, Sure
  <1>2. /\ row[b] \in Row /\ buy[r] \in BuyMemory
        /\ row \in [Buys -> Row] /\ buy \in [Buys -> BuyMemory] /\ label \in [Buys -> LabelStatus]
        /\ None \notin Buys
    BY <1>1, ShipmentAssumption DEF TypeInv, Typed
  <1>3. UNCHANGED <<order, carrier, events, void>>
    BY DEF Load, LookUp, Create, SaveId, Buy, Release, Finalize, BuyCrash, world
  <1>4. CASE Load(r)
    <2>. DEFINE pc == IF row[b].ep = None THEN "create" ELSE "lookup"
    <2>1. /\ UNCHANGED <<row, label>>
          /\ buy' = [buy EXCEPT ![r] = [buy[r] EXCEPT !.pc = pc, !.ep = row[b].ep]]
      BY <1>1, <1>4 DEF Load, world
    <2>2. /\ buy'[r].pc = pc /\ buy'[r].ep = row[b].ep /\ buy'[r].row = b
          /\ buy'[r].note = buy[r].note
          /\ \A s \in Buys : s # r => buy'[s] = buy[s]
      BY <1>2, <2>1 DEF BuyMemory
    <2>3. Sure(r)' /\ Fresh(r)'
      BY <1>1, <1>4, <2>1, <2>2 DEF Load, Sure, Fresh, NotBought, AtWork
    <2>. QED
      BY <1>1, <1>3, <2>1, <2>2, <2>3, WorkKeeps
  <1>5. CASE LookUp(r)
    <2>1. UNCHANGED <<row, label>>
      BY <1>5 DEF LookUp, world
    <2>2. PICK pc \in {"finalize", "create", "release"} :
            /\ buy' = [buy EXCEPT ![r] = [buy[r] EXCEPT !.pc = pc]]
            /\ pc = "create" => ~BoughtAt(buy[r].ep)
      BY <1>5 DEF LookUp, BuyStep
    <2>3. /\ buy'[r].pc = pc /\ buy'[r].ep = buy[r].ep /\ buy'[r].row = b
          /\ buy'[r].note = buy[r].note
          /\ \A s \in Buys : s # r => buy'[s] = buy[s]
      BY <1>2, <2>2 DEF BuyMemory
    <2>4. buy[r].ep \in Buys /\ row[b].ep = buy[r].ep /\ buy[r].note = "none"
      BY <1>1, <1>5 DEF LookUp, Sure, TypeInv, Knows
    <2>5. Sure(r)' /\ Fresh(r)'
      BY <1>1, <1>2, <1>5, <2>1, <2>2, <2>3, <2>4
         DEF LookUp, Sure, Fresh, NotBought, BoughtAt, AtWork
    <2>. QED
      BY <1>1, <1>3, <2>1, <2>2, <2>3, <2>5, WorkKeeps
  <1>6. CASE Create(r)
    <2>1. UNCHANGED row /\ label[r] = "none" /\ NotBought(row[b].ep) /\ buy[r].note = "none"
      BY <1>1, <1>6 DEF Create, Sure, Fresh
    <2>2. CASE /\ label' = [label EXCEPT ![r] = "created"]
               /\ buy' = [buy EXCEPT ![r] = [buy[r] EXCEPT !.pc = "save", !.ep = r]]
      <3>1. /\ buy'[r].pc = "save" /\ buy'[r].ep = r /\ buy'[r].row = b
            /\ buy'[r].note = "none"
            /\ \A s \in Buys : s # r => buy'[s] = buy[s]
        BY <1>2, <2>1, <2>2 DEF BuyMemory
      <3>2. label'[r] = "created" /\ \A s \in Buys : s # r => label'[s] = label[s]
        BY <1>2, <2>2
      <3>3. NotBought(row[b].ep)'
        <4>1. row[b].ep \in MaybeBuy
          BY <1>2 DEF Row
        <4>. QED
          BY <2>1, <2>2, <3>2, <4>1 DEF NotBought, MaybeBuy
      <3>4. Sure(r)' /\ Fresh(r)'
        BY <1>1, <2>1, <3>1, <3>2, <3>3 DEF Sure, Fresh, AtWork, NotBought
      <3>. QED
        BY <1>1, <1>3, <2>1, <3>1, <3>2, <3>4, WorkKeeps
    <2>3. CASE UNCHANGED label /\ buy' = [buy EXCEPT ![r] = [buy[r] EXCEPT !.pc = "release"]]
      <3>1. /\ buy'[r].pc = "release" /\ buy'[r].ep = buy[r].ep /\ buy'[r].row = b
            /\ \A s \in Buys : s # r => buy'[s] = buy[s]
        BY <1>2, <2>3 DEF BuyMemory
      <3>2. Sure(r)' /\ Fresh(r)'
        BY <1>1, <2>1, <2>3, <3>1 DEF Sure, Fresh, AtWork, NotBought
      <3>. QED
        BY <1>1, <1>3, <2>1, <2>3, <3>1, <3>2, WorkKeeps
    <2>. QED
      BY <1>6, <2>2, <2>3 DEF Create, BuyStep
  <1>7. CASE SaveId(r)
    <2>1. /\ row' = [row EXCEPT ![b] = [row[b] EXCEPT !.ep = r]] /\ UNCHANGED label
          /\ buy' = [buy EXCEPT ![r] = [buy[r] EXCEPT !.pc = "buy"]]
      BY <1>1, <1>7 DEF SaveId, BuyStep, world
    <2>2. /\ row'[b].ep = r /\ row'[b].status = "pending" /\ row'[b].lease = "fresh"
          /\ \A c \in Buys : c # b => row'[c] = row[c]
      BY <1>1, <1>2, <2>1 DEF Row
    <2>3. /\ buy'[r].pc = "buy" /\ buy'[r].row = b /\ buy'[r].ep = buy[r].ep
          /\ buy'[r].note = "none"
          /\ \A s \in Buys : s # r => buy'[s] = buy[s]
      BY <1>1, <1>2, <1>7, <2>1 DEF BuyMemory, SaveId, Sure
    <2>4. buy[r].ep = r
      BY <1>1, <1>7 DEF SaveId, Sure
    <2>5. Sure(r)' /\ Fresh(r)'
      BY <1>1, <1>7, <2>1, <2>2, <2>3, <2>4 DEF SaveId, Sure, Fresh, AtWork
    <2>6. NotBought(row[b].ep)
      <3>1. buy[r].pc = "save"
        BY <1>7 DEF SaveId
      <3>. QED
        BY <1>1, <3>1 DEF Sure
    <2>. QED
      BY <1>1, <1>3, <2>1, <2>2, <2>3, <2>5, <2>6, WorkKeeps
  <1>8. CASE Buy(r)
    <2>1. /\ UNCHANGED row /\ row[b].ep = r /\ buy[r].ep = r /\ label[r] = "created"
          /\ buy[r].note = "none"
      BY <1>1, <1>8 DEF Buy, Sure, Fresh
    <2>2. \E pc \in {"finalize", "release"}, n \in {"none", "noRate"} :
            /\ buy' = [buy EXCEPT ![r] = [buy[r] EXCEPT !.pc = pc, !.note = n]]
            /\ \/ UNCHANGED label
               \/ label' = [label EXCEPT ![r] = "bought"] /\ n = "none"
      <3>1. \A pc \in {"finalize", "release"} :
              [buy[r] EXCEPT !.pc = pc] = [buy[r] EXCEPT !.pc = pc, !.note = "none"]
        BY <1>2, <2>1 DEF BuyMemory
      <3>2. ASSUME NEW pc \in {"finalize", "release"},
                   buy' = [buy EXCEPT ![r] = [buy[r] EXCEPT !.pc = pc]]
            PROVE  buy' = [buy EXCEPT ![r] = [buy[r] EXCEPT !.pc = pc, !.note = "none"]]
        BY <3>1, <3>2
      <3>. QED
        BY <1>8, <3>2 DEF Buy, BuyStep
    <2>3. PICK pc \in {"finalize", "release"}, n \in {"none", "noRate"} :
            /\ buy' = [buy EXCEPT ![r] = [buy[r] EXCEPT !.pc = pc, !.note = n]]
            /\ \/ UNCHANGED label
               \/ label' = [label EXCEPT ![r] = "bought"] /\ n = "none"
      BY <2>2
    <2>4. /\ buy'[r].pc = pc /\ buy'[r].ep = r /\ buy'[r].row = b /\ buy'[r].note = n
          /\ \A s \in Buys : s # r => buy'[s] = buy[s]
      BY <1>2, <2>1, <2>3 DEF BuyMemory
    <2>5. /\ label'[r] \in {"created", "bought"}
          /\ n = "noRate" => label'[r] = "created"
          /\ \A s \in Buys : s # r => label'[s] = label[s]
      BY <1>2, <2>1, <2>3
    <2>6. Sure(r)' /\ Fresh(r)'
      BY <1>1, <1>2, <2>1, <2>4, <2>5 DEF Sure, Fresh, AtWork, NotBought
    <2>. QED
      BY <1>1, <1>3, <2>1, <2>4, <2>5, <2>6, WorkKeeps
  <1>9. CASE Release(r)
    <2>1. /\ UNCHANGED label /\ buy' = [buy EXCEPT ![r] = [buy[r] EXCEPT !.pc = "done"]]
          /\ \/ row' = [row EXCEPT ![b] = NoRow] /\ (buy[r].ep = None \/ buy[r].note = "noRate")
             \/ row' = [row EXCEPT ![b] = [row[b] EXCEPT !.lease = "none"]]
      BY <1>1, <1>9 DEF Release, BuyStep, world
    <2>2. /\ buy'[r].pc = "done" /\ \A s \in Buys : s # r => buy'[s] = buy[s]
          /\ \A c \in Buys : c # b => row'[c] = row[c]
      BY <1>2, <2>1 DEF BuyMemory
    <2>3. /\ row'[b].status \in {"none", "pending"}
          /\ (row'[b].status # "none" /\ row'[b].ep = row[b].ep) \/ NotBought(row[b].ep)
      <3>1. CASE row' = [row EXCEPT ![b] = NoRow] /\ (buy[r].ep = None \/ buy[r].note = "noRate")
        BY <1>1, <1>2, <1>9, <3>1 DEF Release, Sure, NoRow
      <3>2. CASE row' = [row EXCEPT ![b] = [row[b] EXCEPT !.lease = "none"]]
        BY <1>1, <1>2, <3>2 DEF Row
      <3>. QED
        BY <2>1, <3>1, <3>2
    <2>4. Sure(r)' /\ Fresh(r)'
      BY <2>2 DEF Sure, Fresh, AtWork
    <2>. QED
      BY <1>1, <1>3, <2>1, <2>2, <2>3, <2>4, WorkKeeps
  <1>10. CASE Finalize(r)
    <2>1. /\ UNCHANGED label /\ buy' = [buy EXCEPT ![r] = [buy[r] EXCEPT !.pc = "done"]]
          /\ row' = [row EXCEPT ![b] = [row[b] EXCEPT !.status = "label_created",
                                          !.lease = "none", !.tracking = buy[r].ep]]
      BY <1>1, <1>10 DEF Finalize, BuyStep, world
    <2>2. /\ buy'[r].pc = "done" /\ \A s \in Buys : s # r => buy'[s] = buy[s]
          /\ \A c \in Buys : c # b => row'[c] = row[c]
      BY <1>2, <2>1 DEF BuyMemory
    <2>3. row'[b].status = "label_created" /\ row'[b].ep = row[b].ep
      BY <1>1, <1>2, <2>1 DEF Row
    <2>4. Sure(r)' /\ Fresh(r)'
      BY <2>2 DEF Sure, Fresh, AtWork
    <2>. QED
      BY <1>1, <1>3, <2>1, <2>2, <2>3, <2>4, WorkKeeps
  <1>11. CASE BuyCrash(r)
    <2>1. UNCHANGED <<row, label>> /\ buy' = [buy EXCEPT ![r] = [buy[r] EXCEPT !.pc = "done"]]
      BY <1>11 DEF BuyCrash, BuyStep, world
    <2>2. buy'[r].pc = "done" /\ \A s \in Buys : s # r => buy'[s] = buy[s]
      BY <1>2, <2>1 DEF BuyMemory
    <2>3. Sure(r)' /\ Fresh(r)'
      BY <2>2 DEF Sure, Fresh, AtWork
    <2>. QED
      BY <1>1, <1>3, <2>1, <2>2, <2>3, WorkKeeps
  <1>. QED
    BY <1>4, <1>5, <1>6, <1>7, <1>8, <1>9, <1>10, <1>11


\* A claim: nobody is at work, for a row at work is live and under a fresh lease.
LEMMA ClaimLabels ==
  ASSUME TypeInv, TypeInv', LabelInv, NEW r \in Buys, Claim(r)
  PROVE  LabelInv'
  <1>1. /\ buy[r].pc = "idle" /\ buy[r].note = "none"
        /\ row[r].status = "none" /\ label[r] = "none"
        /\ UNCHANGED <<order, label, carrier, events, void>>
    BY DEF Claim, world, LabelInv, Sure, Fresh
  <1>2. /\ row \in [Buys -> Row] /\ buy \in [Buys -> BuyMemory]
        /\ buy[r] \in BuyMemory
    BY DEF TypeInv, Typed
  <1>3. \A s \in Buys : AtWork(s) =>
          /\ buy[s].row \in Active
          /\ row[buy[s].row].lease = "fresh"
    BY DEF LabelInv, Sure, TypeInv, Knows, Active, Rows
  \* A row taken under a new lease, the others as they were.
  <1>4. ASSUME NEW b \in Buys, \A s \in Buys : ~AtWork(s),
               buy' = [buy EXCEPT ![r] = [buy[r] EXCEPT !.pc = "load", !.row = b]],
               row'[b].status = "pending" /\ row'[b].lease = "fresh",
               \A c \in Buys : c # b => row'[c] = row[c],
               \A v \in Voids : void[v].pc \in {"refund", "commit"} => void[v].row # b,
               b = r \/ buy[b].pc # "idle",
               OneActive', NoLabelLost'
        PROVE  LabelInv'
    <2>1. /\ buy'[r].pc = "load" /\ buy'[r].row = b /\ buy'[r].note = "none"
          /\ \A s \in Buys : s # r => buy'[s] = buy[s]
      BY <1>1, <1>2, <1>4 DEF BuyMemory
    <2>2. OneAtWork'
      BY <1>4, <2>1 DEF OneAtWork, AtWork
    <2>3. ASSUME NEW s \in Buys PROVE Sure(s)' /\ Fresh(s)'
      <3>1. CASE s = r
        BY <1>1, <1>4, <2>1, <3>1 DEF Sure, Fresh, AtWork
      <3>2. CASE s # r
        <4>1. buy'[s] = buy[s] /\ buy[s].pc \in {"idle", "done"} /\ Sure(s) /\ Fresh(s)
          BY <1>4, <2>1, <3>2 DEF AtWork, LabelInv
        <4>2. buy[s].pc = "idle" => s # b
          BY <1>4, <3>2
        <4>. QED
          BY <1>1, <1>4, <4>1, <4>2 DEF Sure, Fresh, AtWork
      <3>. QED
        BY <3>1, <3>2
    <2>4. ASSUME NEW v \in Voids PROVE Voiding(v)'
      BY <1>1, <1>4 DEF Voiding, LabelInv, TypeInv, Knows
    <2>. QED
      BY <1>4, <2>2, <2>3, <2>4 DEF LabelInv
  <1>5. ASSUME NEW b \in Active, Claimable(b), row' = [row EXCEPT ![b].lease = "fresh"],
               buy' = [buy EXCEPT ![r].pc = "load", ![r].row = b]
        PROVE  LabelInv'
    <2>1. b \in Buys /\ row[b].status = "pending" /\ row[b].lease # "fresh"
      BY <1>5 DEF Claimable, Active, Rows
    <2>2. \A s \in Buys : ~AtWork(s)
      BY <1>3, <2>1 DEF LabelInv, OneActive
    <2>3. /\ row'[b].status = "pending" /\ row'[b].lease = "fresh" /\ row'[b].ep = row[b].ep
          /\ \A c \in Buys : c # b => row'[c] = row[c]
      BY <1>2, <1>5, <2>1 DEF Row
    <2>4. buy' = [buy EXCEPT ![r] = [buy[r] EXCEPT !.pc = "load", !.row = b]]
      BY <1>5
    <2>5. \A v \in Voids : void[v].pc \in {"refund", "commit"} => void[v].row # b
      BY <2>1 DEF LabelInv, Voiding
    <2>6. b = r \/ buy[b].pc # "idle"
      BY <2>1 DEF LabelInv, Fresh
    <2>7. OneActive' /\ NoLabelLost'
      BY <1>1, <2>1, <2>3 DEF LabelInv, OneActive, NoLabelLost, Unused, Active, Rows
    <2>. QED
      BY <1>4, <2>1, <2>2, <2>3, <2>4, <2>5, <2>6, <2>7
  <1>6. CASE /\ Active = {}
             /\ row' = [row EXCEPT ![r] = [NoRow EXCEPT !.status = "pending", !.lease = "fresh"]]
             /\ buy' = [buy EXCEPT ![r].pc = "load", ![r].row = r]
    <2>1. \A s \in Buys : ~AtWork(s)
      BY <1>3, <1>6
    <2>2. /\ row'[r].status = "pending" /\ row'[r].lease = "fresh"
          /\ \A c \in Buys : c # r => row'[c] = row[c]
      BY <1>2, <1>6 DEF NoRow
    <2>3. buy' = [buy EXCEPT ![r] = [buy[r] EXCEPT !.pc = "load", !.row = r]]
      BY <1>6
    <2>4. \A v \in Voids : void[v].pc \in {"refund", "commit"} => void[v].row # r
      BY <1>1 DEF LabelInv, Voiding
    <2>5. OneActive' /\ NoLabelLost'
      BY <1>1, <1>6, <2>2 DEF LabelInv, OneActive, NoLabelLost, Unused, Active, Rows
    <2>. QED
      BY <1>4, <2>1, <2>2, <2>3, <2>4, <2>5
  <1>7. CASE buy' = [buy EXCEPT ![r] = [buy[r] EXCEPT !.pc = "done"]] /\ UNCHANGED row
    <2>1. /\ buy'[r].pc = "done"
          /\ \A s \in Buys : s # r => buy'[s] = buy[s]
      BY <1>2, <1>7 DEF BuyMemory
    <2>2. ASSUME NEW s \in Buys PROVE Sure(s)' /\ Fresh(s)'
      <3>1. CASE s = r
        BY <2>1, <3>1 DEF Sure, Fresh, AtWork
      <3>2. CASE s # r
        BY <1>1, <1>7, <2>1, <3>2 DEF Sure, Fresh, AtWork, LabelInv, NotBought
      <3>. QED
        BY <3>1, <3>2
    <2>3. OneAtWork'
      BY <2>1 DEF OneAtWork, AtWork, LabelInv
    <2>4. ASSUME NEW v \in Voids PROVE Voiding(v)'
      BY <1>1, <1>7 DEF Voiding, LabelInv
    <2>5. OneActive' /\ NoLabelLost'
      BY <1>1, <1>7 DEF LabelInv, OneActive, NoLabelLost, Unused, Active, Rows
    <2>. QED
      BY <2>2, <2>3, <2>4, <2>5 DEF LabelInv
  <1>. QED
    BY <1>5, <1>6, <1>7 DEF Claim, BuyStep

\* Steps of others keep the requests at work sure, if they leave the pending
\* rows, the ids and the new labels alone.
LEMMA OthersKeep ==
  ASSUME TypeInv, TypeInv', LabelInv, UNCHANGED buy,
         \A b \in Buys :
            /\ row'[b].ep = row[b].ep
            /\ row[b].status \in {"none", "pending"} => row'[b].status = row[b].status
            /\ row[b].status \notin {"none", "pending"} =>
                 row'[b].status \in {"label_created", "in_transit", "delivered", "cancelled"}
            /\ row[b].status = "cancelled" => row'[b].status = "cancelled"
            /\ (\E r \in Buys : AtWork(r) /\ buy[r].row = b) => row'[b].lease = row[b].lease,
         \A e \in Buys : label'[e] = label[e] \/ (label[e] = "bought" /\ label'[e] = "refunded"),
         \A e \in Buys : carrier[e] # "none" => carrier'[e] # "none",
         \A v \in Voids : Voiding(v)',
         NoLabelLost'
  PROVE  LabelInv'
  <1>1. OneActive'
    BY DEF LabelInv, OneActive, Active, Rows
  <1>2. OneAtWork'
    BY DEF LabelInv, OneAtWork, AtWork
  <1>3. ASSUME NEW s \in Buys PROVE Sure(s)' /\ Fresh(s)'
    <2>0. Sure(s) /\ Fresh(s)
      BY DEF LabelInv
    <2>1. Fresh(s)'
      BY <2>0 DEF Fresh
    <2>2. CASE AtWork(s)
      <3>. DEFINE b == buy[s].row
      <3>1. b \in Buys /\ row[b].status = "pending" /\ row[b].ep \in MaybeBuy
        BY <2>0, <2>2 DEF TypeInv, Typed, Knows, Sure, Row
      <3>2. /\ row'[b].ep = row[b].ep /\ row'[b].status = row[b].status
            /\ row'[b].lease = row[b].lease
        BY <2>2, <3>1
      <3>3. NotBought(row[b].ep) => NotBought(row[b].ep)'
        BY <3>1, <3>2 DEF NotBought, MaybeBuy
      <3>. QED
        BY <2>0, <2>1, <3>2, <3>3 DEF Sure, AtWork
    <2>3. CASE ~AtWork(s)
      BY <2>0, <2>1, <2>3 DEF Sure, AtWork
    <2>. QED
      BY <2>2, <2>3
  <1>. QED
    BY <1>1, <1>2, <1>3 DEF LabelInv


LEMMA OthersLabels ==
  ASSUME TypeInv, TypeInv', LabelInv, Prompt,
         \/ \E b \in Buys : LeaseExpires(b)
         \/ \E v \in Voids : VoidNext(v)
         \/ CarrierNext \/ TrackerNext \/ RefundOrder
  PROVE  LabelInv'
  <1>0. /\ row \in [Buys -> Row] /\ void \in [Voids -> VoidMemory]
        /\ label \in [Buys -> LabelStatus] /\ carrier \in [Buys -> {"none"} \cup Scans]
        /\ \A v \in Voids : Voiding(v)
        /\ NoLabelLost
    BY DEF TypeInv, Typed, LabelInv
  <1>1. ASSUME NEW b \in Buys, LeaseExpires(b) PROVE LabelInv'
    <2>1. /\ UNCHANGED <<order, label, carrier, events, buy, void>> /\ ~Working(b)
          /\ row' = [row EXCEPT ![b] = [row[b] EXCEPT !.lease = "stale"]]
      BY <1>1 DEF LeaseExpires, world, Prompt
    <2>2. /\ \A c \in Buys : row'[c].ep = row[c].ep /\ row'[c].status = row[c].status
          /\ \A c \in Buys : c # b => row'[c] = row[c]
      BY <1>0, <2>1 DEF Row
    <2>3. \A c \in Buys : (\E r \in Buys : AtWork(r) /\ buy[r].row = c) => c # b
      BY <2>1 DEF Working, AtWork
    <2>4. NoLabelLost'
      BY <1>0, <2>1, <2>2 DEF NoLabelLost, Unused, Active, Rows
    <2>5. \A v \in Voids : Voiding(v)'
      BY <1>0, <2>1, <2>2 DEF Voiding, TypeInv, Knows
    <2>6. \A c \in Buys : row[c].status \in RowStatus
      BY <1>0 DEF Row
    <2>. QED
      BY <2>1, <2>2, <2>3, <2>4, <2>5, <2>6, OthersKeep DEF RowStatus
  <1>2. ASSUME NEW v \in Voids, NEW b \in Buys, CheckVoid(v, b) PROVE LabelInv'
    <2>1. /\ UNCHANGED <<row, order, label, carrier, events, buy>>
          /\ void' = [void EXCEPT ![v] = [pc |-> "refund", row |-> b, ep |-> row[b].ep]]
          /\ row[b].status = "label_created"
      BY <1>2 DEF CheckVoid, world
    <2>2. \A w \in Voids : Voiding(w)'
      BY <1>0, <2>1 DEF Voiding
    <2>3. NoLabelLost'
      BY <1>0, <2>1 DEF NoLabelLost, Unused, Active, Rows
    <2>4. \A c \in Buys : row[c].status \in RowStatus
      BY <1>0 DEF Row
    <2>. QED
      BY <2>1, <2>2, <2>3, <2>4, OthersKeep DEF RowStatus
  <1>3. ASSUME NEW v \in Voids, Refund(v) PROVE LabelInv'
    <2>. DEFINE e == void[v].ep
    <2>1. /\ UNCHANGED <<row, order, carrier, events, buy>> /\ void[v].pc = "refund"
          /\ e \in Buys /\ void[v].row \in Buys /\ void[v] \in VoidMemory
      BY <1>0, <1>3 DEF Refund, TypeInv, Knows
    <2>2. /\ \A d \in Buys : d # e => label'[d] = label[d]
          /\ \/ label'[e] = label[e]
             \/ label[e] \in {"bought", "refunded"} /\ label'[e] = "refunded"
          /\ \A w \in Voids : w # v => void'[w] = void[w]
          /\ void'[v].row = void[v].row /\ void'[v].ep = e
          /\ \/ void'[v].pc = "done"
             \/ /\ void'[v].pc = "commit"
                /\ label'[e] = "refunded" \/ (label'[e] = "bought" /\ carrier[e] # "none")
      <3>1. \/ /\ void' = [void EXCEPT ![v] = [void[v] EXCEPT !.pc = "done"]]
               /\ UNCHANGED label
            \/ /\ label[e] \in {"bought", "refunded"}
               /\ label' = [label EXCEPT ![e] = IF carrier[e] = "none" THEN "refunded" ELSE label[e]]
               /\ \E pc \in {"commit", "done"} :
                     void' = [void EXCEPT ![v] = [void[v] EXCEPT !.pc = pc]]
        BY <1>3 DEF Refund, VoidStep, BoughtAt
      <3>2. ASSUME NEW pc \in {"commit", "done"},
                   void' = [void EXCEPT ![v] = [void[v] EXCEPT !.pc = pc]]
            PROVE  /\ \A w \in Voids : w # v => void'[w] = void[w]
                   /\ void'[v].row = void[v].row /\ void'[v].ep = e /\ void'[v].pc = pc
        BY <1>0, <2>1, <3>2 DEF VoidMemory
      <3>3. CASE /\ void' = [void EXCEPT ![v] = [void[v] EXCEPT !.pc = "done"]]
                 /\ UNCHANGED label
        BY <3>2, <3>3
      <3>4. ASSUME NEW pc \in {"commit", "done"},
                   label[e] \in {"bought", "refunded"},
                   label' = [label EXCEPT ![e] = IF carrier[e] = "none" THEN "refunded" ELSE label[e]],
                   void' = [void EXCEPT ![v] = [void[v] EXCEPT !.pc = pc]]
            PROVE  /\ \A d \in Buys : d # e => label'[d] = label[d]
                   /\ \/ label'[e] = label[e]
                      \/ label[e] \in {"bought", "refunded"} /\ label'[e] = "refunded"
                   /\ label'[e] = "refunded" \/ (label'[e] = "bought" /\ carrier[e] # "none")
        BY <1>0, <2>1, <3>4
      <3>. QED
        BY <3>1, <3>2, <3>3, <3>4
    <2>3. \A w \in Voids : Voiding(w)'
      <3>. SUFFICES ASSUME NEW w \in Voids PROVE Voiding(w)'
        OBVIOUS
      <3>1. CASE w = v
        BY <1>0, <2>1, <2>2, <3>1 DEF Voiding
      <3>2. CASE w # v
        <4>1. void'[w] = void[w] /\ Voiding(w)
          BY <1>0, <2>2, <3>2
        <4>2. void[w].pc = "commit" => void[w].ep \in Buys
          BY DEF TypeInv, Knows
        <4>3. void[w].pc = "commit" =>
                label'[void[w].ep] = "refunded"
                \/ (label'[void[w].ep] = "bought" /\ carrier[void[w].ep] # "none")
          BY <2>2, <4>1, <4>2 DEF Voiding
        <4>. QED
          BY <2>1, <4>1, <4>3 DEF Voiding
      <3>. QED
        BY <3>1, <3>2
    <2>4. NoLabelLost'
      BY <1>0, <2>1, <2>2 DEF NoLabelLost, Unused, Active, Rows
    <2>5. \A c \in Buys : row[c].status \in RowStatus
      BY <1>0 DEF Row
    <2>. QED
      BY <2>1, <2>2, <2>3, <2>4, <2>5, OthersKeep DEF RowStatus
  <1>4. ASSUME NEW v \in Voids, CommitVoid(v) \/ VoidCrash(v) PROVE LabelInv'
    <2>. DEFINE b == void[v].row
                e == void[v].ep
    <2>1. /\ UNCHANGED <<order, label, carrier, events, buy>>
          /\ b \in Buys /\ void[v] \in VoidMemory
          /\ void' = [void EXCEPT ![v] = [void[v] EXCEPT !.pc = "done"]]
          /\ row[b].ep = e
      BY <1>0, <1>4 DEF CommitVoid, VoidCrash, VoidStep, world, TypeInv, Knows, Voiding
    <2>2. /\ void'[v].pc = "done"
          /\ \A w \in Voids : w # v => void'[w] = void[w]
      BY <1>0, <2>1 DEF VoidMemory
    <2>3. /\ \A c \in Buys : row'[c].ep = row[c].ep
          /\ \A c \in Buys :
               \/ row'[c] = row[c]
               \/ /\ c = b /\ row[c].status = "label_created" /\ row'[c].status = "cancelled"
                  /\ void[v].pc = "commit"
      <3>1. CASE UNCHANGED row
        BY <3>1
      <3>2. CASE /\ void[v].pc = "commit" /\ row[b].status = "label_created"
                 /\ row' = [row EXCEPT ![b] = [row[b] EXCEPT !.status = "cancelled"]]
        BY <1>0, <2>1, <3>2 DEF Row
      <3>. QED
        BY <1>4, <3>1, <3>2 DEF CommitVoid, VoidCrash
    <2>4. \A w \in Voids : Voiding(w)'
      <3>. SUFFICES ASSUME NEW w \in Voids PROVE Voiding(w)'
        OBVIOUS
      <3>1. CASE w = v
        BY <2>2, <3>1 DEF Voiding
      <3>2. CASE w # v
        <4>1. void'[w] = void[w] /\ Voiding(w)
          BY <1>0, <2>2, <3>2
        <4>2. void[w].pc \in {"refund", "commit"} => void[w].row \in Buys
          BY DEF TypeInv, Knows
        <4>. QED
          BY <2>1, <2>3, <4>1, <4>2 DEF Voiding
      <3>. QED
        BY <3>1, <3>2
    \* The shipment that is cancelled was the unused label's no longer.
    <2>5. NoLabelLost'
      <3>. SUFFICES ASSUME NEW d \in Buys, label[d] = "bought", carrier[d] = "none"
                    PROVE  \E a \in Buys : row'[a].status \notin {"none", "cancelled"} /\ row'[a].ep = d
        BY <2>1 DEF NoLabelLost, Unused, Active, Rows
      <3>1. PICK a \in Buys : row[a].status \notin {"none", "cancelled"} /\ row[a].ep = d
        BY <1>0 DEF NoLabelLost, Unused, Active, Rows
      <3>2. void[v].pc = "commit" => a # b
        BY <1>0, <2>1, <3>1 DEF Voiding
      <3>. QED
        BY <2>3, <3>1, <3>2
    <2>6. \A c \in Buys : row[c].status \in RowStatus
      BY <1>0 DEF Row
    <2>7. \A c \in Buys : (\E r \in Buys : AtWork(r) /\ buy[r].row = c) => row[c].status = "pending"
      BY DEF LabelInv, Sure
    <2>. QED
      BY <2>1, <2>3, <2>4, <2>5, <2>6, <2>7, OthersKeep DEF RowStatus
  <1>5. CASE CarrierNext
    <2>1. PICK e \in Buys, scan \in Scans :
            carrier' = [carrier EXCEPT ![e] = scan] /\ UNCHANGED <<order, row, label, buy, void>>
      BY <1>5 DEF CarrierNext, Scan
    <2>2. \A d \in Buys : carrier[d] # "none" => carrier'[d] # "none"
      BY <1>0, <2>1 DEF Scans
    <2>3. \A v \in Voids : Voiding(v)'
      BY <1>0, <2>1, <2>2 DEF Voiding, TypeInv, Knows
    <2>4. NoLabelLost'
      BY <1>0, <2>1, <2>2 DEF NoLabelLost, Unused, Active, Rows
    <2>5. \A c \in Buys : row[c].status \in RowStatus
      BY <1>0 DEF Row
    <2>. QED
      BY <2>1, <2>2, <2>3, <2>4, <2>5, OthersKeep DEF RowStatus
  <1>6. ASSUME NEW ev \in events, Tracker(ev) PROVE LabelInv'
    <2>1. UNCHANGED <<label, carrier, buy, void>>
      BY <1>6 DEF Tracker
    <2>2. \A c \in Buys :
            \/ row'[c] = row[c]
            \/ /\ row[c].status \in {"label_created", "in_transit", "delivered"}
               /\ row'[c].status \in {"label_created", "in_transit", "delivered"}
               /\ row'[c].ep = row[c].ep /\ row'[c].lease = row[c].lease
      <3>1. CASE UNCHANGED row
        BY <3>1
      <3>2. ASSUME NEW b \in Buys, row[b].status \in {"label_created", "in_transit", "delivered"},
                   row' = [row EXCEPT ![b] = [row[b] EXCEPT !.status = Tracked(b, ev.scan)]]
            PROVE  \A c \in Buys :
                     \/ row'[c] = row[c]
                     \/ /\ row[c].status \in {"label_created", "in_transit", "delivered"}
                        /\ row'[c].status \in {"label_created", "in_transit", "delivered"}
                        /\ row'[c].ep = row[c].ep /\ row'[c].lease = row[c].lease
        <4>1. Tracked(b, ev.scan) \in {"label_created", "in_transit", "delivered"}
          BY <3>2 DEF Tracked, TypeInv, Typed, Scans
        <4>. QED
          BY <1>0, <3>2, <4>1 DEF Row
      <3>3. ASSUME NEW b \in ShipmentsOf(ev.ep), ApplyUpdate(b, ev.scan)
            PROVE  \/ UNCHANGED row
                   \/ /\ b \in Buys /\ row[b].status \in {"label_created", "in_transit", "delivered"}
                      /\ row' = [row EXCEPT ![b] = [row[b] EXCEPT !.status = Tracked(b, ev.scan)]]
        BY <3>3 DEF ApplyUpdate, ShipmentsOf, Active, Rows
      <3>. QED
        BY <1>6, <3>1, <3>2, <3>3 DEF Tracker
    <2>3. \A v \in Voids : Voiding(v)'
      BY <1>0, <2>1, <2>2 DEF Voiding, TypeInv, Knows
    <2>4. NoLabelLost'
      BY <1>0, <2>1, <2>2 DEF NoLabelLost, Unused, Active, Rows
    <2>5. \A c \in Buys : row[c].status \in RowStatus
      BY <1>0 DEF Row
    <2>. QED
      BY <2>1, <2>2, <2>3, <2>4, <2>5, OthersKeep DEF RowStatus
  <1>7. CASE RefundOrder
    <2>1. UNCHANGED <<row, label, carrier, buy, void>>
      BY <1>7 DEF RefundOrder
    <2>2. (\A v \in Voids : Voiding(v)') /\ NoLabelLost'
      BY <1>0, <2>1 DEF Voiding, NoLabelLost, Unused, Active, Rows
    <2>3. \A c \in Buys : row[c].status \in RowStatus
      BY <1>0 DEF Row
    <2>. QED
      BY <2>1, <2>2, <2>3, OthersKeep DEF RowStatus
  <1>. QED
    BY <1>1, <1>2, <1>3, <1>4, <1>5, <1>6, <1>7 DEF VoidNext, TrackerNext


\* The labels of an order are the ones its requests know of.
THEOREM LabelInvariance == ASSUME Prompt PROVE Spec => [](TypeInv /\ LabelInv)
  <1>1. TypeInv /\ LabelInv /\ [Next]_vars => LabelInv'
    <2>. SUFFICES ASSUME TypeInv, LabelInv, [Next]_vars PROVE LabelInv'
      OBVIOUS
    <2>0. TypeInv'
      BY StepTyped
    <2>1. CASE UNCHANGED vars
      BY <2>1 DEF vars, LabelInv, OneActive, OneAtWork, Sure, Fresh, Voiding, NoLabelLost,
         Unused, Active, Rows, AtWork, NotBought
    <2>2. ASSUME NEW r \in Buys, BuyNext(r) PROVE LabelInv'
      BY <2>0, <2>2, ClaimLabels, WorkLabels, OthersLabels DEF BuyNext
    <2>. QED
      BY <2>0, <2>1, <2>2, OthersLabels DEF Next
  <1>. QED
    BY <1>1, InitTyped, InitLabels, StepTyped, PTL DEF Spec

\* A label that is paid for and not used is the one of a live shipment, where
\* the next attempt or a void finds it (shipment_service.ts:12, 15-22), however
\* many requests buy and void, fail, die and lose their answers.
THEOREM LabelsKept == ASSUME Prompt PROVE Spec => []NoLabelLost
  <1>1. LabelInv => NoLabelLost
    BY DEF LabelInv
  <1>. QED
    BY <1>1, LabelInvariance, PTL

\* No label is bought while another one is paid for and not used
\* (shipment_service.ts:12).
THEOREM BuysOnce == ASSUME Prompt PROVE Spec => []BoughtOnce
  <1>1. LabelInv => BoughtOnce
    <2>. SUFFICES ASSUME LabelInv PROVE Cardinality(Unused) <= 1
      BY DEF BoughtOnce
    <2>1. \A d, e \in Unused : d = e
      BY DEF LabelInv, NoLabelLost, OneActive
    <2>2. CASE Unused = {}
      BY <2>2, FS_EmptySet
    <2>3. CASE Unused # {}
      <3>1. PICK e : Unused = {e}
        BY <2>1, <2>3
      <3>. QED
        BY <3>1, FS_Singleton
    <2>. QED
      BY <2>2, <2>3
  <1>. QED
    BY <1>1, LabelInvariance, PTL

\* A shipment never goes back: not by events out of order, a void after a scan,
\* or a retry (shipment_tracking_service.ts:32, shipment_service.ts:330-332).
THEOREM MovesForward == ASSUME Prompt PROVE Spec => ForwardOnly
  <1>. DEFINE Forward == \A b \in Buys :
                LET old == row[b].status
                    new == row'[b].status IN
                /\ old = "cancelled" => new = "cancelled"
                /\ old \in {"label_created", "in_transit", "delivered"} =>
                      \/ new # "none" /\ new # "cancelled" /\ Rank(new) >= Rank(old)
                      \/ new = "cancelled" /\ old = "label_created"
  <1>1. TypeInv /\ LabelInv /\ [Next]_vars => Forward
    <2>. SUFFICES ASSUME TypeInv, LabelInv, [Next]_vars, NEW c \in Buys
                  PROVE  LET old == row[c].status
                             new == row'[c].status IN
                         /\ old = "cancelled" => new = "cancelled"
                         /\ old \in {"label_created", "in_transit", "delivered"} =>
                               \/ new # "none" /\ new # "cancelled" /\ Rank(new) >= Rank(old)
                               \/ new = "cancelled" /\ old = "label_created"
      OBVIOUS
    <2>0. row \in [Buys -> Row] /\ events \subseteq [ep : Buys, scan : Scans]
      BY DEF TypeInv, Typed
    <2>1. CASE row'[c].status = row[c].status
      BY <2>1 DEF Rank
    <2>2. CASE row[c].status \in {"none", "pending"}
      BY <2>2
    <2>3. ASSUME NEW r \in Buys, BuyNext(r)
          PROVE  row'[c].status = row[c].status \/ row[c].status \in {"none", "pending"}
      <3>1. CASE Claim(r)
        BY <2>0, <3>1 DEF Claim, Claimable, Active, Rows, LabelInv, Fresh, Row
      <3>2. CASE Release(r) \/ Finalize(r) \/ SaveId(r)
        <4>1. AtWork(r) /\ buy[r].row \in Buys /\ row[buy[r].row].status = "pending"
          BY <3>2 DEF Release, Finalize, SaveId, AtWork, LabelInv, Sure, TypeInv, Knows
        <4>2. \A d \in Buys : d # buy[r].row => row'[d] = row[d]
          BY <2>0, <3>2, <4>1 DEF Release, Finalize, SaveId
        <4>. QED
          BY <4>1, <4>2
      <3>3. CASE UNCHANGED row
        BY <3>3
      <3>4. ASSUME NEW b \in Buys, LeaseExpires(b) PROVE row'[c].status = row[c].status
        BY <2>0, <3>4 DEF LeaseExpires, Row
      <3>. QED
        BY <2>3, <3>1, <3>2, <3>3, <3>4 DEF BuyNext, Load, LookUp, Create, Buy, BuyCrash, world
    <2>4. ASSUME NEW v \in Voids, VoidNext(v)
          PROVE  \/ row'[c].status = row[c].status
                 \/ row[c].status = "label_created" /\ row'[c].status = "cancelled"
      <3>1. CASE UNCHANGED row
        BY <3>1
      <3>2. CASE CommitVoid(v)
        <4>1. void[v].row \in Buys
          BY <3>2 DEF CommitVoid, TypeInv, Knows
        <4>. QED
          BY <2>0, <3>2, <4>1 DEF CommitVoid, Row
      <3>. QED
        BY <2>4, <3>1, <3>2 DEF VoidNext, CheckVoid, Refund, VoidCrash, world
    <2>5. ASSUME NEW ev \in events, Tracker(ev)
          PROVE  \/ row'[c].status = row[c].status
                 \/ /\ row[c].status \in {"label_created", "in_transit", "delivered"}
                    /\ row'[c].status \in Scans /\ Rank(row'[c].status) > Rank(row[c].status)
      <3>1. CASE UNCHANGED row
        BY <3>1
      <3>2. ASSUME NEW b \in Buys, row[b].status \in {"label_created", "in_transit", "delivered"},
                   row' = [row EXCEPT ![b].status = Tracked(b, ev.scan)]
            PROVE  \/ row'[c].status = row[c].status
                   \/ /\ row[c].status \in {"label_created", "in_transit", "delivered"}
                      /\ row'[c].status \in Scans /\ Rank(row'[c].status) > Rank(row[c].status)
        <4>1. CASE c # b
          BY <2>0, <3>2, <4>1
        <4>2. CASE c = b
          <5>1. row'[c].status = Tracked(b, ev.scan) /\ ev.scan \in Scans
            BY <2>0, <3>2, <4>2 DEF Row
          <5>. QED
            BY <3>2, <4>2, <5>1 DEF Tracked
        <4>. QED
          BY <4>1, <4>2
      <3>3. ASSUME NEW b \in ShipmentsOf(ev.ep), ApplyUpdate(b, ev.scan)
            PROVE  \/ UNCHANGED row
                   \/ /\ b \in Buys /\ row[b].status \in {"label_created", "in_transit", "delivered"}
                      /\ row' = [row EXCEPT ![b].status = Tracked(b, ev.scan)]
        BY <3>3 DEF ApplyUpdate, ShipmentsOf, Active, Rows
      <3>. QED
        BY <2>5, <3>1, <3>2, <3>3 DEF Tracker
    <2>6. CASE CarrierNext \/ RefundOrder \/ UNCHANGED vars
      BY <2>1, <2>6 DEF CarrierNext, Scan, RefundOrder, vars
    <2>7. CASE row[c].status = "label_created" /\ row'[c].status = "cancelled"
      BY <2>7
    <2>8. CASE /\ row[c].status \in {"label_created", "in_transit", "delivered"}
               /\ row'[c].status \in Scans /\ Rank(row'[c].status) > Rank(row[c].status)
      BY <2>8 DEF Rank, Scans
    <2>. QED
      BY <2>1, <2>2, <2>3, <2>4, <2>5, <2>6, <2>7, <2>8 DEF Next, TrackerNext
  <1>. QED
    BY <1>1, LabelInvariance, PTL DEF Spec, ForwardOnly
=============================================================================
