--------------------------- MODULE EarningsProofs ---------------------------
(***************************************************************************)
(* Proofs about Earnings, for any items, materials, rates and number of    *)
(* requests at once.                                                       *)
(***************************************************************************)
EXTENDS Earnings, TLAPS

(***************************************************************************)
(* The inductive invariant.                                                *)
(***************************************************************************)

\* Whoever found the payout pending has it locked, alone, until the commit.
LockHeld ==
    /\ \A s \in Changing : run[s].found =>
            /\ payout.status = "pending"
            /\ run[s].at \in {"selected", "computed"}
    /\ \A s, t \in Changing : run[s].found /\ run[t].found => s = t
    /\ \A s \in Changing : run[s].at = "computed" => run[s].found /\ run[s].lines \in Breakdown

JobAt == {"idle", "listed", "sending", "answered"}

\* The amount the job holds is the row's, while the payout is processing.
SendsClaimed ==
    job.at = "sending" /\ payout.status = "processing" => job.amount = payout.amount

\* Every line of a breakdown is of the material its part has in mat.
OfMaterials(lines, mat) == \A i \in Items : lines[i].material = mat[i]

\* While no change was missed, what an acceptance or a change holds computed is
\* what the parts will be when it commits.
ComputedFresh ==
    ~missed =>
        /\ \A s \in Accepting : payout.status = "none" => OfMaterials(run[s].lines, material)
        /\ \A s \in Changing : run[s].at = "computed" => OfMaterials(run[s].lines, AsSaved(s))

IInv ==
    /\ TypeOK
    /\ LockHeld
    /\ SendsClaimed
    /\ ComputedFresh
    /\ WithinTheOrder
    /\ SentAsRecorded
    /\ FollowsMaterial

-----------------------------------------------------------------------------
(***************************************************************************)
(* The calculation.                                                        *)
(***************************************************************************)

\* A share of at most the whole, rounded to the nearest cent, is at most the
\* whole.
LEMMA ShareBounded ==
  ASSUME NEW c \in Nat, NEW p \in 0 .. Whole
  PROVE  Share(c, p) \in 0 .. c
  <1>1. c * p \in Nat /\ c * p <= c * Whole
    BY DEF Whole
  <1> DEFINE x == c * p
  <1>2. x \in Nat /\ x <= 10000 * c
    BY <1>1 DEF Whole
  <1>3. (2 * x + 10000) \div 20000 \in 0 .. c
    <2> HIDE DEF x
    <2>. QED BY <1>2
  <1>4. Share(c, p) = (2 * x + 10000) \div 20000
    BY DEF Share, Whole
  <1>. QED BY <1>3, <1>4

\* No line of a breakdown is more than its item's total.
LEMMA LinesBounded ==
  ASSUME NEW lines \in Breakdown
  PROVE  \A i \in Items : LineCents(lines)[i] \in 0 .. ItemTotal[i]
  <1> TAKE i \in Items
  <1>1. ItemTotal[i] \in Nat /\ lines[i].percentage \in 0 .. Whole
    BY EarningsAssumption DEF Breakdown
  <1>2. Share(ItemTotal[i], lines[i].percentage) \in 0 .. ItemTotal[i]
    BY <1>1, ShareBounded
  <1>. QED BY <1>2 DEF LineCents

\* A breakdown of rated parts is one, of their materials.
LEMMA LinesTyped ==
  ASSUME TypeOK, NEW mat \in [Items -> Materials], Ratable(mat)
  PROVE  Lines(mat) \in Breakdown /\ OfMaterials(Lines(mat), mat)
  BY DEF TypeOK, Ratable, Lines, Breakdown, OfMaterials

\* A request that holds the payout's lock is in the middle of a change.
LEMMA RequestTyped ==
  ASSUME TypeOK, NEW s \in Slots
  PROVE  /\ run[s] \in Requests
         /\ run[s].op = "accept" => run[s].lines \in Breakdown
         /\ run[s].op = "change" => /\ run[s].item \in Items /\ run[s].to \in Materials
                                    /\ run[s].found \in BOOLEAN
                                    /\ AsSaved(s) \in [Items -> Materials]
  BY DEF TypeOK, Requests, AsSaved

-----------------------------------------------------------------------------
(***************************************************************************)
(* The initial states.                                                     *)
(***************************************************************************)

LEMMA InitIInv == Init => IInv
  <1> SUFFICES ASSUME Init PROVE IInv
    OBVIOUS
  <1>1. TypeOK
    <2>1. payout.status = "none" /\ order = "open"
      BY DEF Init
    <2>2. run \in [Slots -> Requests]
      BY DEF Init, Requests, Idle
    <2>3. material \in [Items -> Materials] /\ rate \in [Materials -> Percentages \cup {None}]
      BY EarningsAssumption DEF Init
    <2>4. ratings \in 0 .. MaxRatings
      BY EarningsAssumption DEF Init
    <2>5. order \in OrderStatus /\ payout.status \in PayoutStatus
      BY <2>1 DEF OrderStatus, PayoutStatus
    <2>6. job.at \in JobAt /\ missed \in BOOLEAN /\ overtaken \in BOOLEAN
      BY DEF Init, Rest, Job, JobAt
    <2>. QED
      BY <2>1, <2>2, <2>3, <2>4, <2>5, <2>6 DEF TypeOK, JobAt
  <1>2. Changing = {} /\ Accepting = {}
    BY DEF Init, Changing, Accepting, Idle
  <1>3. LockHeld /\ ComputedFresh
    BY <1>2 DEF LockHeld, ComputedFresh
  <1>4. SendsClaimed /\ WithinTheOrder /\ SentAsRecorded /\ FollowsMaterial
    BY DEF Init, Rest, Job, SendsClaimed, WithinTheOrder, SentAsRecorded, FollowsMaterial
  <1>. QED
    BY <1>1, <1>3, <1>4 DEF IInv

-----------------------------------------------------------------------------
(***************************************************************************)
(* Rates, acceptance, production.                                          *)
(***************************************************************************)

LEMMA UpdateRateKeeps ==
  ASSUME IInv, NEW m \in Materials, NEW p \in Percentages, UpdateRate(m, p)
  PROVE  IInv'
  <1>1. TypeOK'
    BY EarningsAssumption DEF IInv, TypeOK, UpdateRate
  <1>2. UNCHANGED <<material, payout, taken, job, run, missed, overtaken>>
    BY DEF UpdateRate
  <1>3. LockHeld' /\ ComputedFresh'
    BY <1>2 DEF IInv, LockHeld, ComputedFresh, Changing, Accepting, AsSaved, OfMaterials
  <1>4. SendsClaimed' /\ SentAsRecorded' /\ FollowsMaterial'
    BY <1>2 DEF IInv, SendsClaimed, SentAsRecorded, FollowsMaterial
  <1>5. WithinTheOrder'
    BY <1>2 DEF IInv, WithinTheOrder
  <1>. QED
    BY <1>1, <1>3, <1>4, <1>5 DEF IInv

LEMMA AcceptReadKeeps ==
  ASSUME IInv, NEW s \in Slots, AcceptRead(s)
  PROVE  IInv'
  <1>1. UNCHANGED <<material, rate, order, payout, taken, job, ratings, missed, overtaken>>
    BY DEF AcceptRead
  <1>2. Lines(material) \in Breakdown /\ OfMaterials(Lines(material), material)
    BY LinesTyped DEF IInv, TypeOK, AcceptRead
  <1>3. run' = [run EXCEPT ![s] = [op |-> "accept", lines |-> Lines(material)]]
    BY DEF AcceptRead, Continue
  <1>4. TypeOK'
    BY <1>1, <1>2, <1>3 DEF IInv, TypeOK, Requests
  <1>5. Changing' = Changing /\ \A t \in Changing : run'[t] = run[t]
    BY <1>3 DEF IInv, TypeOK, Changing, AcceptRead, Idle
  <1>6. LockHeld'
    BY <1>1, <1>5 DEF IInv, LockHeld
  <1>7. ComputedFresh'
    BY <1>1, <1>2, <1>3, <1>5
    DEF IInv, TypeOK, ComputedFresh, Accepting, AsSaved, OfMaterials, Changing
  <1>8. SendsClaimed' /\ SentAsRecorded' /\ FollowsMaterial' /\ WithinTheOrder'
    BY <1>1 DEF IInv, SendsClaimed, SentAsRecorded, FollowsMaterial, WithinTheOrder
  <1>. QED
    BY <1>4, <1>6, <1>7, <1>8 DEF IInv

LEMMA AcceptCommitKeeps ==
  ASSUME IInv, NEW s \in Slots, AcceptCommit(s)
  PROVE  IInv'
  <1>1. UNCHANGED <<material, rate, taken, job, ratings, missed, overtaken>>
    BY DEF AcceptCommit
  <1>2. run[s].op = "accept" /\ run[s].lines \in Breakdown
    BY RequestTyped DEF IInv, AcceptCommit
  <1>3. run' = [run EXCEPT ![s] = Idle]
    BY DEF AcceptCommit, Ends
  <1>4. Changing' = Changing /\ \A t \in Changing : run'[t] = run[t]
    BY <1>2, <1>3 DEF IInv, TypeOK, Changing, Idle
  <1>5. Accepting' = Accepting \ {s} /\ \A t \in Accepting' : run'[t] = run[t]
    BY <1>3 DEF IInv, TypeOK, Accepting, Idle
  <1>6. CASE order = "open"
    <2>1. payout.status = "none" /\ (taken = None \/ overtaken)
      BY <1>6 DEF IInv, TypeOK, SentAsRecorded
    <2>2. /\ order' = "accepted"
          /\ payout' = [status |-> "pending", lines |-> run[s].lines,
                        amount |-> Total(run[s].lines)]
      BY <1>6 DEF AcceptCommit
    <2>3. payout'.status # "none"
      BY <2>2, <1>2, <2>1, <1>1 DEF IInv, TypeOK
    <2>4. TypeOK'
      <3>1. payout'.status \in PayoutStatus /\ payout'.lines \in Breakdown
            /\ DOMAIN payout' = {"status", "lines", "amount"}
        BY <2>2, <1>2 DEF PayoutStatus
      <3>. QED
        BY <1>1, <1>3, <2>2, <2>3, <3>1 DEF IInv, TypeOK, OrderStatus, Requests, Idle
    <2>5. \A t \in Changing : ~run[t].found
      BY <2>1, RequestTyped DEF IInv, LockHeld, Changing
    <2>6. LockHeld'
      BY <1>4, <2>5 DEF IInv, LockHeld
    <2>7. ComputedFresh'
      BY <1>1, <1>4, <2>3 DEF IInv, ComputedFresh, AsSaved, OfMaterials
    <2>8. SendsClaimed' /\ SentAsRecorded'
      BY <1>1, <2>1, <2>2 DEF SendsClaimed, SentAsRecorded
    <2>9. WithinTheOrder'
      BY <1>2, <2>2, LinesBounded DEF WithinTheOrder
    <2>10. FollowsMaterial'
      BY <1>1, <1>2, <2>1, <2>2 DEF IInv, ComputedFresh, FollowsMaterial, Accepting, OfMaterials
    <2>. QED
      BY <2>4, <2>6, <2>7, <2>8, <2>9, <2>10 DEF IInv
  <1>7. CASE order # "open"
    <2>1. UNCHANGED <<order, payout>>
      BY <1>7 DEF AcceptCommit
    <2>2. TypeOK'
      BY <1>1, <1>3, <2>1 DEF IInv, TypeOK, Requests, Idle
    <2>3. LockHeld' /\ ComputedFresh'
      BY <1>1, <1>4, <1>5, <2>1 DEF IInv, LockHeld, ComputedFresh, AsSaved, OfMaterials
    <2>4. SendsClaimed' /\ SentAsRecorded' /\ FollowsMaterial' /\ WithinTheOrder'
      BY <1>1, <2>1 DEF IInv, SendsClaimed, SentAsRecorded, FollowsMaterial, WithinTheOrder
    <2>. QED
      BY <2>2, <2>3, <2>4 DEF IInv
  <1>. QED
    BY <1>6, <1>7

LEMMA ProceedKeeps ==
  ASSUME IInv, Proceed
  PROVE  IInv'
  <1>1. UNCHANGED <<material, rate, payout, taken, job, run, ratings, missed, overtaken>>
    BY DEF Proceed
  <1>2. order # "open" /\ order' # "open" /\ order' \in OrderStatus
    BY DEF Proceed, Produce, Deliver, OrderStatus
  <1>3. TypeOK'
    BY <1>1, <1>2 DEF IInv, TypeOK
  <1>4. LockHeld' /\ ComputedFresh'
    BY <1>1 DEF IInv, LockHeld, ComputedFresh, Changing, Accepting, AsSaved, OfMaterials
  <1>5. SendsClaimed' /\ SentAsRecorded' /\ FollowsMaterial' /\ WithinTheOrder'
    BY <1>1 DEF IInv, SendsClaimed, SentAsRecorded, FollowsMaterial, WithinTheOrder
  <1>. QED
    BY <1>3, <1>4, <1>5 DEF IInv

-----------------------------------------------------------------------------
(***************************************************************************)
(* The steps of a change.                                                  *)
(***************************************************************************)

\* A change's steps before its commit move the request only.
QuietChange ==
    UNCHANGED <<material, rate, order, payout, taken, job, ratings, missed, overtaken>>

LEMMA QuietKeeps ==
  ASSUME IInv, QuietChange
  PROVE  SendsClaimed' /\ SentAsRecorded' /\ FollowsMaterial' /\ WithinTheOrder'
  BY DEF IInv, QuietChange, SendsClaimed, SentAsRecorded, FollowsMaterial, WithinTheOrder

LEMMA ChangeReadKeeps ==
  ASSUME IInv, NEW s \in Slots, NEW i \in Items, NEW m \in Materials, ChangeRead(s, i, m)
  PROVE  IInv'
  <1> DEFINE r == [op |-> "change", at |-> "checked", item |-> i, to |-> m,
                   found |-> FALSE, lines |-> None]
  <1>1. QuietChange /\ run[s] = Idle /\ run' = [run EXCEPT ![s] = r]
    BY DEF ChangeRead, Continue, QuietChange
  <1>2. TypeOK'
    <2>1. r \in Requests
      BY DEF Requests
    <2>. QED
      BY <1>1, <2>1 DEF IInv, TypeOK, QuietChange
  <1>3. run'[s] = r /\ \A t \in Slots \ {s} : run'[t] = run[t]
    BY <1>1 DEF IInv, TypeOK
  <1>4. LockHeld' /\ ComputedFresh'
    BY <1>1, <1>3
    DEF IInv, LockHeld, ComputedFresh, QuietChange, Changing, Accepting, Idle, AsSaved, OfMaterials
  <1>. QED
    BY <1>1, <1>2, <1>4, QuietKeeps DEF IInv

LEMMA ChangeSaveKeeps ==
  ASSUME IInv, NEW s \in Slots, ChangeSave(s)
  PROVE  IInv'
  <1>1. QuietChange /\ run[s].op = "change" /\ run[s].at = "checked"
        /\ run' = [run EXCEPT ![s] = [run[s] EXCEPT !.at = "saved"]]
    BY DEF ChangeSave, Continue, QuietChange
  <1>2. run[s] \in Requests /\ ~run[s].found
    BY <1>1, RequestTyped DEF IInv, LockHeld, Changing
  <1>3. TypeOK'
    <2>1. [run[s] EXCEPT !.at = "saved"] \in Requests
      BY <1>1, <1>2 DEF Requests
    <2>. QED
      BY <1>1, <2>1 DEF IInv, TypeOK, QuietChange
  <1>4. /\ \A t \in Slots \ {s} : run'[t] = run[t]
        /\ run'[s].op = "change" /\ run'[s].at = "saved" /\ ~run'[s].found
    BY <1>1, <1>2 DEF IInv, TypeOK, Requests
  <1>5. LockHeld' /\ ComputedFresh'
    BY <1>1, <1>4
    DEF IInv, LockHeld, ComputedFresh, QuietChange, Changing, Accepting, AsSaved, OfMaterials
  <1>. QED
    BY <1>1, <1>3, <1>5, QuietKeeps DEF IInv

LEMMA ChangeSelectKeeps ==
  ASSUME IInv, NEW s \in Slots, ChangeSelect(s)
  PROVE  IInv'
  <1> DEFINE found == payout.status = "pending"
  <1>1. QuietChange /\ PayoutFree /\ run[s].op = "change" /\ run[s].at = "saved"
        /\ run' = [run EXCEPT ![s] = [run[s] EXCEPT !.at = "selected", !.found = found]]
    BY DEF ChangeSelect, SelectPending, Continue, QuietChange
  <1>2. run[s] \in Requests
    BY RequestTyped DEF IInv
  <1>3. TypeOK'
    <2>1. [run[s] EXCEPT !.at = "selected", !.found = found] \in Requests
      BY <1>1, <1>2 DEF Requests
    <2>. QED
      BY <1>1, <2>1 DEF IInv, TypeOK, QuietChange
  <1>4. /\ \A t \in Slots \ {s} : run'[t] = run[t]
        /\ run'[s].op = "change" /\ run'[s].at = "selected" /\ run'[s].found = found
    BY <1>1, <1>2 DEF IInv, TypeOK, Requests
  <1>5. \A t \in Changing : ~run[t].found
    BY <1>1 DEF PayoutFree
  <1>6. Changing' = Changing /\ Accepting' = Accepting
    BY <1>1, <1>4 DEF Changing, Accepting
  <1>7. \A t \in Changing \ {s} : ~run'[t].found
    BY <1>4, <1>5 DEF Changing
  <1>8. run'[s].found => payout'.status = "pending"
    BY <1>1, <1>4 DEF QuietChange
  <1>9. LockHeld'
    BY <1>4, <1>6, <1>7, <1>8 DEF IInv, LockHeld, Changing
  <1>10. ComputedFresh'
    BY <1>1, <1>4, <1>6
    DEF IInv, ComputedFresh, QuietChange, Changing, Accepting, AsSaved, OfMaterials
  <1>. QED
    BY <1>1, <1>3, <1>9, <1>10, QuietKeeps DEF IInv

LEMMA ChangeComputeKeeps ==
  ASSUME IInv, NEW s \in Slots, ChangeCompute(s)
  PROVE  IInv'
  <1>1. QuietChange /\ run[s].op = "change" /\ run[s].at = "selected" /\ run[s].found
    BY DEF ChangeCompute, QuietChange
  <1>2. run[s] \in Requests /\ AsSaved(s) \in [Items -> Materials]
    BY <1>1, RequestTyped DEF IInv
  <1>3. CASE Ratable(AsSaved(s))
    <2> DEFINE lines == Lines(AsSaved(s))
    <2>1. lines \in Breakdown /\ OfMaterials(lines, AsSaved(s))
      BY <1>2, <1>3, LinesTyped DEF IInv
    <2>2. run' = [run EXCEPT ![s] = [run[s] EXCEPT !.at = "computed", !.lines = lines]]
      BY <1>3 DEF ChangeCompute, Continue
    <2> HIDE DEF lines
    <2>3. TypeOK'
      <3>1. [run[s] EXCEPT !.at = "computed", !.lines = lines] \in Requests
        BY <1>1, <1>2, <2>1 DEF Requests
      <3>. QED
        BY <1>1, <2>2, <3>1 DEF IInv, TypeOK, QuietChange
    <2>4. /\ \A t \in Slots \ {s} : run'[t] = run[t]
          /\ run'[s].op = "change" /\ run'[s].at = "computed" /\ run'[s].found
          /\ run'[s].lines = lines
          /\ run'[s].item = run[s].item /\ run'[s].to = run[s].to
      BY <1>1, <1>2, <2>2 DEF IInv, TypeOK, Requests
    <2>5. LockHeld'
      BY <1>1, <2>1, <2>4 DEF IInv, LockHeld, QuietChange, Changing
    <2>6. ComputedFresh'
      BY <1>1, <2>1, <2>4
      DEF IInv, ComputedFresh, QuietChange, Changing, Accepting, AsSaved, OfMaterials
    <2>. QED
      BY <1>1, <2>3, <2>5, <2>6, QuietKeeps DEF IInv
  <1>4. CASE ~Ratable(AsSaved(s))
    <2>1. run' = [run EXCEPT ![s] = Idle]
      BY <1>4 DEF ChangeCompute, Ends
    <2>2. TypeOK'
      BY <1>1, <2>1 DEF IInv, TypeOK, QuietChange, Requests, Idle
    <2>3. /\ \A t \in Slots \ {s} : run'[t] = run[t]
          /\ run'[s] = Idle
      BY <2>1 DEF IInv, TypeOK
    <2>4. LockHeld' /\ ComputedFresh'
      BY <1>1, <2>3
      DEF IInv, LockHeld, ComputedFresh, QuietChange, Changing, Accepting, Idle, AsSaved, OfMaterials
    <2>. QED
      BY <1>1, <2>2, <2>4, QuietKeeps DEF IInv
  <1>. QED
    BY <1>3, <1>4

LEMMA ChangeCommitKeeps ==
  ASSUME IInv, NEW s \in Slots, ChangeCommit(s)
  PROVE  IInv'
  <1>1. /\ run[s].op = "change"
        /\ material' = AsSaved(s)
        /\ missed' = (missed \/ (~run[s].found /\ (payout.status # "none" \/ Accepting # {})))
        /\ UNCHANGED <<rate, order, taken, job, ratings, overtaken>>
    BY DEF ChangeCommit, AsSaved
  <1>2. run' = [run EXCEPT ![s] = Idle]
    BY DEF ChangeCommit, Ends
  <1>3. /\ \A t \in Slots \ {s} : run'[t] = run[t]
        /\ run'[s] = Idle
    BY <1>2 DEF IInv, TypeOK
  <1>4. material' \in [Items -> Materials] /\ run' \in [Slots -> Requests] /\ missed' \in BOOLEAN
    BY <1>1, <1>2, RequestTyped DEF IInv, TypeOK, Requests, Idle
  <1>5. CASE run[s].found
    <2>1. /\ payout.status = "pending"
          /\ run[s].at = "computed" /\ run[s].lines \in Breakdown
          /\ \A t \in Slots \ {s} : t \in Changing => ~run[t].found
      BY <1>1, <1>5 DEF IInv, LockHeld, Changing, ChangeCommit
    <2>2. payout' = [payout EXCEPT !.lines = run[s].lines, !.amount = Total(run[s].lines)]
      BY <1>5 DEF ChangeCommit
    <2>3. /\ payout'.status = "pending" /\ payout'.lines = run[s].lines
          /\ payout'.amount = Total(run[s].lines)
          /\ DOMAIN payout' = {"status", "lines", "amount"}
      BY <2>1, <2>2 DEF IInv, TypeOK
    <2>4. TypeOK'
      BY <1>1, <1>4, <2>1, <2>3 DEF IInv, TypeOK, PayoutStatus
    <2>5. LockHeld'
      BY <1>3, <2>1 DEF IInv, LockHeld, Changing, Idle
    <2>6. taken = None \/ overtaken
      BY <2>1 DEF IInv, SentAsRecorded
    <2>7. SendsClaimed' /\ SentAsRecorded'
      BY <1>1, <2>3, <2>6 DEF SendsClaimed, SentAsRecorded
    <2>8. \A t \in Slots \ {s} : t \in Changing => run[t].at # "computed"
      BY <2>1 DEF IInv, LockHeld
    <2>9. ComputedFresh'
      BY <1>3, <2>3, <2>8 DEF ComputedFresh, Changing, Idle
    <2>10. WithinTheOrder'
      BY <2>1, <2>3, LinesBounded DEF WithinTheOrder
    <2>11. FollowsMaterial'
      <3>1. s \in Changing
        BY <1>1 DEF Changing
      <3>2. ~missed' => OfMaterials(run[s].lines, AsSaved(s))
        BY <1>1, <2>1, <3>1 DEF IInv, ComputedFresh
      <3>. QED
        BY <1>1, <2>3, <3>2 DEF FollowsMaterial, OfMaterials
    <2>. QED
      BY <2>4, <2>5, <2>7, <2>9, <2>10, <2>11 DEF IInv
  <1>6. CASE ~run[s].found
    <2>1. payout' = payout
      BY <1>6 DEF ChangeCommit
    <2>2. TypeOK'
      BY <1>1, <1>4, <2>1 DEF IInv, TypeOK
    <2>3. LockHeld'
      BY <1>3, <2>1 DEF IInv, LockHeld, Changing, Idle
    <2>4. SendsClaimed' /\ SentAsRecorded' /\ WithinTheOrder'
      BY <1>1, <2>1 DEF IInv, SendsClaimed, SentAsRecorded, WithinTheOrder
    <2>5. ~missed' => payout.status = "none" /\ Accepting = {} /\ ~missed
      BY <1>1, <1>6
    <2>6. FollowsMaterial'
      BY <2>1, <2>5 DEF FollowsMaterial
    <2>7. payout.status = "none" => \A t \in Changing : run[t].at # "computed"
      BY DEF IInv, LockHeld
    <2>8. ComputedFresh'
      BY <1>3, <2>1, <2>5, <2>7 DEF ComputedFresh, Changing, Accepting, Idle
    <2>. QED
      BY <2>2, <2>3, <2>4, <2>6, <2>8 DEF IInv
  <1>. QED
    BY <1>5, <1>6, RequestTyped DEF IInv

-----------------------------------------------------------------------------
(***************************************************************************)
(* The payout's way.                                                       *)
(***************************************************************************)

\* What every step of the payout's way leaves alone.
PayFrame == UNCHANGED <<material, rate, order, run, ratings, missed>>

\* A step that moves the payout, and no line of it, while no change has it
\* locked.
LEMMA MoveKeeps ==
  ASSUME IInv, PayFrame, PayoutFree, payout.status # "none",
         NEW st \in PayoutStatus \ {"none"}, NEW cents,
         \/ cents = payout.amount
         \/ cents \in 1 .. Total(payout.lines),
         payout' = [payout EXCEPT !.status = st, !.amount = cents],
         job'.at \in JobAt, overtaken' \in BOOLEAN
  PROVE  /\ payout'.status = st /\ payout'.amount = cents
         /\ TypeOK' /\ LockHeld' /\ ComputedFresh' /\ WithinTheOrder' /\ FollowsMaterial'
  <1>1. /\ payout'.status = st /\ payout'.lines = payout.lines /\ payout'.amount = cents
        /\ DOMAIN payout' = {"status", "lines", "amount"}
    BY DEF IInv, TypeOK
  <1>2. TypeOK'
    BY <1>1 DEF IInv, TypeOK, PayFrame, JobAt
  <1>3. \A s \in Changing : ~run[s].found
    BY DEF PayoutFree
  <1>4. LockHeld' /\ ComputedFresh'
    BY <1>1, <1>3
    DEF IInv, LockHeld, ComputedFresh, PayFrame, Changing, Accepting, AsSaved, OfMaterials
  <1>5. WithinTheOrder'
    BY <1>1 DEF IInv, WithinTheOrder
  <1>6. FollowsMaterial'
    BY <1>1 DEF IInv, FollowsMaterial, PayFrame
  <1>. QED
    BY <1>1, <1>2, <1>4, <1>5, <1>6

LEMMA BecomesKeeps ==
  ASSUME IInv, PayFrame, PayoutFree, payout.status # "none",
         NEW st \in PayoutStatus \ {"none"}, Becomes(st),
         job'.at \in JobAt, overtaken' \in BOOLEAN
  PROVE  /\ payout'.status = st /\ payout'.amount = payout.amount
         /\ TypeOK' /\ LockHeld' /\ ComputedFresh' /\ WithinTheOrder' /\ FollowsMaterial'
  <1>1. payout' = [payout EXCEPT !.status = st, !.amount = payout.amount]
    BY DEF Becomes, IInv, TypeOK
  <1>. QED
    BY <1>1, MoveKeeps

\* A step of the job, or the provider, that leaves the payout alone.
LEMMA StillKeeps ==
  ASSUME IInv, PayFrame, UNCHANGED payout, job'.at \in JobAt, overtaken' \in BOOLEAN
  PROVE  TypeOK' /\ LockHeld' /\ ComputedFresh' /\ WithinTheOrder' /\ FollowsMaterial'
  <1>1. TypeOK'
    BY DEF IInv, TypeOK, PayFrame, JobAt
  <1>2. LockHeld' /\ ComputedFresh'
    BY DEF IInv, LockHeld, ComputedFresh, PayFrame, Changing, Accepting, AsSaved, OfMaterials
  <1>3. WithinTheOrder' /\ FollowsMaterial'
    BY DEF IInv, WithinTheOrder, FollowsMaterial, PayFrame
  <1>. QED
    BY <1>1, <1>2, <1>3

LEMMA PayKeeps ==
  ASSUME IInv, Pay
  PROVE  IInv'
  <1> job.at \in JobAt /\ overtaken \in BOOLEAN
    BY DEF IInv, TypeOK, JobAt
  <1> USE DEF PayoutStatus
  <1>1. CASE Claim
    <2>1. /\ PayFrame /\ UNCHANGED <<taken, overtaken>> /\ PayoutFree
          /\ payout.status = "pending" /\ job = Rest
      BY <1>1 DEF Claim, PayFrame, Locked
    <2>2. taken = None \/ overtaken
      BY <2>1 DEF IInv, SentAsRecorded
    <2>3. CASE Becomes("processing") /\ job' = Job("sending", payout.amount)
      <3>1. job'.at = "sending" /\ job'.amount = payout.amount
        BY <2>3 DEF Job
      <3>. QED
        BY <2>1, <2>2, <2>3, <3>1, BecomesKeeps DEF IInv, SendsClaimed, SentAsRecorded, JobAt
    <2>4. CASE Becomes("held") /\ UNCHANGED job
      BY <2>1, <2>2, <2>4, BecomesKeeps DEF IInv, SendsClaimed, SentAsRecorded
    <2>. QED
      BY <1>1, <2>3, <2>4 DEF Claim
  <1>2. CASE ListStuck
    <2>1. /\ PayFrame /\ UNCHANGED <<payout, taken, overtaken>> /\ job'.at = "listed"
      BY <1>2 DEF ListStuck, PayFrame, Job
    <2>. QED
      BY <2>1, StillKeeps DEF IInv, SendsClaimed, SentAsRecorded, JobAt
  <1>3. CASE Recover
    <2>1. /\ PayFrame /\ UNCHANGED <<payout, taken, overtaken>>
          /\ job'.at \in {"answered", "sending", "idle"}
          /\ job'.at = "sending" => job'.amount = payout.amount
      BY <1>3 DEF Recover, PayFrame, Job, Rest
    <2>. QED
      BY <2>1, StillKeeps DEF IInv, SendsClaimed, SentAsRecorded, JobAt
  <1>4. CASE Send
    <2>1. /\ PayFrame /\ UNCHANGED payout /\ job.at = "sending"
          /\ job'.at \in {"answered", "idle"}
          /\ overtaken' = (overtaken \/ payout.status # "processing")
      BY <1>4 DEF Send, PayFrame, Job, Rest, NotesOvertaken
    <2>2. taken' # None /\ ~overtaken' => payout.status = "processing" /\ payout.amount = taken'
      <3>1. SUFFICES ASSUME taken' # None, ~overtaken'
                     PROVE  payout.status = "processing" /\ payout.amount = taken'
        OBVIOUS
      <3>2. payout.status = "processing" /\ ~overtaken
        BY <2>1, <3>1
      <3>3. job.amount = payout.amount
        BY <2>1, <3>2 DEF IInv, SendsClaimed
      <3>4. CASE taken # None
        BY <1>4, <3>2, <3>4 DEF Send, IInv, SentAsRecorded
      <3>5. CASE taken = None
        BY <1>4, <3>2, <3>3, <3>5 DEF Send
      <3>. QED
        BY <3>4, <3>5
    <2>. QED
      BY <2>1, <2>2, StillKeeps DEF IInv, SendsClaimed, SentAsRecorded, JobAt
  <1>5. CASE SendFails
    <2>1. /\ PayFrame /\ UNCHANGED taken /\ job'.at = "idle"
          /\ payout.status = "processing" => taken = None
          /\ overtaken' = (overtaken \/ payout.status # "processing")
      BY <1>5 DEF SendFails, PayFrame, Job, Rest, NotesOvertaken
    <2>2. taken = None \/ overtaken'
      BY <2>1
    <2>3. CASE Locked({"processing", "paid"}) /\ Becomes("failed")
      BY <2>1, <2>2, <2>3, BecomesKeeps DEF IInv, SendsClaimed, SentAsRecorded, Locked, JobAt
    <2>4. CASE UNCHANGED payout
      BY <2>1, <2>2, <2>4, StillKeeps DEF IInv, SendsClaimed, SentAsRecorded, JobAt
    <2>. QED
      BY <1>5, <2>3, <2>4 DEF SendFails
  <1>6. CASE RecordSent
    <2>1. /\ PayFrame /\ UNCHANGED <<taken, overtaken>>
          /\ job'.at \in JobAt
          /\ job'.at = "sending" => job' = job
      BY <1>6 DEF RecordSent, PayFrame, Job, Rest, JobAt
    <2>2. CASE Locked({"processing"})
      <3>1. Becomes("paid") /\ PayoutFree /\ payout.status = "processing"
        BY <1>6, <2>2 DEF RecordSent, Locked
      <3>. QED
        BY <2>1, <3>1, BecomesKeeps DEF IInv, SendsClaimed, SentAsRecorded
    <2>3. CASE ~Locked({"processing"})
      <3>1. UNCHANGED payout
        BY <1>6, <2>3 DEF RecordSent
      <3>. QED
        BY <2>1, <3>1, StillKeeps DEF IInv, SendsClaimed, SentAsRecorded
    <2>. QED
      BY <2>2, <2>3
  <1>7. CASE Returned
    <2>1. /\ PayFrame /\ UNCHANGED <<job, overtaken>> /\ taken # None /\ taken' = None
          /\ PayoutFree /\ payout.status \in {"processing", "paid"} /\ Becomes("failed")
      BY <1>7 DEF Returned, PayFrame, Locked
    <2>. QED
      BY <2>1, BecomesKeeps DEF IInv, SendsClaimed, SentAsRecorded
  <1>8. CASE Requeue
    <2>1. /\ PayFrame /\ UNCHANGED <<job, taken, overtaken>>
          /\ PayoutFree /\ payout.status \in {"failed", "held"} /\ Becomes("pending")
      BY <1>8 DEF Requeue, PayFrame, Locked
    <2>. QED
      BY <2>1, BecomesKeeps DEF IInv, SendsClaimed, SentAsRecorded
  <1>9. ASSUME NEW cents \in Int, Release(cents)
        PROVE  IInv'
    <2>1. /\ PayFrame /\ UNCHANGED <<job, taken, overtaken>>
          /\ PayoutFree /\ payout.status = "held" /\ cents \in 1 .. Total(payout.lines)
          /\ payout' = [payout EXCEPT !.status = "pending", !.amount = cents]
      BY <1>9 DEF Release, PayFrame, Locked, Capped
    <2>2. /\ payout'.status = "pending" /\ TypeOK' /\ LockHeld' /\ ComputedFresh'
          /\ WithinTheOrder' /\ FollowsMaterial'
      BY <2>1, MoveKeeps
    <2>. QED
      BY <2>1, <2>2 DEF IInv, SendsClaimed, SentAsRecorded
  <1>10. CASE Cancel
    <2>1. /\ PayFrame /\ UNCHANGED <<job, taken, overtaken>>
          /\ PayoutFree /\ payout.status \in {"pending", "held", "failed"} /\ Becomes("cancelled")
      BY <1>10 DEF Cancel, PayFrame, Locked
    <2>. QED
      BY <2>1, BecomesKeeps DEF IInv, SendsClaimed, SentAsRecorded
  <1>. QED
    BY <1>1, <1>2, <1>3, <1>4, <1>5, <1>6, <1>7, <1>8, <1>9, <1>10 DEF Pay

-----------------------------------------------------------------------------
(***************************************************************************)
(* The theorems.                                                           *)
(***************************************************************************)

LEMMA ChangeKeeps ==
  ASSUME IInv, NEW s \in Slots, Change(s)
  PROVE  IInv'
  BY ChangeReadKeeps, ChangeSaveKeeps, ChangeSelectKeeps, ChangeComputeKeeps, ChangeCommitKeeps
  DEF Change

LEMMA NextIInv == IInv /\ [Next]_vars => IInv'
  <1> SUFFICES ASSUME IInv, [Next]_vars PROVE IInv'
    OBVIOUS
  <1>1. ASSUME NEW m \in Materials, NEW p \in Percentages, UpdateRate(m, p) PROVE IInv'
    BY <1>1, UpdateRateKeeps
  <1>2. ASSUME NEW s \in Slots, AcceptRead(s) \/ AcceptCommit(s) \/ Change(s) PROVE IInv'
    BY <1>2, AcceptReadKeeps, AcceptCommitKeeps, ChangeKeeps
  <1>3. CASE Proceed
    BY <1>3, ProceedKeeps
  <1>4. CASE Pay
    BY <1>4, PayKeeps
  <1>5. CASE UNCHANGED vars
    <2>1. /\ PayFrame /\ UNCHANGED <<payout, job, taken, overtaken>>
          /\ job.at \in JobAt /\ overtaken \in BOOLEAN
      BY <1>5 DEF vars, PayFrame, IInv, TypeOK, JobAt
    <2>. QED
      BY <2>1, StillKeeps DEF IInv, SendsClaimed, SentAsRecorded
  <1>. QED
    BY <1>1, <1>2, <1>3, <1>4, <1>5 DEF Next

\* The conjunction is an invariant: a payout that a correction has locked is
\* pending, so the job does not claim it meanwhile and the provider has something
\* of it only if a recovery was overtaken; what the job holds of a payout that is
\* processing is the row's amount; and of the breakdowns computed but not
\* committed at most one is a correction's.
THEOREM Invariance == Spec => []IInv
  BY InitIInv, NextIInv, PTL DEF Spec

\* Every accepted order's payout has a rated line for each item, whatever
\* corrections and rates came between (computePayoutBreakdown).
THEOREM TypeCorrect == Spec => []TypeOK
  <1>1. IInv => TypeOK
    BY DEF IInv
  <1>. QED
    BY <1>1, Invariance, PTL

\* No vendor is to be paid more than the breakdown adds up to, and no line of it
\* is more than the customer paid for the item, for all totals and rates
\* (computePayoutBreakdown, releaseHeldPayout).
THEOREM PaysWithinTheOrder == Spec => []WithinTheOrder
  <1>1. IInv => WithinTheOrder
    BY DEF IInv
  <1>. QED
    BY <1>1, Invariance, PTL

\* What the provider took is what the row shows, unless a recovery, which looks
\* at no status, had sent a payout that was not processing any more
\* (recalculatePendingPayoutsForProjectFile, sendClaimed, recoverProcessingPayout).
THEOREM RecordsWhatWasSent == Spec => []SentAsRecorded
  <1>1. IInv => SentAsRecorded
    BY DEF IInv
  <1>. QED
    BY <1>1, Invariance, PTL

\* However many corrections run at once, a payout every one of them found shows
\* the parts' committed materials (updateMaterial, updateTechnology).
THEOREM CorrectionsReachPayout == Spec => []FollowsMaterial
  <1>1. IInv => FollowsMaterial
    BY DEF IInv
  <1>. QED
    BY <1>1, Invariance, PTL
=============================================================================
