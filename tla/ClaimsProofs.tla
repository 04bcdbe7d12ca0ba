---------------------------- MODULE ClaimsProofs ----------------------------
(***************************************************************************)
(* Proofs about Claims, for any people, projects, rows and requests.       *)
(***************************************************************************)
EXTENDS Claims, TLAPS

OneGuest == \A g, h \in Guests : guest[g] \in Emails /\ guest[g] = guest[h] => g = h

\* Who claims a project has its customers row.
ClaimantReady == \A s \in Slots : run[s].op = "claim" =>
    account[run[s].account] = "customer" /\ run[s].grant \in Projects

IInv == Kinds /\ References /\ OneGuest /\ ClaimantReady

-----------------------------------------------------------------------------
(***************************************************************************)
(* What a request holds, and what a step may do to the customers.          *)
(***************************************************************************)

LEMMA OnProject ==
  ASSUME Kinds, NEW s \in Slots,
         run[s].op \in {"attach", "save", "email", "configure", "pay"}
  PROVE  run[s] \in [op : {"attach", "save", "email", "configure", "pay"},
                     then : {"email", "configure", "pay"}, project : Projects,
                     customer : Owners, email : Emails \cup {None}]
  BY DEF Kinds, Memory, Idle

LEMMA Paying ==
  ASSUME Kinds, NEW s \in Slots, run[s].op = "authorize"
  PROVE  run[s] \in [op : {"authorize"}, session : Sessions, customer : Owners,
                     project : Projects, address : Addresses]
  BY DEF Kinds, Memory, Idle

LEMMA OfAccount ==
  ASSUME Kinds, NEW s \in Slots, run[s].op \in {"signup", "claim", "notify"}
  PROVE  run[s] \in [op : {"signup", "claim", "notify"}, account : Accounts,
                     grant : Projects \cup {None}, customer : {None}]
  BY DEF Kinds, Memory, Idle

LEMMA Deletes ==
  ASSUME Kinds, NEW s \in Slots, run[s].op = "delete"
  PROVE  run[s].address \in Addresses
  BY DEF Kinds, Memory, Idle

\* As long as nobody's customers row goes, what exists exists.
LEMMA StillExists ==
  ASSUME Kinds, NEW c, Exists(c),
         \A g \in Guests : guest[g] \in Emails => guest'[g] = guest[g],
         \A a \in Accounts : account[a] = "customer" => account'[a] = "customer"
  PROVE  Exists(c)'
  BY DEF Exists, Live

\* A row that does not change is kept.
LEMMA KeptAsIs == \A row : Kept(row, row)
  BY DEF Kept

-----------------------------------------------------------------------------
(***************************************************************************)
(* The invariant.                                                          *)
(***************************************************************************)

LEMMA InitIInv == Init => IInv
  <1> SUFFICES ASSUME Init PROVE IInv
    OBVIOUS
  <1>1. Kinds
    BY ClaimsAssumption DEF Init, Kinds, Memory, Idle, Owners
  <1>2. References
    BY DEF Init, References, Rows, Exists
  <1>3. OneGuest /\ ClaimantReady
    BY ClaimsAssumption DEF Init, OneGuest, ClaimantReady, Idle
  <1>. QED BY <1>1, <1>2, <1>3 DEF IInv

\* A request begins with r, or ends.
LEMMA Beginning ==
  ASSUME Kinds, NEW s \in Slots, NEW r \in Memory, Begin(s, r)
  PROVE  run' \in [Slots -> Memory] /\ asked' \in 0 .. MaxRequests
         /\ run' = [run EXCEPT ![s] = r]
  BY ClaimsAssumption DEF Kinds, Begin

LEMMA Continuing ==
  ASSUME Kinds, NEW s \in Slots, NEW r \in Memory, Continue(s, r)
  PROVE  run' \in [Slots -> Memory] /\ asked' \in 0 .. MaxRequests
         /\ run' = [run EXCEPT ![s] = r]
  BY DEF Kinds, Continue

LEMMA Ending ==
  ASSUME Kinds, NEW s \in Slots, Ends(s)
  PROVE  run' \in [Slots -> Memory] /\ asked' \in 0 .. MaxRequests
         /\ run' = [run EXCEPT ![s] = Idle]
  <1>1. Idle \in Memory
    BY DEF Memory
  <1>. QED BY <1>1, Continuing DEF Ends

\* A step of a request that changes no row keeps the invariant.
LEMMA RowsAsTheyWere ==
  ASSUME IInv, UNCHANGED <<account, guest, work>>,
         run' \in [Slots -> Memory], asked' \in 0 .. MaxRequests,
         link' \subseteq Guests \X Accounts,
         NEW s \in Slots, \A t \in Slots : t # s => run'[t] = run[t], run'[s].op # "claim"
  PROVE  IInv'
  <1>1. Kinds'
    BY DEF IInv, Kinds, work
  <1>2. References'
    BY DEF IInv, References, Rows, Exists, Live, work
  <1>3. OneGuest' /\ ClaimantReady'
    BY DEF IInv, OneGuest, ClaimantReady
  <1>. QED BY <1>1, <1>2, <1>3 DEF IInv

LEMMA ReadProjectKeeps ==
  ASSUME IInv, NEW s \in Slots, NEW op \in {"email", "configure", "pay"}, NEW p \in Projects,
         NEW e \in Emails \cup {None}, ReadProject(s, op, p, e)
  PROVE  IInv'
  <1> DEFINE r == [op |-> IF e = None THEN op ELSE "attach", then |-> op,
                   project |-> p, customer |-> owner[p], email |-> e]
  <1>1. r \in Memory
    BY DEF IInv, Kinds, Memory
  <1>2. Begin(s, r) /\ r.op # "claim"
    BY DEF ReadProject
  <1> HIDE DEF r
  <1>3. run' \in [Slots -> Memory] /\ asked' \in 0 .. MaxRequests /\ run' = [run EXCEPT ![s] = r]
    BY <1>1, <1>2, Beginning DEF IInv
  <1>. QED BY <1>2, <1>3, RowsAsTheyWere DEF ReadProject, IInv, Kinds, work

LEMMA GiveUpKeeps ==
  ASSUME IInv, NEW s \in Slots, GiveUp(s)
  PROVE  IInv'
  <1>1. run' \in [Slots -> Memory] /\ asked' \in 0 .. MaxRequests /\ run' = [run EXCEPT ![s] = Idle]
    BY Ending DEF GiveUp, IInv
  <1>. QED BY <1>1, RowsAsTheyWere DEF GiveUp, IInv, Kinds, Idle, work

LEMMA AskLinkKeeps ==
  ASSUME IInv, NEW s \in Slots, NEW a \in Accounts, AskLink(s, a)
  PROVE  IInv'
  <1> DEFINE r == [op |-> "notify", account |-> a, grant |-> None, customer |-> None]
  <1>1. r \in Memory /\ Begin(s, r) /\ r.op # "claim"
    BY DEF AskLink, Memory
  <1> HIDE DEF r
  <1>3. run' \in [Slots -> Memory] /\ asked' \in 0 .. MaxRequests /\ run' = [run EXCEPT ![s] = r]
    BY <1>1, Beginning DEF IInv
  <1>. QED BY <1>1, <1>3, RowsAsTheyWere DEF AskLink, IInv, Kinds, work

LEMMA SendLinkKeeps ==
  ASSUME IInv, NEW s \in Slots, SendLink(s)
  PROVE  IInv'
  <1>1. run' \in [Slots -> Memory] /\ asked' \in 0 .. MaxRequests /\ run' = [run EXCEPT ![s] = Idle]
    BY Ending DEF SendLink, IInv
  <1>2. run[s].account \in Accounts
    BY OfAccount DEF SendLink, IInv
  <1>3. link' \subseteq Guests \X Accounts
    BY <1>2 DEF SendLink, IInv, Kinds, Claimable
  <1>. QED BY <1>1, <1>3, RowsAsTheyWere DEF SendLink, IInv, Kinds, Idle, work

LEMMA CheckAddressKeeps ==
  ASSUME IInv, NEW s \in Slots, NEW a \in Accounts, NEW x \in Addresses, CheckAddress(s, a, x)
  PROVE  IInv'
  <1> DEFINE r == [op |-> "delete", address |-> x, customer |-> None]
  <1>1. r \in Memory /\ Begin(s, r) /\ r.op # "claim"
    BY DEF CheckAddress, Memory
  <1> HIDE DEF r
  <1>3. run' \in [Slots -> Memory] /\ asked' \in 0 .. MaxRequests /\ run' = [run EXCEPT ![s] = r]
    BY <1>1, Beginning DEF IInv
  <1>. QED BY <1>1, <1>3, RowsAsTheyWere DEF CheckAddress, IInv, Kinds, work

\* A step that moves no customer and claims nothing leaves three parts alone.
LEMMA SameCustomers ==
  ASSUME IInv, UNCHANGED <<account, guest>>,
         NEW s \in Slots, run' \in [Slots -> Memory],
         \A t \in Slots : t # s => run'[t] = run[t], run'[s].op # "claim"
  PROVE  OneGuest' /\ ClaimantReady' /\ \A c : Exists(c)' <=> Exists(c)
  BY DEF IInv, OneGuest, ClaimantReady, Exists, Live

LEMMA SaveLeadKeeps ==
  ASSUME IInv, NEW s \in Slots, SaveLead(s)
  PROVE  IInv'
  <1>1. run[s] \in [op : {"attach", "save", "email", "configure", "pay"},
                    then : {"email", "configure", "pay"}, project : Projects,
                    customer : Owners, email : Emails \cup {None}]
    BY OnProject DEF SaveLead, IInv
  <1> DEFINE r == [run[s] EXCEPT !.op = run[s].then]
  <1>2. r \in Memory /\ r.op # "claim"
    BY <1>1 DEF Memory
  <1> HIDE DEF r
  <1>3. Ends(s) \/ Continue(s, r)
    BY DEF SaveLead, r
  <1>4. /\ run' \in [Slots -> Memory] /\ asked' \in 0 .. MaxRequests
        /\ \A t \in Slots : t # s => run'[t] = run[t]
        /\ run'[s].op # "claim"
    BY <1>2, <1>3, Continuing, Ending DEF IInv, Kinds, Idle
  <1>5. owner' = owner \/ (Live(run[s].customer) /\
           owner' = [owner EXCEPT ![run[s].project] = run[s].customer])
    BY DEF SaveLead
  <1>6. Kinds'
    BY <1>1, <1>4, <1>5 DEF SaveLead, IInv, Kinds
  <1>7. \A p \in Projects : Exists(owner'[p])
    BY <1>1, <1>5 DEF IInv, Kinds, References, Exists, Owners
  <1>8. References'
    BY <1>4, <1>7, SameCustomers DEF SaveLead, IInv, References, Rows
  <1>. QED BY <1>4, <1>6, <1>8, SameCustomers DEF SaveLead, IInv

LEMMA FindGuestKeeps ==
  ASSUME IInv, NEW s \in Slots, FindGuest(s)
  PROVE  IInv'
  <1>1. run[s] \in [op : {"attach", "save", "email", "configure", "pay"},
                    then : {"email", "configure", "pay"}, project : Projects,
                    customer : Owners, email : Emails \cup {None}]
    BY OnProject DEF FindGuest, IInv
  <1>2. PICK g \in Guests : Continue(s, [run[s] EXCEPT !.op = "save", !.customer = g])
    BY DEF FindGuest
  <1> DEFINE r == [run[s] EXCEPT !.op = "save", !.customer = g]
  <1>3. r \in Memory /\ r.op # "claim" /\ Continue(s, r)
    BY <1>1, <1>2 DEF Memory, Owners, Customers
  <1> HIDE DEF r
  <1>4. /\ run' \in [Slots -> Memory] /\ asked' \in 0 .. MaxRequests
        /\ \A t \in Slots : t # s => run'[t] = run[t]
        /\ run'[s].op # "claim"
    BY <1>3, Continuing DEF IInv, Kinds
  <1>5. \/ UNCHANGED guest
        \/ /\ \A h \in Guests : guest[h] # run[s].email
           /\ \E h \in Guests : guest[h] = None /\ guest' = [guest EXCEPT ![h] = run[s].email]
    BY DEF FindGuest
  <1>6. guest' \in [Guests -> Emails \cup {None, Gone}] /\ OneGuest'
    BY <1>1, <1>5 DEF IInv, Kinds, OneGuest
  <1>7. \A h \in Guests : guest[h] \in Emails => guest'[h] = guest[h]
    BY <1>5, ClaimsAssumption DEF IInv, Kinds
  <1>8. UNCHANGED <<account, link, work>>
    BY DEF FindGuest
  <1>9. Kinds'
    BY <1>4, <1>6, <1>8 DEF IInv, Kinds, work
  <1>10. \A c : Exists(c) => Exists(c)'
    BY <1>7, <1>8, StillExists DEF IInv
  <1>11. References'
    BY <1>8, <1>10 DEF IInv, References, Rows, work
  <1>12. ClaimantReady'
    BY <1>4, <1>8 DEF IInv, ClaimantReady
  <1>. QED BY <1>6, <1>9, <1>11, <1>12 DEF IInv

LEMMA ConfigureKeeps ==
  ASSUME IInv, NEW s \in Slots, Configure(s)
  PROVE  IInv'
  <1>1. run[s].project \in Projects /\ run[s].customer \in Owners
    BY OnProject DEF Configure, IInv
  <1>2. /\ run' \in [Slots -> Memory] /\ asked' \in 0 .. MaxRequests
        /\ \A t \in Slots : t # s => run'[t] = run[t]
        /\ run'[s].op # "claim"
    BY Ending DEF Configure, IInv, Kinds, Idle
  <1>3. PICK a \in Addresses :
          /\ quoted' = [quoted EXCEPT ![run[s].project] = @ \cup {a}]
          /\ \/ a \in Rows(address) /\ UNCHANGED address
             \/ /\ a \notin Rows(address) /\ Exists(run[s].customer)
                /\ address' = [address EXCEPT ![a] = run[s].customer]
    BY DEF Configure, Rows, IInv, Kinds
  <1>4. UNCHANGED <<account, guest, owner, session, order, link>>
    BY DEF Configure
  <1>5. Kinds'
    BY <1>1, <1>2, <1>3, <1>4 DEF IInv, Kinds
  <1>6. \A x : Exists(x)' <=> Exists(x)
    BY <1>2, <1>4, SameCustomers
  <1>7. /\ Rows(address)' = Rows(address) \cup {a}
        /\ \A x \in Rows(address)' : Exists(address'[x])
    BY <1>1, <1>3, ClaimsAssumption DEF IInv, Kinds, References, Rows
  <1>8. \A p \in Projects : quoted'[p] \subseteq Rows(address)'
    BY <1>1, <1>3, <1>7 DEF IInv, Kinds, References
  <1>9. References'
    BY <1>4, <1>6, <1>7, <1>8 DEF IInv, References, Rows
  <1>. QED BY <1>2, <1>4, <1>5, <1>9, SameCustomers DEF IInv

LEMMA OpenSessionKeeps ==
  ASSUME IInv, NEW s \in Slots, OpenSession(s)
  PROVE  IInv'
  <1>1. run[s].project \in Projects /\ run[s].customer \in Owners
    BY OnProject DEF OpenSession, IInv
  <1>2. PICK x \in Sessions, c \in Owners, a \in quoted[run[s].project] :
          /\ Continue(s, [op |-> "authorize", session |-> x, customer |-> c,
                          project |-> run[s].project, address |-> a])
          /\ \/ UNCHANGED session
             \/ Exists(c) /\ session' = [session EXCEPT ![x] =
                      [project |-> run[s].project, customer |-> c, active |-> TRUE]]
    <2>1. CASE {x \in Rows(session) : session[x].project = run[s].project /\ session[x].active} # {}
      BY <2>1 DEF OpenSession, Rows, IInv, Kinds, Session
    <2>2. CASE {x \in Rows(session) : session[x].project = run[s].project /\ session[x].active} = {}
      BY <1>1, <2>2 DEF OpenSession
    <2>. QED BY <2>1, <2>2
  <1>3. a \in Addresses
    BY <1>1 DEF IInv, Kinds
  <1>4. /\ run' \in [Slots -> Memory] /\ asked' \in 0 .. MaxRequests
        /\ \A t \in Slots : t # s => run'[t] = run[t]
        /\ run'[s].op # "claim"
    <2> DEFINE r == [op |-> "authorize", session |-> x, customer |-> c,
                     project |-> run[s].project, address |-> a]
    <2>1. r \in Memory /\ r.op # "claim" /\ Continue(s, r)
      BY <1>1, <1>2, <1>3 DEF Memory
    <2> HIDE DEF r
    <2>. QED BY <2>1, Continuing DEF IInv, Kinds
  <1>5. UNCHANGED <<account, guest, owner, address, quoted, order, link>>
    BY DEF OpenSession
  <1>6. Kinds'
    <2>1. [project |-> run[s].project, customer |-> c, active |-> TRUE] \in Session
      BY <1>1 DEF Session
    <2>2. session' \in [Sessions -> Session \cup {NoRow}]
      BY <1>2, <2>1 DEF IInv, Kinds
    <2>. QED BY <1>4, <1>5, <2>2 DEF IInv, Kinds
  <1>7. \A y : Exists(y)' <=> Exists(y)
    BY <1>4, <1>5, SameCustomers
  <1>8. \A y \in Rows(session)' : Exists(session'[y].customer)
    BY <1>1, <1>2 DEF IInv, Kinds, References, Rows
  <1>9. References'
    BY <1>5, <1>7, <1>8 DEF IInv, References, Rows
  <1>. QED BY <1>4, <1>5, <1>6, <1>9, SameCustomers DEF IInv

LEMMA PlaceOrderKeeps ==
  ASSUME IInv, NEW s \in Slots, PlaceOrder(s)
  PROVE  IInv'
  <1>1. run[s] \in [op : {"authorize"}, session : Sessions, customer : Owners,
                    project : Projects, address : Addresses]
    BY Paying DEF PlaceOrder, IInv
  <1> DEFINE row == [project |-> run[s].project, session |-> run[s].session,
                     customer |-> run[s].customer, address |-> run[s].address]
  <1>2. PICK o \in Orders : order' = [order EXCEPT ![o] = row]
    BY DEF PlaceOrder
  <1>3. row \in Order /\ row.customer = run[s].customer /\ row.address = run[s].address
    BY <1>1 DEF Order
  <1> HIDE DEF row
  <1>4. /\ run' \in [Slots -> Memory] /\ asked' \in 0 .. MaxRequests
        /\ \A t \in Slots : t # s => run'[t] = run[t]
        /\ run'[s].op # "claim"
    BY Ending DEF PlaceOrder, IInv, Kinds, Idle
  <1>5. /\ UNCHANGED <<account, guest, owner, quoted, session, link>>
        /\ address' = [address EXCEPT ![run[s].address] = run[s].customer]
        /\ Exists(run[s].customer) /\ address[run[s].address] # NoRow
    BY DEF PlaceOrder
  <1>6. Kinds'
    BY <1>1, <1>2, <1>3, <1>4, <1>5 DEF IInv, Kinds
  <1>7. \A y : Exists(y)' <=> Exists(y)
    BY <1>4, <1>5, SameCustomers
  <1>8. /\ Rows(address)' = Rows(address)
        /\ \A x \in Rows(address) : Exists(address'[x])
        /\ run[s].address \in Rows(address)
    BY <1>1, <1>5, ClaimsAssumption DEF IInv, Kinds, References, Rows
  <1>9. \A y \in Rows(order)' : Exists(order'[y].customer) /\ order'[y].address \in Rows(address)
    BY <1>2, <1>3, <1>5, <1>8 DEF IInv, Kinds, References, Rows
  <1>10. References'
    BY <1>5, <1>7, <1>8, <1>9 DEF IInv, References, Rows
  <1>. QED BY <1>4, <1>5, <1>6, <1>10, SameCustomers DEF IInv

LEMMA DeclineKeeps ==
  ASSUME IInv, NEW s \in Slots, Decline(s)
  PROVE  IInv'
  <1>1. run[s].session \in Sessions
    BY Paying DEF Decline, IInv
  <1>2. /\ run' \in [Slots -> Memory] /\ asked' \in 0 .. MaxRequests
        /\ \A t \in Slots : t # s => run'[t] = run[t]
        /\ run'[s].op # "claim"
    BY Ending DEF Decline, IInv, Kinds, Idle
  <1>3. UNCHANGED <<account, guest, owner, address, quoted, order, link>>
    BY DEF Decline
  <1>4. /\ session' \in [Sessions -> Session \cup {NoRow}]
        /\ \A x \in Sessions : (session'[x] = NoRow <=> session[x] = NoRow)
              /\ (session[x] # NoRow => session'[x].customer = session[x].customer)
    <2>1. CASE session[run[s].session] = NoRow
      BY <2>1 DEF Decline, IInv, Kinds
    <2>2. CASE session[run[s].session] # NoRow
      <3> DEFINE new == [session[run[s].session] EXCEPT !.active = FALSE]
      <3>1. session[run[s].session] \in Session
        BY <1>1, <2>2 DEF IInv, Kinds
      <3>2. new \in Session /\ new.customer = session[run[s].session].customer
        BY <3>1 DEF Session
      <3>3. session' = [session EXCEPT ![run[s].session] = new]
        BY <2>2 DEF Decline
      <3> HIDE DEF new
      <3>. QED BY <1>1, <2>2, <3>2, <3>3, ClaimsAssumption DEF IInv, Kinds
    <2>. QED BY <2>1, <2>2
  <1>5. Kinds'
    BY <1>2, <1>3, <1>4 DEF IInv, Kinds
  <1>6. \A y : Exists(y)' <=> Exists(y)
    BY <1>2, <1>3, SameCustomers
  <1>7. References'
    BY <1>3, <1>4, <1>6 DEF IInv, Kinds, References, Rows
  <1>. QED BY <1>2, <1>3, <1>5, <1>7, SameCustomers DEF IInv

LEMMA SignUpKeeps ==
  ASSUME IInv, NEW s \in Slots, NEW a \in Accounts, NEW p \in Projects \cup {None},
         SignUp(s, a, p)
  PROVE  IInv'
  <1> DEFINE r == [op |-> "signup", account |-> a, grant |-> p, customer |-> None]
  <1>1. r \in Memory /\ Begin(s, r) /\ r.op # "claim"
    BY DEF SignUp, Memory
  <1> HIDE DEF r
  <1>2. run' \in [Slots -> Memory] /\ asked' \in 0 .. MaxRequests /\ run' = [run EXCEPT ![s] = r]
    BY <1>1, Beginning DEF IInv
  <1>3. /\ UNCHANGED <<guest, link, work>>
        /\ account' = [account EXCEPT ![a] = "user"] /\ account[a] = "none"
    BY DEF SignUp
  <1>4. Kinds'
    BY <1>2, <1>3 DEF IInv, Kinds, work
  <1>5. \A c : Exists(c) => Exists(c)'
    BY <1>3, StillExists DEF IInv, Kinds
  <1>6. References'
    BY <1>3, <1>5 DEF IInv, References, Rows, work
  <1>7. OneGuest'
    BY <1>3 DEF IInv, OneGuest
  <1>8. ClaimantReady'
    BY <1>1, <1>2, <1>3, OfAccount DEF IInv, Kinds, ClaimantReady
  <1>. QED BY <1>4, <1>6, <1>7, <1>8 DEF IInv

LEMMA MakeCustomerKeeps ==
  ASSUME IInv, NEW s \in Slots, MakeCustomer(s)
  PROVE  IInv'
  <1>1. run[s] \in [op : {"signup", "claim", "notify"}, account : Accounts,
                    grant : Projects \cup {None}, customer : {None}]
    BY OfAccount DEF MakeCustomer, IInv
  <1> DEFINE r == [run[s] EXCEPT !.op = IF run[s].grant = None THEN "notify" ELSE "claim"]
  <1>2. /\ r \in Memory /\ Continue(s, r) /\ r.account = run[s].account
        /\ r.op = "claim" => r.grant \in Projects
    BY <1>1 DEF MakeCustomer, Memory
  <1> HIDE DEF r
  <1>3. run' \in [Slots -> Memory] /\ asked' \in 0 .. MaxRequests /\ run' = [run EXCEPT ![s] = r]
    BY <1>2, Continuing DEF IInv
  <1>4. /\ UNCHANGED <<guest, link, work>>
        /\ account' = [account EXCEPT ![run[s].account] = "customer"]
    BY DEF MakeCustomer
  <1>5. Kinds'
    BY <1>1, <1>3, <1>4 DEF IInv, Kinds, work
  <1>6. \A c : Exists(c) => Exists(c)'
    BY <1>1, <1>4, StillExists DEF IInv, Kinds
  <1>7. References'
    BY <1>4, <1>6 DEF IInv, References, Rows, work
  <1>8. OneGuest'
    BY <1>4 DEF IInv, OneGuest
  <1>9. ClaimantReady'
    <2> SUFFICES ASSUME NEW t \in Slots, run'[t].op = "claim"
                 PROVE  account'[run'[t].account] = "customer" /\ run'[t].grant \in Projects
      BY DEF ClaimantReady
    <2>1. CASE t = s
      BY <1>1, <1>2, <1>3, <1>4, <2>1 DEF IInv, Kinds
    <2>2. CASE t # s
      <3>1. run'[t] = run[t]
        BY <1>3, <2>2 DEF IInv, Kinds
      <3>2. run[t].account \in Accounts /\ account[run[t].account] = "customer"
            /\ run[t].grant \in Projects
        BY <3>1, OfAccount DEF IInv, ClaimantReady
      <3>. QED BY <1>1, <1>4, <3>1, <3>2 DEF IInv, Kinds
    <2>. QED BY <2>1, <2>2
  <1>. QED BY <1>5, <1>7, <1>8, <1>9 DEF IInv

\* A row given to another customer is a row, and nothing else of it changes.
LEMMA SessionGiven ==
  ASSUME NEW row \in Session, NEW c \in Owners
  PROVE  [row EXCEPT !.customer = c] \in Session /\ [row EXCEPT !.customer = c].customer = c
  BY DEF Session

LEMMA OrderGiven ==
  ASSUME NEW row \in Order, NEW c \in Owners
  PROVE  /\ [row EXCEPT !.customer = c] \in Order /\ [row EXCEPT !.customer = c].customer = c
         /\ [row EXCEPT !.customer = c].address = row.address
  BY DEF Order

\* What a claim changes: rows stay rows, and each has its customer as it was or
\* the account's.
LEMMA ClaimChanges ==
  ASSUME IInv, NEW s \in Slots, Claim(s)
  PROVE  /\ run[s].account \in Accounts /\ account[run[s].account] = "customer"
         /\ \A p \in Projects : owner'[p] \in {owner[p], run[s].account}
         /\ owner' \in [Projects -> Owners] /\ UNCHANGED quoted
         /\ address' \in [Addresses -> Owners \cup {NoRow}]
         /\ \A x \in Addresses : address'[x] = address[x]
                \/ (address[x] # NoRow /\ address'[x] = run[s].account)
         /\ session' \in [Sessions -> Session \cup {NoRow}]
         /\ \A x \in Sessions : session'[x] = session[x]
                \/ /\ session[x] # NoRow /\ session'[x] # NoRow
                   /\ session'[x].customer = Taken(session[x].customer, owner[run[s].grant], run[s].account)
         /\ order' \in [Orders -> Order \cup {NoRow}]
         /\ \A o \in Orders : order'[o] = order[o]
                \/ /\ order[o] # NoRow /\ order'[o] # NoRow
                   /\ order'[o].customer = Taken(order[o].customer, owner[run[s].grant], run[s].account)
                   /\ order'[o].address = order[o].address
         /\ owner[run[s].grant] \notin Accounts \/ UNCHANGED work
  <1> DEFINE a == run[s].account
             p == run[s].grant
             from == owner[p]
  <1>1. a \in Accounts /\ p \in Projects /\ account[a] = "customer"
    BY OfAccount DEF Claim, IInv, ClaimantReady
  <1>2. a \in Owners /\ a # NoRow /\ \A c \in Owners : Taken(c, from, a) \in Owners
    BY <1>1, ClaimsAssumption DEF Owners, Customers, Taken
  <1>3. CASE from \in Accounts
    <2>1. UNCHANGED work
      BY <1>3 DEF Claim
    <2>. QED BY <1>1, <2>1 DEF work, IInv, Kinds
  <1>4. CASE from \notin Accounts
    <2> DEFINE ToOrder(o) == [order[o] EXCEPT !.customer = Taken(order[o].customer, from, a)]
               ToSession(x) == [session[x] EXCEPT !.customer = Taken(session[x].customer, from, a)]
    <2>1. /\ owner' = [owner EXCEPT ![p] = a]
          /\ order' = [o \in Orders |->
                IF order[o] # NoRow /\ order[o].project = p THEN ToOrder(o) ELSE order[o]]
          /\ session' = [x \in Sessions |->
                IF session[x] # NoRow /\ session[x].project = p THEN ToSession(x) ELSE session[x]]
          /\ address' = [x \in Addresses |->
                IF x \in quoted[p] THEN Taken(address[x], from, a) ELSE address[x]]
          /\ UNCHANGED quoted
      BY <1>4 DEF Claim
    <2>2. \A o \in Orders : order[o] # NoRow =>
            /\ ToOrder(o) \in Order /\ ToOrder(o).customer = Taken(order[o].customer, from, a)
            /\ ToOrder(o).address = order[o].address
      <3> SUFFICES ASSUME NEW o \in Orders, order[o] # NoRow
                   PROVE  /\ ToOrder(o) \in Order
                          /\ ToOrder(o).customer = Taken(order[o].customer, from, a)
                          /\ ToOrder(o).address = order[o].address
        OBVIOUS
      <3>1. order[o] \in Order /\ order[o].customer \in Owners
        BY DEF IInv, Kinds, Order
      <3>. QED BY <1>2, <3>1, OrderGiven
    <2>3. \A x \in Sessions : session[x] # NoRow =>
            ToSession(x) \in Session /\ ToSession(x).customer = Taken(session[x].customer, from, a)
      <3> SUFFICES ASSUME NEW x \in Sessions, session[x] # NoRow
                   PROVE  ToSession(x) \in Session
                          /\ ToSession(x).customer = Taken(session[x].customer, from, a)
        OBVIOUS
      <3>1. session[x] \in Session /\ session[x].customer \in Owners
        BY DEF IInv, Kinds, Session
      <3>. QED BY <1>2, <3>1, SessionGiven
    <2>4. \A x \in quoted[p] : address[x] # NoRow /\ address[x] \in Owners
      BY <1>1 DEF IInv, Kinds, References, Rows
    <2> HIDE DEF ToOrder, ToSession
    <2>5. /\ owner' \in [Projects -> Owners] /\ \A q \in Projects : owner'[q] \in {owner[q], a}
      BY <1>2, <2>1 DEF IInv, Kinds
    <2>6. /\ order' \in [Orders -> Order \cup {NoRow}]
          /\ \A o \in Orders : order'[o] = order[o]
                \/ /\ order[o] # NoRow /\ order'[o] # NoRow
                   /\ order'[o].customer = Taken(order[o].customer, from, a)
                   /\ order'[o].address = order[o].address
      BY <2>1, <2>2, ClaimsAssumption DEF IInv, Kinds
    <2>7. /\ session' \in [Sessions -> Session \cup {NoRow}]
          /\ \A x \in Sessions : session'[x] = session[x]
                \/ /\ session[x] # NoRow /\ session'[x] # NoRow
                   /\ session'[x].customer = Taken(session[x].customer, from, a)
      BY <2>1, <2>3, ClaimsAssumption DEF IInv, Kinds
    <2>8. /\ address' \in [Addresses -> Owners \cup {NoRow}]
          /\ \A x \in Addresses : address'[x] = address[x]
                \/ (address[x] # NoRow /\ address'[x] = a)
      BY <1>2, <2>1, <2>4 DEF IInv, Kinds, Taken
    <2>. QED BY <1>1, <1>4, <2>1, <2>5, <2>6, <2>7, <2>8
  <1>. QED BY <1>3, <1>4

LEMMA ClaimKeeps ==
  ASSUME IInv, NEW s \in Slots, Claim(s)
  PROVE  IInv'
  <1> DEFINE r == [run[s] EXCEPT !.op = "notify"]
  <1>1. r \in Memory /\ r.op # "claim" /\ Continue(s, r)
    BY OfAccount DEF Claim, IInv, Memory
  <1> HIDE DEF r
  <1>2. /\ run' \in [Slots -> Memory] /\ asked' \in 0 .. MaxRequests
        /\ \A t \in Slots : t # s => run'[t] = run[t]
        /\ run'[s].op # "claim"
    BY <1>1, Continuing DEF IInv, Kinds
  <1>3. UNCHANGED <<account, guest, link>>
    BY DEF Claim
  <1>4. Kinds'
    BY <1>2, <1>3, ClaimChanges DEF IInv, Kinds
  <1>5. \A c : Exists(c)' <=> Exists(c)
    BY <1>2, <1>3, SameCustomers
  <1>6. Exists(run[s].account)
    BY ClaimChanges DEF Exists, Live, Customers
  <1>7. \A x \in Sessions : session'[x] # NoRow => Exists(session'[x].customer)
    BY <1>6, ClaimChanges DEF IInv, References, Rows, Kinds, Taken
  <1>8. Rows(address)' = Rows(address) /\ \A x \in Rows(address) : Exists(address'[x])
    BY <1>6, ClaimChanges, ClaimsAssumption DEF IInv, References, Rows, Kinds, Owners, Customers
  <1>9. \A o \in Orders : order'[o] # NoRow =>
          Exists(order'[o].customer) /\ order'[o].address \in Rows(address)
    BY <1>6, ClaimChanges DEF IInv, References, Rows, Kinds, Taken
  <1>10. \A p \in Projects : Exists(owner'[p])
    BY <1>6, ClaimChanges DEF IInv, References
  <1>11. References'
    <2>1. DOMAIN order' = Orders /\ DOMAIN session' = Sessions
      BY <1>4 DEF Kinds
    <2>. QED BY <1>5, <1>7, <1>8, <1>9, <1>10, <2>1, ClaimChanges DEF IInv, References, Rows
  <1>. QED BY <1>2, <1>3, <1>4, <1>11, SameCustomers DEF IInv

LEMMA AddAddressKeeps ==
  ASSUME IInv, NEW a \in Accounts, AddAddress(a)
  PROVE  IInv'
  <1>1. PICK x \in Addresses \ Rows(address) : address' = [address EXCEPT ![x] = a]
    BY DEF AddAddress
  <1>2. /\ UNCHANGED <<account, guest, owner, quoted, session, order, link, run>>
        /\ asked < MaxRequests /\ asked' = asked + 1 /\ account[a] = "customer"
    BY DEF AddAddress
  <1>3. Kinds'
    BY <1>1, <1>2, ClaimsAssumption DEF IInv, Kinds, Owners, Customers
  <1>4. \A c : Exists(c)' <=> Exists(c)
    BY <1>2 DEF Exists, Live
  <1>5. Exists(a)
    BY <1>2 DEF Exists, Live, Customers
  <1>6. Rows(address)' = Rows(address) \cup {x} /\ \A y \in Rows(address)' : Exists(address'[y])
    BY <1>1, <1>5, ClaimsAssumption DEF IInv, Kinds, References, Rows, Owners, Customers
  <1>7. References'
    BY <1>2, <1>4, <1>6 DEF IInv, References, Rows
  <1>. QED BY <1>2, <1>3, <1>7 DEF IInv, OneGuest, ClaimantReady

LEMMA DeleteAddressKeeps ==
  ASSUME IInv, NEW s \in Slots, DeleteAddress(s)
  PROVE  IInv'
  <1>1. run[s].address \in Addresses
    BY Deletes DEF DeleteAddress, IInv
  <1>2. /\ run' \in [Slots -> Memory] /\ asked' \in 0 .. MaxRequests
        /\ \A t \in Slots : t # s => run'[t] = run[t]
        /\ run'[s].op # "claim"
    BY Ending DEF DeleteAddress, IInv, Kinds, Idle
  <1>3. /\ UNCHANGED <<account, guest, owner, quoted, session, order, link>>
        /\ address' = [address EXCEPT ![run[s].address] = NoRow]
        /\ ~Named(run[s].address)
    BY DEF DeleteAddress
  <1>4. Kinds'
    BY <1>1, <1>2, <1>3 DEF IInv, Kinds
  <1>5. \A c : Exists(c)' <=> Exists(c)
    BY <1>2, <1>3, SameCustomers
  <1>6. Rows(address)' = Rows(address) \ {run[s].address}
    BY <1>1, <1>3 DEF IInv, Kinds, Rows
  <1>7. \A x \in Rows(address)' : Exists(address'[x])
    BY <1>1, <1>3, <1>6 DEF IInv, Kinds, References, Rows
  <1>8. /\ \A p \in Projects : quoted[p] \subseteq Rows(address)'
        /\ \A o \in Rows(order) : order[o].address \in Rows(address)'
    BY <1>3, <1>6 DEF IInv, References, Named
  <1>9. References'
    BY <1>3, <1>5, <1>7, <1>8 DEF IInv, References, Rows
  <1>. QED BY <1>2, <1>3, <1>4, <1>9, SameCustomers DEF IInv

\* What the merge of a guest into an account makes of a table: every row stays,
\* the guest's with the account, so that deleting the guest takes none with it.
LEMMA MergedSessions ==
  ASSUME Kinds, NEW g \in Guests, NEW a \in Accounts, NEW x \in Sessions,
         session' = Deleting(g, Moving(g, a, session))
  PROVE  /\ session'[x] \in Session \cup {NoRow}
         /\ session[x] = NoRow => session'[x] = NoRow
         /\ session[x] # NoRow =>
              /\ session'[x] # NoRow
              /\ session'[x].customer = IF session[x].customer = g THEN a ELSE session[x].customer
  <1>1. a # g /\ a \in Owners /\ DOMAIN session = Sessions
    BY ClaimsAssumption DEF Kinds, Owners, Customers
  <1> DEFINE moved == Moving(g, a, session)
  <1>2. DOMAIN moved = Sessions
    BY <1>1 DEF Moving
  <1>3. session'[x] = IF moved[x] # NoRow /\ moved[x].customer = g THEN NoRow ELSE moved[x]
    BY <1>2 DEF Deleting
  <1>4. CASE session[x] # NoRow /\ session[x].customer = g
    <2>1. moved[x] = [session[x] EXCEPT !.customer = a]
      BY <1>1, <1>4 DEF Moving
    <2>2. session[x] \in Session
      BY <1>4 DEF Kinds
    <2>3. moved[x] \in Session /\ moved[x].customer = a
      BY <1>1, <2>1, <2>2, SessionGiven
    <2> HIDE DEF moved
    <2>. QED BY <1>1, <1>3, <1>4, <2>3, ClaimsAssumption
  <1>5. CASE ~(session[x] # NoRow /\ session[x].customer = g)
    <2>1. moved[x] = session[x]
      BY <1>1, <1>5 DEF Moving
    <2> HIDE DEF moved
    <2>2. session[x] \in Session \cup {NoRow}
      BY DEF Kinds
    <2>. QED BY <1>3, <1>5, <2>1, <2>2
  <1>. QED BY <1>4, <1>5

LEMMA MergedOrders ==
  ASSUME Kinds, NEW g \in Guests, NEW a \in Accounts, NEW x \in Orders,
         order' = Nulling(g, Moving(g, a, order))
  PROVE  /\ order'[x] \in Order \cup {NoRow}
         /\ order[x] = NoRow => order'[x] = NoRow
         /\ order[x] # NoRow =>
              /\ order'[x] # NoRow /\ order'[x].address = order[x].address
              /\ order'[x].customer = IF order[x].customer = g THEN a ELSE order[x].customer
  <1>1. a # g /\ a \in Owners /\ DOMAIN order = Orders
    BY ClaimsAssumption DEF Kinds, Owners, Customers
  <1> DEFINE moved == Moving(g, a, order)
  <1>2. DOMAIN moved = Orders
    BY <1>1 DEF Moving
  <1>3. order'[x] = IF moved[x] # NoRow /\ moved[x].customer = g
                    THEN [moved[x] EXCEPT !.customer = None] ELSE moved[x]
    BY <1>2 DEF Nulling
  <1>4. CASE order[x] # NoRow /\ order[x].customer = g
    <2>1. moved[x] = [order[x] EXCEPT !.customer = a]
      BY <1>1, <1>4 DEF Moving
    <2>2. order[x] \in Order
      BY <1>4 DEF Kinds
    <2>3. moved[x] \in Order /\ moved[x].customer = a /\ moved[x].address = order[x].address
      BY <1>1, <2>1, <2>2, OrderGiven
    <2> HIDE DEF moved
    <2>. QED BY <1>1, <1>3, <1>4, <2>3, ClaimsAssumption
  <1>5. CASE ~(order[x] # NoRow /\ order[x].customer = g)
    <2>1. moved[x] = order[x]
      BY <1>1, <1>5 DEF Moving
    <2> HIDE DEF moved
    <2>2. order[x] \in Order \cup {NoRow}
      BY DEF Kinds
    <2>. QED BY <1>3, <1>5, <2>1, <2>2
  <1>. QED BY <1>4, <1>5

LEMMA ConfirmClaimKeeps ==
  ASSUME IInv, NEW g \in Guests, NEW a \in Accounts, ConfirmClaim(g, a)
  PROVE  IInv'
  <1>1. /\ owner' = [p \in Projects |-> IF owner[p] = g THEN a ELSE owner[p]]
        /\ address' = [x \in Addresses |-> IF address[x] = g THEN a ELSE address[x]]
        /\ order' = Nulling(g, Moving(g, a, order))
        /\ session' = Deleting(g, Moving(g, a, session))
        /\ account' = [account EXCEPT ![a] = "customer"]
        /\ guest' = [guest EXCEPT ![g] = Gone]
        /\ UNCHANGED <<quoted, link, run, asked>>
    BY DEF ConfirmClaim, Merge
  <1>2. a \in Owners /\ a # NoRow /\ g # NoRow
    BY ClaimsAssumption DEF Owners, Customers
  <1>3. Kinds'
    <2>1. session' \in [Sessions -> Session \cup {NoRow}]
      <3>1. session' = [x \in Sessions |-> session'[x]]
        BY <1>1 DEF IInv, Kinds, Deleting, Moving
      <3>2. \A x \in Sessions : session'[x] \in Session \cup {NoRow}
        BY <1>1, MergedSessions DEF IInv
      <3>. QED BY <3>1, <3>2
    <2>2. order' \in [Orders -> Order \cup {NoRow}]
      <3>1. order' = [x \in Orders |-> order'[x]]
        BY <1>1 DEF IInv, Kinds, Nulling, Moving
      <3>2. \A x \in Orders : order'[x] \in Order \cup {NoRow}
        BY <1>1, MergedOrders DEF IInv
      <3>. QED BY <3>1, <3>2
    <2>. QED BY <1>1, <1>2, <2>1, <2>2 DEF IInv, Kinds
  <1>4. \A c : Exists(c) /\ c # g => Exists(c)'
    BY <1>1, ClaimsAssumption DEF IInv, Kinds, Exists, Live, Customers
  <1>5. Exists(a)'
    BY <1>1 DEF IInv, Kinds, Exists, Live, Customers
  <1>6. \A p \in Projects : Exists(owner[p])
    BY DEF IInv, References
  <1>7. \A p \in Projects : Exists(owner[p])'
    BY <1>1, <1>4, <1>5, <1>6
  <1>8. Rows(address)' = Rows(address) /\ \A x \in Rows(address) : Exists(address[x])'
    BY <1>1, <1>2, <1>4, <1>5 DEF IInv, Kinds, References, Rows
  <1>9. \A x \in Rows(session)' : Exists(session[x].customer)'
    BY <1>1, <1>3, <1>4, <1>5, MergedSessions DEF IInv, Kinds, References, Rows
  <1>10. \A x \in Rows(order)' : Exists(order[x].customer)' /\ order'[x].address \in Rows(address)'
    <2> SUFFICES ASSUME NEW x \in Orders, order'[x] # NoRow
                 PROVE  Exists(order[x].customer)' /\ order'[x].address \in Rows(address)'
      BY <1>3 DEF Kinds, Rows
    <2>1. /\ order[x] # NoRow /\ order'[x].address = order[x].address
          /\ order'[x].customer = IF order[x].customer = g THEN a ELSE order[x].customer
      BY <1>1, MergedOrders DEF IInv
    <2>2. Exists(order[x].customer) /\ order[x].address \in Rows(address)
      BY <2>1 DEF IInv, Kinds, References, Rows
    <2>. QED BY <1>4, <1>5, <1>8, <2>1, <2>2
  <1>11. References'
    BY <1>1, <1>7, <1>8, <1>9, <1>10 DEF IInv, References
  <1>12. OneGuest'
    BY <1>1, ClaimsAssumption DEF IInv, Kinds, OneGuest
  <1>13. ClaimantReady'
    BY <1>1, OfAccount DEF IInv, Kinds, ClaimantReady
  <1>. QED BY <1>3, <1>11, <1>12, <1>13 DEF IInv

LEMMA NextIInv == IInv /\ [Next]_vars => IInv'
  <1> SUFFICES ASSUME IInv, [Next]_vars PROVE IInv'
    OBVIOUS
  <1>1. ASSUME NEW s \in Slots, NEW op \in {"email", "configure", "pay"}, NEW p \in Projects,
               NEW e \in Emails \cup {None}, ReadProject(s, op, p, e)
        PROVE  IInv'
    BY <1>1, ReadProjectKeeps
  <1>2. ASSUME NEW s \in Slots,
               \/ FindGuest(s) \/ SaveLead(s) \/ Configure(s)
               \/ OpenSession(s) \/ PlaceOrder(s) \/ Decline(s) \/ GiveUp(s)
               \/ MakeCustomer(s) \/ Claim(s) \/ SendLink(s) \/ DeleteAddress(s)
        PROVE  IInv'
    BY <1>2, FindGuestKeeps, SaveLeadKeeps, ConfigureKeeps, OpenSessionKeeps, PlaceOrderKeeps,
       DeclineKeeps, GiveUpKeeps, MakeCustomerKeeps, ClaimKeeps, SendLinkKeeps, DeleteAddressKeeps
  <1>3. ASSUME NEW s \in Slots, NEW a \in Accounts, NEW p \in Projects \cup {None}, SignUp(s, a, p)
        PROVE  IInv'
    BY <1>3, SignUpKeeps
  <1>4. ASSUME NEW s \in Slots, NEW a \in Accounts,
               AskLink(s, a) \/ \E x \in Addresses : CheckAddress(s, a, x)
        PROVE  IInv'
    BY <1>4, AskLinkKeeps, CheckAddressKeeps
  <1>5. ASSUME NEW g \in Guests, NEW a \in Accounts, ConfirmClaim(g, a)
        PROVE  IInv'
    BY <1>5, ConfirmClaimKeeps
  <1>6. ASSUME NEW a \in Accounts, AddAddress(a)
        PROVE  IInv'
    BY <1>6, AddAddressKeeps
  <1>7. CASE UNCHANGED vars
    BY <1>7 DEF vars, work, IInv, Kinds, References, Rows, Exists, Live, OneGuest, ClaimantReady
  <1>. QED BY <1>1, <1>2, <1>3, <1>4, <1>5, <1>6, <1>7 DEF Next

\* Rows are of their kinds and refer to rows there are, and who claims a project
\* has a customers row, however requests, claims and deletions interleave.
THEOREM Invariance == Spec => []IInv
  BY InitIInv, NextIInv, PTL DEF Spec

\* TypeOK: no row of the database refers to a customer or an address that is
\* gone, and an e-mail address has one guest at most.
THEOREM TypeCorrect == Spec => []TypeOK
  <1>1. IInv => TypeOK
    BY DEF IInv, TypeOK, OneGuest
  <1>. QED BY <1>1, Invariance, PTL

-----------------------------------------------------------------------------
(***************************************************************************)
(* Work is kept.                                                           *)
(***************************************************************************)

LEMMA StepKeepsWork ==
  ASSUME IInv, [Next]_vars
  PROVE  /\ \A o \in Orders : Kept(order[o], order'[o])
         /\ \A x \in Sessions : Kept(session[x], session'[x])
  <1>1. CASE UNCHANGED <<order, session>>
    BY <1>1, KeptAsIs
  <1>2. ASSUME NEW s \in Slots, OpenSession(s)
        PROVE  /\ \A o \in Orders : Kept(order[o], order'[o])
               /\ \A x \in Sessions : Kept(session[x], session'[x])
    <2>1. /\ UNCHANGED order
          /\ \/ UNCHANGED session
             \/ \E x \in Sessions \ Rows(session) : \E row : session' = [session EXCEPT ![x] = row]
      BY <1>2 DEF OpenSession
    <2>2. \A x \in Sessions : session[x] = NoRow \/ session'[x] = session[x]
      BY <2>1 DEF IInv, Kinds, Rows
    <2>. QED BY <2>1, <2>2, KeptAsIs DEF Kept
  <1>3. ASSUME NEW s \in Slots, PlaceOrder(s)
        PROVE  /\ \A o \in Orders : Kept(order[o], order'[o])
               /\ \A x \in Sessions : Kept(session[x], session'[x])
    <2>1. /\ UNCHANGED session
          /\ \E o \in Orders \ Rows(order) : \E row : order' = [order EXCEPT ![o] = row]
      BY <1>3 DEF PlaceOrder
    <2>2. \A o \in Orders : order[o] = NoRow \/ order'[o] = order[o]
      BY <2>1 DEF IInv, Kinds, Rows
    <2>. QED BY <2>1, <2>2, KeptAsIs DEF Kept
  <1>4. ASSUME NEW s \in Slots, Decline(s)
        PROVE  /\ \A o \in Orders : Kept(order[o], order'[o])
               /\ \A x \in Sessions : Kept(session[x], session'[x])
    <2>1. UNCHANGED order
      BY <1>4 DEF Decline
    <2>2. CASE UNCHANGED session
      BY <2>1, <2>2, KeptAsIs
    <2>3. CASE session[run[s].session] # NoRow
      <3> DEFINE new == [session[run[s].session] EXCEPT !.active = FALSE]
      <3>1. run[s].session \in Sessions
        BY <1>4, Paying DEF Decline, IInv
      <3>2. session[run[s].session] \in Session
        BY <2>3, <3>1 DEF IInv, Kinds
      <3>3. new \in Session /\ new.customer = session[run[s].session].customer
        BY <3>2 DEF Session
      <3>4. session' = [session EXCEPT ![run[s].session] = new]
        BY <1>4, <2>3 DEF Decline
      <3> HIDE DEF new
      <3>. QED BY <2>1, <3>1, <3>3, <3>4, KeptAsIs, ClaimsAssumption DEF Kept, IInv, Kinds
    <2>. QED BY <1>4, <2>2, <2>3 DEF Decline
  <1>5. ASSUME NEW s \in Slots, Claim(s)
        PROVE  /\ \A o \in Orders : Kept(order[o], order'[o])
               /\ \A x \in Sessions : Kept(session[x], session'[x])
    <2> DEFINE a == run[s].account
               from == owner[run[s].grant]
    <2>1. CASE from \in Accounts
      <3>1. UNCHANGED <<order, session>>
        BY <1>5, <2>1 DEF Claim, work
      <3>. QED BY <3>1, KeptAsIs
    <2>2. CASE from \notin Accounts
      <3>1. a \in Accounts /\ a # None
        BY <1>5, ClaimChanges, ClaimsAssumption DEF Customers
      <3>2. \A c : (c # None => Taken(c, from, a) # None) /\ (c \in Accounts => Taken(c, from, a) = c)
        BY <2>2, <3>1, ClaimsAssumption DEF Taken, Customers
      <3>3. \A o \in Orders : order'[o] = order[o] \/
              (/\ order[o] # NoRow /\ order'[o] # NoRow
               /\ order'[o].customer = Taken(order[o].customer, from, a))
        BY <1>5, ClaimChanges
      <3>4. \A x \in Sessions : session'[x] = session[x] \/
              (/\ session[x] # NoRow /\ session'[x] # NoRow
               /\ session'[x].customer = Taken(session[x].customer, from, a))
        BY <1>5, ClaimChanges
      <3> HIDE DEF from, a
      <3>. QED BY <3>2, <3>3, <3>4 DEF Kept
    <2>. QED BY <2>1, <2>2
  <1>6. ASSUME NEW g \in Guests, NEW a \in Accounts, ConfirmClaim(g, a)
        PROVE  /\ \A o \in Orders : Kept(order[o], order'[o])
               /\ \A x \in Sessions : Kept(session[x], session'[x])
    <2>1. /\ order' = Nulling(g, Moving(g, a, order))
          /\ session' = Deleting(g, Moving(g, a, session))
      BY <1>6 DEF ConfirmClaim, Merge
    <2>2. a # None /\ g \notin Accounts
      BY ClaimsAssumption DEF Customers
    <2>. QED BY <2>1, <2>2, MergedOrders, MergedSessions DEF IInv, Kept
  <1>. QED BY <1>1, <1>2, <1>3, <1>4, <1>5, <1>6
           DEF Next, vars, work, ReadProject, FindGuest, SaveLead, Configure, GiveUp, MakeCustomer,
               SendLink, DeleteAddress, SignUp, AskLink, CheckAddress, AddAddress

\* WorkIsKept: no interleaving of payments, claims, merges and deletions takes an
\* order or a session from an account, loses it, or leaves it without a customer.
THEOREM WorkStays == Spec => WorkIsKept
  <1>1. IInv /\ [Next]_vars => [/\ \A o \in Orders : Kept(order[o], order'[o])
                                /\ \A x \in Sessions : Kept(session[x], session'[x])]_vars
    BY StepKeepsWork
  <1>. QED BY <1>1, Invariance, PTL DEF Spec, WorkIsKept
=============================================================================
