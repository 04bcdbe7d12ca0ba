------------------------------- MODULE Claims -------------------------------
(***************************************************************************)
(* Whose a guest's work is: projects, the addresses of their quotes,       *)
(* checkout sessions and orders belong to customers rows, those of         *)
(* accounts and those of guests known by an e-mail address only, and move  *)
(* from a guest to an account by a project's grant at sign-up or by a link *)
(* sent to the guest's address (lead_customer_service.ts,                  *)
(* customer_claim_service.ts, guest_claim_service.ts, and what configure   *)
(* and pay write of a customer).                                           *)
(*                                                                         *)
(* A request works with the project and session it read.  A transaction is *)
(* one step: claimProject holds the project's row and mergeGuestCustomer   *)
(* the guest's, every insert or update that refers to them waits for that  *)
(* (a foreign key's share lock), and the database may undo any of them (a  *)
(* deadlock).  A row may refer only to a customer and an address there are.*)
(***************************************************************************)
EXTENDS Naturals, FiniteSets

CONSTANTS
    Accounts,       \* people who may sign up
    Emails,
    EmailOf,        \* each account's address (users.email is unique)
    Guests,         \* rows without an account there may be
    Projects,       \* instant-quote projects, each with one quote to pay for
    Addresses, Sessions, Orders,    \* rows there may be
    Slots,          \* requests, reused when one has ended
    MaxRequests,    \* requests at most
    None,           \* no customer, no e-mail address
    NoRow, Gone     \* a row not there (yet), a guest deleted

Customers == Accounts \cup Guests
Owners == Customers \cup {None}
Session == [project : Projects, customer : Owners, active : BOOLEAN]
Order == [project : Projects, session : Sessions, customer : Owners, address : Addresses]

ASSUME ClaimsAssumption ==
    /\ EmailOf \in [Accounts -> Emails]
    /\ \A a, b \in Accounts : EmailOf[a] = EmailOf[b] => a = b
    /\ Accounts \cap Guests = {} /\ None \notin Customers /\ NoRow \notin Owners
    /\ NoRow \notin Session /\ NoRow \notin Order
    /\ None \notin Emails /\ Gone \notin Emails /\ MaxRequests \in Nat

VARIABLES
    account,    \* "none", "user" before its customers row, "customer"
    guest,      \* each guest row's e-mail address, None before it and Gone after
    owner,      \* projects.customer_id
    address,    \* addresses rows, by their customer_id
    quoted,     \* the addresses that revisions of a project's quote name
    session,    \* checkout_sessions rows
    order,      \* orders rows, each with its payment's session
    link,       \* signed claim links sent: guest row and account
    run,        \* what each request is doing and holds in memory
    asked       \* requests so far

vars == <<account, guest, owner, address, quoted, session, order, link, run, asked>>
work == <<owner, address, quoted, session, order>>

Idle == [op |-> "none"]
Live(c) == \/ c \in Guests /\ guest[c] \in Emails
           \/ c \in Accounts /\ account[c] = "customer"
Exists(c) == c \in {None} \cup {x \in Customers : Live(x)}
Rows(table) == {x \in DOMAIN table : table[x] # NoRow}

Begin(s, r) == /\ run[s] = Idle /\ asked < MaxRequests /\ asked' = asked + 1
               /\ run' = [run EXCEPT ![s] = r]
Continue(s, r) == run' = [run EXCEPT ![s] = r] /\ UNCHANGED asked
Ends(s) == Continue(s, Idle)

Init ==
    /\ account = [a \in Accounts |-> "none"]
    /\ guest = [g \in Guests |-> None]
    /\ owner = [p \in Projects |-> None]
    /\ address = [a \in Addresses |-> NoRow]
    /\ quoted = [p \in Projects |-> {}]
    /\ session = [x \in Sessions |-> NoRow]
    /\ order = [o \in Orders |-> NoRow]
    /\ link = {} /\ run = [s \in Slots |-> Idle] /\ asked = 0

-----------------------------------------------------------------------------
(***************************************************************************)
(* Requests on a project, made by whoever holds its grant.                 *)
(***************************************************************************)

\* The project is read.  One without a customer is given the guest of the
\* e-mail address sent along (staff may configure without one).
ReadProject(s, op, p, e) ==
    /\ op = "email" => owner[p] = None
    /\ op = "pay" => quoted[p] # {} /\ \A o \in Rows(order) : order[o].project # p
    /\ e = None => owner[p] # None \/ op = "configure"
    /\ e # None => owner[p] = None
    /\ Begin(s, [op |-> IF e = None THEN op ELSE "attach", then |-> op,
                 project |-> p, customer |-> owner[p], email |-> e])
    /\ UNCHANGED <<account, guest, link, work>>

\* firstOrCreate by the address.
FindGuest(s) ==
    LET r == run[s]
        known == {g \in Guests : guest[g] = r.email}
        Found(g) == Continue(s, [r EXCEPT !.op = "save", !.customer = g]) IN
    /\ r.op = "attach"
    /\ IF known # {} THEN (\E g \in known : Found(g)) /\ UNCHANGED guest
       ELSE \E g \in Guests : /\ guest[g] = None
                              /\ guest' = [guest EXCEPT ![g] = r.email] /\ Found(g)
    /\ UNCHANGED <<account, link, work>>

\* The project as read is saved, whoever has it by now.
SaveLead(s) ==
    LET r == run[s] IN
    /\ r.op = "save"
    /\ IF Live(r.customer)
       THEN /\ owner' = [owner EXCEPT ![r.project] = r.customer]
            /\ IF r.then = "email" THEN Ends(s) ELSE Continue(s, [r EXCEPT !.op = r.then])
       ELSE Ends(s) /\ UNCHANGED owner
    /\ UNCHANGED <<account, guest, address, quoted, session, order, link>>

\* A revision of the quote names a saved address of the customer's as read, or
\* a new one made for that customer.
Configure(s) ==
    LET r == run[s] IN
    /\ r.op = "configure"
    /\ \/ \E a \in Rows(address) :
            /\ r.customer # None /\ address[a] = r.customer
            /\ quoted' = [quoted EXCEPT ![r.project] = @ \cup {a}] /\ UNCHANGED address
       \/ \E a \in Addresses \ Rows(address) :
            /\ Exists(r.customer)
            /\ address' = [address EXCEPT ![a] = r.customer]
            /\ quoted' = [quoted EXCEPT ![r.project] = @ \cup {a}]
    /\ Ends(s)
    /\ UNCHANGED <<account, guest, owner, session, order, link>>

\* The quote's active session is found, or made for the customer as read; one
\* that is paid for has its order (and ends the request).
OpenSession(s) ==
    LET r == run[s]
        active == {x \in Rows(session) : session[x].project = r.project /\ session[x].active}
        With(x, c) == \E a \in quoted[r.project] :
            Continue(s, [op |-> "authorize", session |-> x, customer |-> c,
                         project |-> r.project, address |-> a]) IN
    /\ r.op = "pay"
    /\ IF active # {} THEN /\ \E x \in active : /\ \A o \in Rows(order) : order[o].session # x
                                                /\ With(x, session[x].customer)
                           /\ UNCHANGED session
       ELSE \E x \in Sessions \ Rows(session) :
                /\ Exists(r.customer)
                /\ session' = [session EXCEPT ![x] =
                      [project |-> r.project, customer |-> r.customer, active |-> TRUE]]
                /\ With(x, r.customer)
    /\ UNCHANGED <<account, guest, owner, address, quoted, order, link>>

\* The card is authorized: the address and a new order become the customer's
\* of the session as read.
PlaceOrder(s) ==
    LET r == run[s] IN
    /\ r.op = "authorize" /\ Exists(r.customer) /\ address[r.address] # NoRow
    /\ address' = [address EXCEPT ![r.address] = r.customer]
    /\ \E o \in Orders \ Rows(order) :
          order' = [order EXCEPT ![o] = [project |-> r.project, session |-> r.session,
                                         customer |-> r.customer, address |-> r.address]]
    /\ Ends(s)
    /\ UNCHANGED <<account, guest, owner, quoted, session, link>>

\* The card is declined: the session fails and the next payment makes another.
Decline(s) ==
    LET r == run[s] IN
    /\ r.op = "authorize"
    /\ session' = IF session[r.session] = NoRow THEN session
                  ELSE [session EXCEPT ![r.session].active = FALSE]
    /\ Ends(s)
    /\ UNCHANGED <<account, guest, owner, address, quoted, order, link>>

\* Anything else that ends a request: 3D Secure is asked for, a row it refers to
\* is gone, the database undoes its transaction, the process dies.
GiveUp(s) ==
    /\ run[s] # Idle /\ Ends(s)
    /\ UNCHANGED <<account, guest, link, work>>

-----------------------------------------------------------------------------
(***************************************************************************)
(* Accounts and claims.                                                    *)
(***************************************************************************)

SignUp(s, a, p) ==
    /\ account[a] = "none"
    /\ account' = [account EXCEPT ![a] = "user"]
    /\ Begin(s, [op |-> "signup", account |-> a, grant |-> p, customer |-> None])
    /\ UNCHANGED <<guest, link, work>>

MakeCustomer(s) ==
    LET r == run[s] IN
    /\ r.op = "signup"
    /\ account' = [account EXCEPT ![r.account] = "customer"]
    /\ Continue(s, [r EXCEPT !.op = IF r.grant = None THEN "notify" ELSE "claim"])
    /\ UNCHANGED <<guest, link, work>>

\* Slip: the project's rows are taken whosever they are.
TakenAnyway(c, from, a) == a

\* A guest's row or one without a customer goes to account a, another's stays.
Taken(c, from, a) == IF c = None \/ c = from THEN a ELSE c

\* claimProject, by the grant the sign-up carried: of a guest's or nobody's
\* project, with its orders, sessions and the addresses of its quotes.
Claim(s) ==
    LET r == run[s]
        p == r.grant
        from == owner[p]
        To(row) == [row EXCEPT !.customer = Taken(row.customer, from, r.account)] IN
    /\ r.op = "claim"
    /\ IF from \in Accounts THEN UNCHANGED work
       ELSE /\ owner' = [owner EXCEPT ![p] = r.account]
            /\ order' = [o \in Orders |->
                  IF order[o] # NoRow /\ order[o].project = p THEN To(order[o]) ELSE order[o]]
            /\ session' = [x \in Sessions |->
                  IF session[x] # NoRow /\ session[x].project = p THEN To(session[x]) ELSE session[x]]
            /\ address' = [a \in Addresses |->
                  IF a \in quoted[p] THEN Taken(address[a], from, r.account) ELSE address[a]]
            /\ UNCHANGED quoted
    /\ Continue(s, [r EXCEPT !.op = "notify"])
    /\ UNCHANGED <<account, guest, link>>

\* A guest of this address that has a project.
Claimable(a) == {g \in Guests : guest[g] = EmailOf[a] /\ \E p \in Projects : owner[p] = g}

\* At sign-up, or when the account asks for it again.
SendLink(s) ==
    /\ run[s].op = "notify"
    /\ link' = link \cup (Claimable(run[s].account) \X {run[s].account})
    /\ Ends(s)
    /\ UNCHANGED <<account, guest, work>>

AskLink(s, a) ==
    /\ account[a] # "none"
    /\ Begin(s, [op |-> "notify", account |-> a, grant |-> None, customer |-> None])
    /\ UNCHANGED <<account, guest, link, work>>

\* The guest's row is deleted: sessions that still name it go with it, other
\* rows are left without a customer.
Deleting(g, table) == [x \in DOMAIN table |->
    IF table[x] # NoRow /\ table[x].customer = g THEN NoRow ELSE table[x]]
Nulling(g, table) == [x \in DOMAIN table |->
    IF table[x] # NoRow /\ table[x].customer = g THEN [table[x] EXCEPT !.customer = None]
    ELSE table[x]]
Moving(g, a, table) == [x \in DOMAIN table |->
    IF table[x] # NoRow /\ table[x].customer = g THEN [table[x] EXCEPT !.customer = a]
    ELSE table[x]]

\* mergeGuestCustomer: all that is the guest's goes to the account.
Merge(g, a) ==
    /\ owner' = [p \in Projects |-> IF owner[p] = g THEN a ELSE owner[p]]
    /\ address' = [x \in Addresses |-> IF address[x] = g THEN a ELSE address[x]]
    /\ order' = Nulling(g, Moving(g, a, order))
    /\ session' = Deleting(g, Moving(g, a, session))

\* The link is opened by the account it was sent for, while the guest is one.
ConfirmClaim(g, a) ==
    /\ <<g, a>> \in link /\ guest[g] = EmailOf[a]
    /\ Merge(g, a)
    /\ account' = [account EXCEPT ![a] = "customer"]
    /\ guest' = [guest EXCEPT ![g] = Gone]
    /\ UNCHANGED <<quoted, link, run, asked>>

-----------------------------------------------------------------------------
(***************************************************************************)
(* The address book of an account.                                         *)
(***************************************************************************)

\* createAddress.
AddAddress(a) ==
    /\ account[a] = "customer" /\ asked < MaxRequests /\ asked' = asked + 1
    /\ \E x \in Addresses \ Rows(address) : address' = [address EXCEPT ![x] = a]
    /\ UNCHANGED <<account, guest, owner, quoted, session, order, link, run>>

Named(x) == \/ \E p \in Projects : x \in quoted[p]
            \/ \E o \in Rows(order) : order[o].address = x

\* deleteAddress counts the rows that name it ...
CheckAddress(s, a, x) ==
    /\ address[x] = a /\ ~Named(x)
    /\ Begin(s, [op |-> "delete", address |-> x, customer |-> None])
    /\ UNCHANGED <<account, guest, link, work>>

\* Slip: no foreign key backs the count.
DeleteCounted(s) ==
    LET x == run[s].address IN
    /\ run[s].op = "delete"
    /\ address' = [address EXCEPT ![x] = NoRow]
    /\ Ends(s)
    /\ UNCHANGED <<account, guest, owner, quoted, session, order, link>>

\* ... and deletes it, which the foreign keys refuse if there is one now.
DeleteAddress(s) ==
    LET x == run[s].address IN
    /\ run[s].op = "delete" /\ ~Named(x)
    /\ address' = [address EXCEPT ![x] = NoRow]
    /\ Ends(s)
    /\ UNCHANGED <<account, guest, owner, quoted, session, order, link>>

-----------------------------------------------------------------------------
Next ==
    \/ \E s \in Slots, op \in {"email", "configure", "pay"}, p \in Projects, e \in Emails \cup {None} :
          ReadProject(s, op, p, e)
    \/ \E s \in Slots :
          \/ FindGuest(s) \/ SaveLead(s) \/ Configure(s)
          \/ OpenSession(s) \/ PlaceOrder(s) \/ Decline(s) \/ GiveUp(s)
          \/ MakeCustomer(s) \/ Claim(s) \/ SendLink(s) \/ DeleteAddress(s)
    \/ \E s \in Slots, a \in Accounts, p \in Projects \cup {None} : SignUp(s, a, p)
    \/ \E s \in Slots, a \in Accounts : AskLink(s, a) \/ \E x \in Addresses : CheckAddress(s, a, x)
    \/ \E g \in Guests, a \in Accounts : ConfirmClaim(g, a)
    \/ \E a \in Accounts : AddAddress(a)

Spec == Init /\ [][Next]_vars

-----------------------------------------------------------------------------
Memory ==
    {Idle} \cup [op : {"attach", "save", "email", "configure", "pay"}, then : {"email", "configure", "pay"},
                project : Projects, customer : Owners, email : Emails \cup {None}]
    \cup [op : {"authorize"}, session : Sessions, customer : Owners, project : Projects,
          address : Addresses]
    \cup [op : {"signup", "claim", "notify"}, account : Accounts, grant : Projects \cup {None},
          customer : {None}]
    \cup [op : {"delete"}, address : Addresses, customer : {None}]

Kinds ==
    /\ account \in [Accounts -> {"none", "user", "customer"}]
    /\ guest \in [Guests -> Emails \cup {None, Gone}]
    /\ owner \in [Projects -> Owners]
    /\ address \in [Addresses -> Owners \cup {NoRow}]
    /\ quoted \in [Projects -> SUBSET Addresses]
    /\ session \in [Sessions -> Session \cup {NoRow}]
    /\ order \in [Orders -> Order \cup {NoRow}]
    /\ link \subseteq Guests \X Accounts
    /\ run \in [Slots -> Memory] /\ asked \in 0 .. MaxRequests

\* A row names only customers and addresses there are.
References ==
    /\ \A p \in Projects : Exists(owner[p])
    /\ \A a \in Rows(address) : Exists(address[a])
    /\ \A p \in Projects : quoted[p] \subseteq Rows(address)
    /\ \A x \in Rows(session) : Exists(session[x].customer)
    /\ \A o \in Rows(order) : Exists(order[o].customer) /\ order[o].address \in Rows(address)

\* Rows are of their kinds and name what there is, and one guest at most has an
\* e-mail address (create_customers_table.ts:18).
TypeOK ==
    /\ Kinds
    /\ References
    /\ \A g, h \in Guests : guest[g] \in Emails /\ guest[g] = guest[h] => g = h

Kept(row, next) ==
    row # NoRow => /\ next # NoRow
                   /\ row.customer # None => next.customer # None
                   /\ row.customer \in Accounts => next.customer = row.customer

\* Claims only ever take from a guest (customer_claim_service.ts:18): an order or
\* session an account has stays its own, whoever else signs up with the project's
\* grant or opens a link; and none is lost or left without its customer when a
\* guest's row is deleted under it.
WorkIsKept ==
    [][/\ \A o \in Orders : Kept(order[o], order'[o])
       /\ \A x \in Sessions : Kept(session[x], session'[x])]_vars
=============================================================================
