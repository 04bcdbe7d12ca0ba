------------------------------ MODULE Quoting ------------------------------
(***************************************************************************)
(* One instant-quote project: its files, which a slicer works on and       *)
(* answers for, its quotes in their lineages of revisions, and the jobs    *)
(* that expire and purge it (project_files_controller.ts,                  *)
(* quote_generation_service.ts, quotes_controller.ts, quote_split_service, *)
(* auto_quote_service, technology_lock_service).                           *)
(*                                                                         *)
(* Every handler reads first, without a lock, and writes later, in one     *)
(* statement or transaction: it is two actions, and MaxInFlight handlers   *)
(* run at once.  A row a handler holds in memory is written back by its    *)
(* changed columns only, so what it read decides what it writes.           *)
(*                                                                         *)
(* Prices, quantities and materials are left out: of a part the model      *)
(* keeps the technology, of which only "fdm" is priced yet, and whether an *)
(* FDM job has told its grams since the technology was last switched.      *)
(***************************************************************************)
EXTENDS Naturals, Sequences, FiniteSets

CONSTANTS
    Files,          \* files the customer may upload
    Slots,          \* requests and callbacks, reused when one has ended
    Ops,            \* the handlers that run, and whether the queue redelivers
    MaxInFlight,    \* handlers running at once
    MaxQuotes,      \* quote rows written at most
    MaxRequests,    \* requests, job runs and repeated deliveries at most
    None

AllOps == {"progress", "answer", "switch", "material", "configure", "requantify",
           "accept", "store", "split", "expire", "purge", "redeliver"}

ASSUME QuotingAssumption ==
    /\ Ops \subseteq AllOps /\ IsFiniteSet(Slots)
    /\ MaxInFlight \in Nat \ {0} /\ MaxQuotes \in Nat /\ MaxRequests \in Nat

VARIABLES
    project,   \* projects.status
    file,      \* project_files rows
    jobs,      \* deliveries of each slicing job not answered yet
    quotes,    \* quotes rows in the order they were written, each with the quote
               \* its lines were first written for (born)
    bought,    \* the project's checkout: none, a session, an order being made
    run,       \* what each handler is doing and holds in memory
    asked      \* requests, job runs and repeated deliveries so far

vars == <<project, file, jobs, quotes, bought, run, asked>>

Technologies == {"fdm", "sla"}
FileStatus == {"absent", "pending", "processing", "completed", "failed", "purged"}
QuoteStatus == {"draft", "accepted", "rejected", "needs_review"}

Ids == DOMAIN quotes
\* Slip: a revision of a revision is rooted in that revision.
RootForgotten(q) == q

Root(q) == IF quotes[q].origin = None THEN q ELSE quotes[q].origin
Lineage(root) == {q \in Ids : Root(q) = root}
Newest(S) == CHOOSE q \in S : \A p \in S : quotes[p].rev <= quotes[q].rev
IsLatest(q) == \A p \in Lineage(Root(q)) : quotes[p].rev <= quotes[q].rev
LiveRoots == {Root(q) : q \in {p \in Ids : quotes[p].status # "rejected"}}

Exists(f) == file[f].status \notin {"absent", "purged"}
Settled == \A f \in Files : file[f].status \notin {"pending", "processing"}
Priceable(f) == file[f].status = "completed" /\ file[f].grams /\ file[f].tech = "fdm"

\* The lines of a quote whose file is still there (purging nulls the others').
Present(items) == {f \in items : file[f].status # "purged"}

Idle == [op |-> "idle"]
Callbacks == {"progress", "answer"}
Begin(s, r) == /\ r.op \in Ops
               /\ run[s] = Idle
               /\ Cardinality({t \in Slots : run[t] # Idle}) < MaxInFlight
               /\ run' = [run EXCEPT ![s] = r]
               /\ asked' = asked + (IF r.op \in Callbacks THEN 0 ELSE 1)
               /\ asked' <= MaxRequests
Ends(s) == run' = [run EXCEPT ![s] = Idle] /\ UNCHANGED asked
Continue(s, r) == run' = [run EXCEPT ![s] = r] /\ UNCHANGED asked

Init ==
    /\ project = "draft"
    /\ file = [f \in Files |-> [status |-> "absent", tech |-> "fdm", grams |-> FALSE]]
    /\ jobs = [f \in Files |-> [t \in Technologies |-> 0]]
    /\ quotes = <<>>
    /\ bought = "none"
    /\ run = [s \in Slots |-> Idle]
    /\ asked = 0

-----------------------------------------------------------------------------
(***************************************************************************)
(* Uploading, and the slicer's callbacks.                                  *)
(***************************************************************************)

\* A model is uploaded, to a new project or to one that has files already,
\* whatever the project's status, and queued for the slicer.
Upload(f) ==
    /\ file[f].status = "absent"
    /\ file' = [file EXCEPT ![f].status = "pending"]
    /\ jobs' = [jobs EXCEPT ![f]["fdm"] = 1]
    /\ UNCHANGED <<project, quotes, bought, run, asked>>

\* Deliveries of a job whose worker is in the middle of a progress call.
Reporting(f, t) ==
    Cardinality({s \in Slots : run[s].op = "progress" /\ run[s].file = f /\ run[s].tech = t})

\* A worker of the slicer reports progress on a file that is still pending (the
\* percentage of any other is left out) ...
ProgressRead(s, f, t) ==
    /\ jobs[f][t] > Reporting(f, t) /\ file[f].status = "pending"
    /\ Begin(s, [op |-> "progress", file |-> f, tech |-> t])
    /\ UNCHANGED <<project, file, jobs, quotes, bought>>

\* ... and makes it processing, whatever it has become.
ProgressSave(s) ==
    LET f == run[s].file IN
    /\ run[s].op = "progress"
    /\ file' = IF Exists(f) THEN [file EXCEPT ![f].status = "processing"] ELSE file
    /\ Ends(s)
    /\ UNCHANGED <<project, jobs, quotes, bought>>

\* The queue hands a job nobody has answered yet to another worker as well.
Redeliver(f, t) ==
    /\ jobs[f][t] > 0 /\ asked < MaxRequests /\ "redeliver" \in Ops
    /\ jobs' = [jobs EXCEPT ![f][t] = @ + 1]
    /\ asked' = asked + 1
    /\ UNCHANGED <<project, file, quotes, bought, run>>

\* A worker answers.  Nothing in the answer says which job it is of.
AnswerRead(s, f, t) ==
    /\ jobs[f][t] > Reporting(f, t)
    /\ jobs' = [jobs EXCEPT ![f][t] = @ - 1]
    /\ IF Exists(f)
       THEN Begin(s, [op |-> "answer", file |-> f, tech |-> t, status |-> file[f].status,
                      grams |-> file[f].grams])
       ELSE "answer" \in Ops /\ UNCHANGED <<run, asked>>
    /\ UNCHANGED <<project, file, quotes, bought>>

\* The changed columns are written; only an FDM job tells grams.
AnswerSave(s, outcome) ==
    LET r == run[s]
        told == outcome = "completed" /\ r.tech = "fdm" /\ ~r.grams IN
    /\ r.op = "answer"
    /\ file' = IF Exists(r.file)
               THEN [file EXCEPT ![r.file].status = IF outcome = r.status THEN @ ELSE outcome,
                                 ![r.file].grams = @ \/ told]
               ELSE file
    /\ Continue(s, [op |-> "auto"])
    /\ UNCHANGED <<project, jobs, quotes, bought>>

-----------------------------------------------------------------------------
(***************************************************************************)
(* Writing a quote of freshly priced lines.                                *)
(***************************************************************************)

\* Slip: nothing is quoted until every file can be priced.
AutoQuoteAllOrNone(s) ==
    LET items == {f \in Files : Exists(f)} IN
    /\ run[s].op = "auto"
    /\ IF items # {} /\ (\A f \in items : Priceable(f)) /\ Cardinality(LiveRoots) <= 1
       THEN \E ok \in BOOLEAN :
               Continue(s, [op |-> "persist", items |-> items, ok |-> ok,
                            origin |-> IF LiveRoots = {} THEN None ELSE CHOOSE q \in LiveRoots : TRUE])
       ELSE Ends(s)
    /\ UNCHANGED <<project, file, jobs, quotes, bought>>

\* Once every file is settled, the priceable ones are quoted together: in the
\* project's one lineage of quotes, as a new lineage when there is none, and not
\* at all when there are several.
\* Whether a vendor can make them is read before the transaction too.
AutoQuote(s) ==
    LET items == {f \in Files : Priceable(f)} IN
    /\ run[s].op = "auto"
    /\ IF Settled /\ items # {} /\ Cardinality(LiveRoots) <= 1
       THEN \E ok \in BOOLEAN :
               Continue(s, [op |-> "persist", items |-> items, ok |-> ok,
                            origin |-> IF LiveRoots = {} THEN None ELSE CHOOSE q \in LiveRoots : TRUE])
       ELSE Ends(s)
    /\ UNCHANGED <<project, file, jobs, quotes, bought>>

\* An account's own request for a quote of some files: always a new lineage.
StoreRead(s, fs) ==
    /\ fs # {} /\ \A f \in fs : Priceable(f)
    /\ \E ok \in BOOLEAN : Begin(s, [op |-> "store", items |-> fs, ok |-> ok, origin |-> None])
    /\ UNCHANGED <<project, file, jobs, quotes, bought>>

Insert(row) == quotes' = Append(quotes, row)

\* Slip: the next revision is counted in the quote's own lineage.
PersistInLineage(s) ==
    LET r == run[s]
        last == IF r.origin = None THEN 0 ELSE quotes[Newest(Lineage(r.origin))].rev IN
    /\ r.op \in {"persist", "store"}
    /\ IF \A f \in r.items : Exists(f)
       THEN /\ Len(quotes) < MaxQuotes
            /\ Insert([origin |-> r.origin, born |-> Len(quotes) + 1, rev |-> last + 1,
                         by |-> "system", conf |-> FALSE,
                         status |-> IF r.ok THEN "draft" ELSE "needs_review", items |-> r.items])
       ELSE UNCHANGED quotes
    /\ Ends(s)
    /\ UNCHANGED <<project, file, jobs, bought>>

\* The project is locked, its highest revision read and the next one written;
\* a line whose file was deleted meanwhile fails the transaction.
PersistQuote(s) ==
    LET r == run[s]
        last == IF Ids = {} THEN 0 ELSE quotes[Newest(Ids)].rev IN
    /\ r.op \in {"persist", "store"}
    /\ IF \A f \in r.items : Exists(f)
       THEN /\ Len(quotes) < MaxQuotes
            /\ Insert([origin |-> r.origin, born |-> Len(quotes) + 1, rev |-> last + 1,
                         by |-> "system", conf |-> FALSE,
                         status |-> IF r.ok THEN "draft" ELSE "needs_review", items |-> r.items])
       ELSE UNCHANGED quotes
    /\ Ends(s)
    /\ UNCHANGED <<project, file, jobs, bought>>

-----------------------------------------------------------------------------
(***************************************************************************)
(* The customer's revisions.                                               *)
(***************************************************************************)

\* The quote is open and the latest of its lineage; its lines are loaded, and
\* shipping and tax computed, before the transaction begins.
Revisable(q) == quotes[q].status \in {"draft", "needs_review"} /\ IsLatest(q)

Held(op, q, conf) == [op |-> op, quote |-> q, row |-> [quotes[q] EXCEPT !.conf = conf],
                      refs |-> Present(quotes[q].items)]

Configure(s, q) ==
    /\ Revisable(q)
    /\ Begin(s, Held("configure", q, TRUE))
    /\ UNCHANGED <<project, file, jobs, quotes, bought>>

\* One line's quantity changes: it is priced again, so its file must be there.
Requantify(s, q) ==
    /\ Revisable(q)
    /\ \E f \in quotes[q].items : Priceable(f)
    /\ Begin(s, Held("requantify", q, quotes[q].conf))
    /\ UNCHANGED <<project, file, jobs, quotes, bought>>

\* The next revision of the quote that was read, whatever has become of it.
Revise(s) ==
    LET r == run[s] IN
    /\ r.op \in {"configure", "requantify"}
    /\ IF \A f \in r.refs : Exists(f)
       THEN /\ Len(quotes) < MaxQuotes
            /\ Insert([r.row EXCEPT !.origin = Root(r.quote), !.born = Len(quotes) + 1, !.rev = @ + 1,
                                    !.by = "customer"])
       ELSE UNCHANGED quotes
    /\ Ends(s)
    /\ UNCHANGED <<project, file, jobs, bought>>

\* Accepting: an open, configured quote that is the latest of its lineage ...
AcceptRead(s, q) ==
    /\ quotes[q].status = "draft" /\ quotes[q].conf /\ IsLatest(q)
    /\ Begin(s, [op |-> "accept", quote |-> q])
    /\ UNCHANGED <<project, file, jobs, quotes, bought>>

\* ... has its status written, whatever it has become.
AcceptSave(s) ==
    /\ run[s].op = "accept"
    /\ quotes' = [quotes EXCEPT ![run[s].quote].status = "accepted"]
    /\ Ends(s)
    /\ UNCHANGED <<project, file, jobs, bought>>

\* An accepted quote's checkout begins; later a vendor makes the order.
Checkout(q) ==
    /\ quotes[q].status = "accepted" /\ bought = "none"
    /\ bought' = "session"
    /\ UNCHANGED <<project, file, jobs, quotes, run, asked>>

StartProduction ==
    /\ bought = "session"
    /\ bought' = "making"
    /\ UNCHANGED <<project, file, jobs, quotes, run, asked>>

-----------------------------------------------------------------------------
(***************************************************************************)
(* The administrator's split, and changing a part.                         *)
(***************************************************************************)

\* An administrator divides the lines of a quote held for review in two groups;
\* whether each can be made is read beforehand.
SplitRead(s, q, group) ==
    /\ quotes[q].status = "needs_review"
    /\ group # {} /\ group # Present(quotes[q].items) /\ group \subseteq Present(quotes[q].items)
    /\ \E kept, moved \in BOOLEAN :
          Begin(s, [op |-> "split", quote |-> q, group |-> group, kept |-> kept, moved |-> moved])
    /\ UNCHANGED <<project, file, jobs, quotes, bought>>

\* The second group's rows move to a new lineage of revision 1, with what the
\* customer had configured, from whichever quote another split has taken them to
\* meanwhile; the quote keeps the others, and is a draft again, whatever it has
\* become, when they can be made.
SplitSave(s) ==
    LET r == run[s]
        old == quotes[r.quote]
        rows == [q \in Ids |-> IF quotes[q].born = old.born
                               THEN [quotes[q] EXCEPT !.items = @ \ r.group] ELSE quotes[q]] IN
    /\ r.op = "split" /\ Len(quotes) < MaxQuotes
    /\ quotes' = Append([rows EXCEPT ![r.quote].status = IF r.kept THEN "draft" ELSE @],
                      [origin |-> None, born |-> old.born, rev |-> 1, by |-> "split",
                       conf |-> old.conf, status |-> IF r.moved THEN "draft" ELSE "needs_review",
                       items |-> r.group])
    /\ Ends(s)
    /\ UNCHANGED <<project, file, jobs, bought>>

\* What keeps a part from being changed: production, for everyone; a checkout
\* or an accepted quote that lists it, for everyone but staff.
Lock(f) ==
    IF bought = "making" THEN "final"
    ELSE IF bought # "none" \/ \E q \in Ids : quotes[q].status = "accepted" /\ f \in quotes[q].items
    THEN "staff" ELSE "none"

SwitchRead(s, f, tech, staff) ==
    /\ Exists(f) /\ tech # file[f].tech
    /\ Lock(f) = "none" \/ (staff /\ Lock(f) = "staff")
    /\ Begin(s, [op |-> "switch", file |-> f, tech |-> tech,
                 status |-> file[f].status, grams |-> file[f].grams])
    /\ UNCHANGED <<project, file, jobs, quotes, bought>>

\* The slicer's data are cleared where the row that was read had any, and the
\* new technology's job is queued.
SwitchSave(s) ==
    LET r == run[s] IN
    /\ r.op = "switch"
    /\ IF Exists(r.file)
       THEN /\ file' = [file EXCEPT ![r.file].tech = r.tech,
                                    ![r.file].status = IF r.status = "pending" THEN @ ELSE "pending",
                                    ![r.file].grams = IF r.grams THEN FALSE ELSE @]
            /\ jobs' = [jobs EXCEPT ![r.file][r.tech] = @ + 1]
       ELSE UNCHANGED <<file, jobs>>
    /\ Ends(s)
    /\ UNCHANGED <<project, quotes, bought>>

\* Another material of the same technology; staff override every lock.
MaterialRead(s, f, staff) ==
    /\ Exists(f)
    /\ Lock(f) = "none" \/ staff
    /\ Begin(s, [op |-> "material"])
    /\ UNCHANGED <<project, file, jobs, quotes, bought>>

MaterialSave(s) ==
    /\ run[s].op = "material"
    /\ Continue(s, [op |-> "auto"])
    /\ UNCHANGED <<project, file, jobs, quotes, bought>>

-----------------------------------------------------------------------------
(***************************************************************************)
(* The daily jobs.                                                         *)
(***************************************************************************)

\* The project's own row has not changed for a month (its files and quotes may
\* have) and it has no checkout: it is listed, and expired later.
ExpireRead(s) ==
    /\ project = "draft" /\ bought = "none"
    /\ Begin(s, [op |-> "expire"])
    /\ UNCHANGED <<project, file, jobs, quotes, bought>>

\* Slip: expiry withdraws whatever was not rejected yet.
OpenUnlessRejected(q) == quotes[q].status # "rejected"

Open(q) == quotes[q].status \in {"draft", "needs_review"}

ExpireSave(s) ==
    /\ run[s].op = "expire"
    /\ project' = "expired"
    /\ quotes' = [q \in Ids |-> IF Open(q) THEN [quotes[q] EXCEPT !.status = "rejected"] ELSE quotes[q]]
    /\ Ends(s)
    /\ UNCHANGED <<file, jobs, bought>>

\* A week later its files are listed, their objects deleted, and then every
\* file the project has is: the listed ones and any other.
PurgeRead(s) ==
    /\ project = "expired" /\ \E f \in Files : Exists(f)
    /\ Begin(s, [op |-> "purge"])
    /\ UNCHANGED <<project, file, jobs, quotes, bought>>

PurgeSave(s) ==
    /\ run[s].op = "purge"
    /\ file' = [f \in Files |-> IF Exists(f) THEN [file[f] EXCEPT !.status = "purged"] ELSE file[f]]
    /\ Ends(s)
    /\ UNCHANGED <<project, jobs, quotes, bought>>

-----------------------------------------------------------------------------
Answer(s) == \E f \in Files, t \in Technologies : AnswerRead(s, f, t)

Save(s) ==
    \/ ProgressSave(s) \/ (\E o \in {"completed", "failed"} : AnswerSave(s, o)) \/ AutoQuote(s) \/ PersistQuote(s)
    \/ Revise(s) \/ AcceptSave(s) \/ SplitSave(s) \/ SwitchSave(s) \/ MaterialSave(s)
    \/ ExpireSave(s) \/ PurgeSave(s)

Next ==
    \/ \E f \in Files : Upload(f) \/ \E t \in Technologies : Redeliver(f, t)
    \/ \E s \in Slots :
        \/ Save(s)
        \/ Answer(s)
        \/ \E f \in Files, t \in Technologies : ProgressRead(s, f, t)
        \/ \E fs \in SUBSET Files : StoreRead(s, fs)
        \/ \E q \in Ids : \/ Configure(s, q) \/ Requantify(s, q) \/ AcceptRead(s, q)
                          \/ \E group \in SUBSET Files : SplitRead(s, q, group)
        \/ \E f \in Files, staff \in BOOLEAN :
            \/ \E t \in Technologies : SwitchRead(s, f, t, staff)
            \/ MaterialRead(s, f, staff)
        \/ ExpireRead(s) \/ PurgeRead(s)
    \/ \E q \in Ids : Checkout(q)
    \/ StartProduction

Spec == Init /\ [][Next]_vars

\* A handler that has begun goes on; the queue delivers until it is answered.
Fairness == /\ \A s \in Slots : WF_vars(Save(s))
            /\ WF_vars(\E s \in Slots : Answer(s))

FairSpec == Spec /\ Fairness

-----------------------------------------------------------------------------
\* The tables hold only what their columns allow, a lineage's revisions point
\* to a root that is one, and the handlers in flight respect their bound.
TypeOK ==
    /\ project \in {"draft", "expired"} /\ bought \in {"none", "session", "making"}
    /\ file \in [Files -> [status : FileStatus, tech : Technologies, grams : BOOLEAN]]
    /\ \A f \in Files, t \in Technologies : jobs[f][t] \in 0..(1 + MaxRequests)
    /\ Len(quotes) <= MaxQuotes
    /\ \A q \in Ids :
        /\ quotes[q].status \in QuoteStatus /\ quotes[q].rev \in 1..MaxQuotes
        /\ quotes[q].origin # None => quotes[quotes[q].origin].origin = None
        /\ quotes[q].items \subseteq Files /\ quotes[q].born \in Ids
    /\ Cardinality({s \in Slots : run[s] # Idle}) <= MaxInFlight

\* Two quotes the system priced never carry the same revision, however many
\* callbacks write one at once (the lock in persistQuote).
SystemRevisionsDiffer ==
    \A p, q \in Ids : p # q /\ quotes[p].by = "system" /\ quotes[q].by = "system"
                    => quotes[p].rev # quotes[q].rev

\* Handler s is in a split of a quote that is not what the split read any more:
\* it is out of review, or some of the lines to be moved have left it.
Overtaken(s) ==
    LET r == run[s] IN
    r.op = "split" /\ (quotes[r.quote].status # "needs_review" \/ ~(r.group \subseteq quotes[r.quote].items))

\* An accepted quote is frozen: no acceptance, expiry, revision, split or callback
\* that read before changes its row or its lines, but a split that another split
\* or an expiry of the same quote has overtaken.
FrozenOnceAccepted ==
    [][\A q \in Ids : quotes[q].status = "accepted" /\ quotes'[q] # quotes[q]
                     => \E s \in Slots : Overtaken(s) /\ run'[s] = Idle]_vars

\* Once all files of a project in play are settled, each one that can be priced
\* gets on a quote, whoever answered last - unless the project has split into
\* several lineages, where quoting stops.
QuotedInFull ==
    \A f \in Files :
        (project = "draft" /\ Settled /\ Priceable(f)) ~>
            \/ \E q \in Ids : f \in quotes[q].items
            \/ Cardinality(LiveRoots) > 1 \/ Len(quotes) = MaxQuotes
            \/ project # "draft" \/ ~Settled \/ ~Priceable(f)
=============================================================================
