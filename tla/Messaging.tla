------------------------------ MODULE Messaging ------------------------------
(***************************************************************************)
(* One inquiry thread: the customer's messages to a vendor, their          *)
(* moderation by rules, by queued analysis and by moderators, the files    *)
(* they carry, and the thread's own closing and reopening                  *)
(* (message_service.ts, message_analysis_service.ts, attachment_service,   *)
(* moderation_case_service, conversation_service, messaging_risk_service). *)
(*                                                                         *)
(* A handler reads rows first and writes later, in one statement or        *)
(* transaction; MaxInFlight of them run at once and any may die.           *)
(* What a message says is left out: the rules' verdict on its text is any  *)
(* of Texts, each time it is judged.  So are the order of messages within  *)
(* a thread, notifications, and the vendor's own messages.                 *)
(***************************************************************************)
EXTENDS Handlers, Sequences

CONSTANTS
    Keys,           \* clientMessageIds: a message each, sent once or repeated
    Files,          \* attachments the customer may upload
    Ops,            \* the handlers that run
    Texts,          \* verdicts the rules may give on a message's text
    Enforce         \* the language model decides escalations (llmMode)

Decisions == <<"allow", "flag", "escalate", "review", "hold", "block">>   \* by rank
JobOps == {"pass", "scan"}
RequestOps == {"complete", "send", "approve", "block", "claim", "report", "rescan", "restrict",
               "refresh", "decline", "staff", "bar", "idle"}

Reasons == {"declined", "staff", "blocked", "idle"}   \* for closing a thread

ASSUME MessagingAssumption ==
    /\ Ops \subseteq JobOps \cup RequestOps
    /\ Texts \subseteq {Decisions[i] : i \in DOMAIN Decisions} /\ Enforce \in BOOLEAN
    /\ None \notin Keys \cup Reasons

VARIABLES
    thread,     \* the conversations row
    barred,     \* conversation_blocks has the vendor's block of the customer
    tier,       \* the customer's messaging_risk_profiles.trust_tier
    msg,        \* messages.status by clientMessageId
    file,       \* message_attachments rows, and the scan jobs queued for each
    cases,      \* moderation_cases of messages, in the order they were opened
    queue,      \* AnalyzeMessage jobs
    cleared,    \* history: messages a moderator's approval delivered
    again       \* history: files whose upload a second call has completed over the first

messagingVars == <<thread, barred, tier, msg, file, cases, queue, run, asked, cleared, again>>

Waiting == {"held", "pending_review"}
Delivered == {"delivered", "delivered_flagged"}
MessageStatus == Waiting \cup Delivered \cup {"none", "blocked", "removed"}
FileStatus == {"none", "uploaded", "clean", "review", "rejected"}
Tiers == {"standard", "trusted", "restricted", "suspended"}

\* Deaths and failed jobs count as requests, jobs do not.
BeginOp(s, op, r) == /\ op \in Ops /\ run[s] = Idle /\ Room
                     /\ run' = [run EXCEPT ![s] = r]
                     /\ asked' = asked + (IF op \in JobOps THEN 0 ELSE 1)
                     /\ asked' <= MaxRequests
AtOnceOp(op) == op \in Ops /\ asked < MaxRequests /\ asked' = asked + 1 /\ UNCHANGED run

FilesOf(k) == {f \in Files : file[f].msg = k}
OpenCase(k) == cases' = Append(cases, [msg |-> k, open |-> TRUE])
HasCase(k) == \E c \in DOMAIN cases : cases[c].msg = k /\ cases[c].open
Restricted == tier \in {"restricted", "suspended"}

MessagingInit ==
    /\ thread = [status |-> "open", reason |-> None, seen |-> FALSE, quiet |-> FALSE, late |-> FALSE]
    /\ barred = FALSE /\ tier = "standard"
    /\ msg = [k \in Keys |-> "none"]
    /\ file = [f \in Files |-> [status |-> "none", msg |-> None, scans |-> 0]]
    /\ cases = <<>> /\ queue = {}
    /\ run = [s \in Slots |-> Idle] /\ asked = 0 /\ cleared = {} /\ again = {}

-----------------------------------------------------------------------------
(***************************************************************************)
(* Judging and sending.                                                    *)
(***************************************************************************)

Rank(d) == CHOOSE i \in DOMAIN Decisions : Decisions[i] = d
Strongest(D) == CHOOSE d \in D : \A e \in D : Rank(e) <= Rank(d)

\* Slip: a file that was never scanned holds nothing back.
FileUnscannedAllowed(status) == CASE status = "review" -> "review"
                                  [] status = "rejected" -> "block"
                                  [] OTHER -> "allow"

\* What the rules say of a message's files, with its text's verdict.
FileDecision(status) == CASE status = "uploaded" -> "hold"
                          [] status = "review" -> "review"
                          [] status = "rejected" -> "block"
                          [] OTHER -> "allow"
Decide(text, fs) == Strongest({text} \cup {FileDecision(file[f].status) : f \in fs})

StatusFor(d, restricted, llm) ==
    CASE d = "block" -> "blocked"
      [] d = "escalate" /\ llm /\ ~restricted -> "held"
      [] d \in {"review", "escalate"} \/ (restricted /\ d # "block") -> "pending_review"
      [] d = "hold" -> "held"
      [] d = "flag" -> "delivered_flagged"
      [] OTHER -> "delivered"

\* An idle inquiry opens again when its customer writes soon enough.
CanPost == \/ thread.status = "open"
           \/ thread.status = "read_only" /\ thread.reason = "idle" /\ ~thread.late

\* A message is sent with some uploaded files: a repeat returns the first, and
\* a suspended customer or a closed thread refuses it.
SendRead(s, k, fs) ==
    /\ msg[k] = "none"
    /\ \A f \in fs : file[f].msg = None /\ file[f].status \notin {"none", "rejected"}
    /\ CanPost /\ tier # "suspended"
    /\ \E text \in Texts :
          BeginOp(s, "send", [op |-> "send", key |-> k, files |-> fs, reopen |-> thread.status # "open",
                              status |-> StatusFor(Decide(text, fs), Restricted, Enforce)])
    /\ UNCHANGED <<thread, barred, tier, msg, file, cases, queue, cleared, again>>

\* What a delivery does to the locked thread.
MarkDelivered(t) == [t EXCEPT !.seen = TRUE, !.quiet = FALSE]

\* The transaction inserts it with the status decided, reopens the thread, and
\* takes the files no message has; a repeat that lost the race returns.
SendSave(s) ==
    LET r == run[s]
        opened == IF r.reopen THEN [thread EXCEPT !.status = "open", !.reason = None] ELSE thread IN
    /\ r.op = "send"
    /\ IF msg[r.key] = "none"
       THEN /\ msg' = [msg EXCEPT ![r.key] = r.status]
            /\ thread' = IF r.status \in Delivered THEN MarkDelivered(opened) ELSE opened
            /\ file' = [f \in Files |-> IF f \in r.files /\ file[f].msg = None
                                        THEN [file[f] EXCEPT !.msg = r.key] ELSE file[f]]
            /\ IF r.status \in {"pending_review", "delivered_flagged"} THEN OpenCase(r.key)
               ELSE UNCHANGED cases
            /\ IF r.status = "held" THEN Continue(s, [op |-> "dispatch", key |-> r.key]) ELSE Ends(s)
       ELSE Ends(s) /\ UNCHANGED <<msg, thread, file, cases>>
    /\ UNCHANGED <<barred, tier, queue, cleared, again>>

\* A job for a message that has one queued already is swallowed.
Queued(k) == \E j \in queue : j.key = k
WithJob(k, final) == IF Queued(k) THEN queue ELSE queue \cup {[key |-> k, final |-> final]}

Dispatch(s) ==
    /\ run[s].op = "dispatch"
    /\ queue' = WithJob(run[s].key, FALSE)
    /\ Ends(s)
    /\ UNCHANGED <<thread, barred, tier, msg, file, cases, cleared, again>>

-----------------------------------------------------------------------------
(***************************************************************************)
(* The analysis of a held message.                                         *)
(***************************************************************************)

\* A job judges its message again, outside any transaction: it waits for the
\* message's files unless it is the final one, and the language model decides
\* an escalation when it is asked to.
Verdicts(d) == IF d = "escalate" /\ ~Restricted /\ Enforce
               THEN {"delivered", "pending_review", "blocked"}
               ELSE {StatusFor(d, Restricted, FALSE)}

PassRead(s, j) ==
    /\ j \in queue /\ queue' = queue \ {j}
    /\ IF msg[j.key] # "held" THEN "pass" \in Ops /\ UNCHANGED <<run, asked>>
       ELSE \E text \in Texts : \E v \in Verdicts(Decide(text, FilesOf(j.key))) :
               IF v = "held" /\ ~j.final
               THEN "pass" \in Ops /\ UNCHANGED <<run, asked>>
               ELSE BeginOp(s, "pass", [op |-> "pass", key |-> j.key,
                                        status |-> IF v = "held" THEN "pending_review" ELSE v])
    /\ UNCHANGED <<thread, barred, tier, msg, file, cases, cleared, again>>

\* Slip: only a flagged message gets a case.
PassSaveUncased(s) ==
    LET r == run[s] IN
    /\ r.op = "pass"
    /\ IF msg[r.key] # "held" THEN Ends(s) /\ UNCHANGED <<msg, cases>>
       ELSE /\ msg' = IF r.status \in Delivered THEN msg ELSE [msg EXCEPT ![r.key] = r.status]
            /\ IF r.status = "delivered_flagged" THEN OpenCase(r.key) ELSE UNCHANGED cases
            /\ IF r.status \in Delivered
               THEN Continue(s, [op |-> "deliver", key |-> r.key, status |-> r.status, case |-> 0])
               ELSE Ends(s)
    /\ UNCHANGED <<thread, barred, tier, file, queue, cleared, again>>

\* The message is locked, and left alone unless it is held still; its delivery
\* is a transaction of its own, after this one.
PassSave(s) ==
    LET r == run[s] IN
    /\ r.op = "pass"
    /\ IF msg[r.key] # "held" THEN Ends(s) /\ UNCHANGED <<msg, cases>>
       ELSE /\ msg' = IF r.status \in Delivered THEN msg ELSE [msg EXCEPT ![r.key] = r.status]
            /\ IF r.status \in {"pending_review", "delivered_flagged"} THEN OpenCase(r.key)
               ELSE UNCHANGED cases
            /\ IF r.status \in Delivered
               THEN Continue(s, [op |-> "deliver", key |-> r.key, status |-> r.status, case |-> 0])
               ELSE Ends(s)
    /\ UNCHANGED <<thread, barred, tier, file, queue, cleared, again>>

\* The message is delivered whatever has become of it since it was read.
DeliverSave(s) ==
    LET r == run[s] IN
    /\ r.op = "deliver"
    /\ msg' = [msg EXCEPT ![r.key] = r.status]
    /\ thread' = MarkDelivered(thread)
    /\ cleared' = IF r.case = 0 THEN cleared ELSE cleared \cup {r.key}
    /\ IF r.case = 0 THEN Ends(s) ELSE Continue(s, [op |-> "resolve", case |-> r.case])
    /\ UNCHANGED <<barred, tier, file, cases, queue, again>>

\* A job that keeps failing hands its message to a person.
PassFails(j) ==
    /\ j \in queue /\ queue' = queue \ {j} /\ AtOnceOp("pass")
    /\ IF msg[j.key] = "held"
       THEN msg' = [msg EXCEPT ![j.key] = "pending_review"] /\ OpenCase(j.key)
       ELSE UNCHANGED <<msg, cases>>
    /\ UNCHANGED <<thread, barred, tier, file, cleared, again>>

\* Slip: the sweep's pass is like any other.
SweepNotFinal(k) ==
    /\ "pass" \in Ops /\ msg[k] = "held" /\ ~Queued(k)
    /\ queue' = WithJob(k, FALSE)
    /\ UNCHANGED <<thread, barred, tier, msg, file, cases, run, asked, cleared, again>>

\* Every ten minutes a message held too long gets a final pass.
SweepHeld(k) ==
    /\ "pass" \in Ops /\ msg[k] = "held" /\ ~Queued(k)
    /\ queue' = WithJob(k, TRUE)
    /\ UNCHANGED <<thread, barred, tier, msg, file, cases, run, asked, cleared, again>>

-----------------------------------------------------------------------------
(***************************************************************************)
(* Files.                                                                  *)
(***************************************************************************)

\* The browser says that its upload is complete: a call that finds the file still
\* awaited looks for the object and its size ...
CompleteRead(s, f) ==
    /\ file[f].status = "none"
    /\ BeginOp(s, "complete", [op |-> "complete", file |-> f])
    /\ UNCHANGED <<thread, barred, tier, msg, file, cases, queue, cleared, again>>

\* ... and writes what it found, whatever the file has become; the process may
\* die before the scan of an uploaded file is queued.
CompleteSave(s, status, queued) ==
    LET f == run[s].file IN
    /\ run[s].op = "complete"
    /\ file' = [file EXCEPT ![f].status = status,
                            ![f].scans = IF queued /\ status = "uploaded" THEN @ + 1 ELSE @]
    /\ again' = IF file[f].status = "none" THEN again ELSE again \cup {f}
    /\ Ends(s)
    /\ UNCHANGED <<thread, barred, tier, msg, cases, queue, cleared>>

\* A scan job leaves a file alone that is not uploaded; of another it holds the
\* row it read while the file is inspected ...
ScanRead(s, f) ==
    /\ file[f].scans > 0
    /\ file' = [file EXCEPT ![f].scans = @ - 1]
    /\ IF file[f].status = "uploaded"
       THEN BeginOp(s, "scan", [op |-> "scan", file |-> f, msg |-> file[f].msg])
       ELSE "scan" \in Ops /\ UNCHANGED <<run, asked>>
    /\ UNCHANGED <<thread, barred, tier, msg, cases, queue, cleared, again>>

\* ... and resumes the message that row was sent with.
ScanSave(s, status) ==
    LET r == run[s] IN
    /\ r.op = "scan"
    /\ file' = [file EXCEPT ![r.file].status = status]
    /\ queue' = IF r.msg # None /\ msg[r.msg] = "held" THEN WithJob(r.msg, FALSE) ELSE queue
    /\ Ends(s)
    /\ UNCHANGED <<thread, barred, tier, msg, cases, cleared, again>>

-----------------------------------------------------------------------------
(***************************************************************************)
(* Moderators.                                                             *)
(***************************************************************************)

\* A moderator decides an unresolved case by the message's status at the time;
\* approving takes in the files that waited for a person.
ApproveRead(s, c) ==
    LET k == cases[c].msg IN
    /\ cases[c].open
    /\ IF msg[k] \in Waiting
       THEN /\ file' = [f \in Files |-> IF f \in FilesOf(k) /\ file[f].status = "review"
                                        THEN [file[f] EXCEPT !.status = "clean"] ELSE file[f]]
            /\ BeginOp(s, "approve", [op |-> "deliver", key |-> k, status |-> "delivered", case |-> c])
       ELSE BeginOp(s, "approve", [op |-> "resolve", case |-> c]) /\ UNCHANGED file
    /\ UNCHANGED <<thread, barred, tier, msg, cases, queue, cleared, again>>

BlockRead(s, c) ==
    LET k == cases[c].msg IN
    /\ cases[c].open
    /\ BeginOp(s, "block", IF msg[k] \in Waiting \cup Delivered
                           THEN [op |-> "block", key |-> k, case |-> c,
                                 status |-> IF msg[k] \in Waiting THEN "blocked" ELSE "removed"]
                           ELSE [op |-> "resolve", case |-> c])
    /\ UNCHANGED <<thread, barred, tier, msg, file, cases, queue, cleared, again>>

BlockSave(s) ==
    LET r == run[s] IN
    /\ r.op = "block"
    /\ msg' = [msg EXCEPT ![r.key] = r.status]
    /\ Continue(s, [op |-> "resolve", case |-> r.case])
    /\ UNCHANGED <<thread, barred, tier, file, cases, queue, cleared, again>>

Resolve(s) ==
    /\ run[s].op = "resolve"
    /\ cases' = [cases EXCEPT ![run[s].case].open = FALSE]
    /\ Ends(s)
    /\ UNCHANGED <<thread, barred, tier, msg, file, queue, cleared, again>>

\* Claiming a case or putting it back writes its status, resolved meanwhile or not.
ClaimRead(s, c) ==
    /\ cases[c].open
    /\ BeginOp(s, "claim", [op |-> "claim", case |-> c])
    /\ UNCHANGED <<thread, barred, tier, msg, file, cases, queue, cleared, again>>

ClaimSave(s) ==
    /\ run[s].op = "claim"
    /\ cases' = [cases EXCEPT ![run[s].case].open = TRUE]
    /\ Ends(s)
    /\ UNCHANGED <<thread, barred, tier, msg, file, queue, cleared, again>>

\* The vendor reports a message: its unresolved case is joined, or one opened.
Report(k) ==
    /\ msg[k] \in Delivered /\ AtOnceOp("report")
    /\ IF HasCase(k) THEN UNCHANGED cases ELSE OpenCase(k)
    /\ UNCHANGED <<thread, barred, tier, msg, file, queue, cleared, again>>

\* A link of a delivered message has turned malicious: it is removed.
RescanRead(s, k) ==
    /\ msg[k] \in Delivered
    /\ BeginOp(s, "rescan", [op |-> "rescan", key |-> k])
    /\ UNCHANGED <<thread, barred, tier, msg, file, cases, queue, cleared, again>>

RescanSave(s) ==
    /\ run[s].op = "rescan"
    /\ msg' = [msg EXCEPT ![run[s].key] = "removed"] /\ OpenCase(run[s].key)
    /\ Ends(s)
    /\ UNCHANGED <<thread, barred, tier, file, queue, cleared, again>>

\* A moderator sets the customer's tier.
RestrictSender(t) ==
    /\ t \in {"standard", "restricted", "suspended"} /\ AtOnceOp("restrict") /\ tier' = t
    /\ UNCHANGED <<thread, barred, msg, file, cases, queue, cleared, again>>

\* The hourly recount (its counters are left out) leaves a restriction alone ...
RefreshRead(s) ==
    /\ ~Restricted
    /\ BeginOp(s, "refresh", [op |-> "refresh", tier |-> tier])
    /\ UNCHANGED <<thread, barred, tier, msg, file, cases, queue, cleared, again>>

\* ... that it read; it writes a tier that differs from the one it read.
RefreshSave(s, t) ==
    /\ run[s].op = "refresh" /\ t \in {"standard", "trusted", "restricted"}
    /\ tier' = IF t = run[s].tier THEN tier ELSE t
    /\ Ends(s)
    /\ UNCHANGED <<thread, barred, msg, file, cases, queue, cleared, again>>

-----------------------------------------------------------------------------
(***************************************************************************)
(* The thread.                                                             *)
(***************************************************************************)

\* Slip: the reason of an earlier close is kept, an idle one's never written.
CloseUnexplained(reason) == thread' = [thread EXCEPT !.status = "read_only", !.late = FALSE]

Close(reason) == thread' = [thread EXCEPT !.status = "read_only", !.reason = reason, !.late = FALSE]

\* The vendor declines, or staff close, a thread that is open.
CloseRead(s, op) ==
    /\ thread.status = "open" /\ (op = "decline" => thread.seen)
    /\ BeginOp(s, op, [op |-> "close", reason |-> IF op = "decline" THEN "declined" ELSE "staff"])
    /\ UNCHANGED <<thread, barred, tier, msg, file, cases, queue, cleared, again>>

\* The vendor blocks the customer, whether the thread is open or not.
BarRead(s) ==
    /\ thread.seen
    /\ BeginOp(s, "bar", [op |-> "bar", open |-> thread.status = "open"])
    /\ UNCHANGED <<thread, barred, tier, msg, file, cases, queue, cleared, again>>

BarSave(s) ==
    /\ run[s].op = "bar"
    /\ barred' = TRUE
    /\ IF run[s].open THEN Close("blocked") ELSE UNCHANGED thread
    /\ Ends(s)
    /\ UNCHANGED <<tier, msg, file, cases, queue, cleared, again>>

\* Sixty days without a delivery; ninety since the thread was closed.
Quieten ==
    /\ "idle" \in Ops
    /\ \/ thread.status = "open" /\ thread' = [thread EXCEPT !.quiet = TRUE]
       \/ thread.status = "read_only" /\ thread' = [thread EXCEPT !.late = TRUE]
    /\ UNCHANGED <<barred, tier, msg, file, cases, queue, run, asked, cleared, again>>

\* The hourly job closes the open threads it listed as quiet.
ExpireRead(s) ==
    /\ thread.status = "open" /\ thread.quiet
    /\ BeginOp(s, "idle", [op |-> "close", reason |-> "idle"])
    /\ UNCHANGED <<thread, barred, tier, msg, file, cases, queue, cleared, again>>

CloseSave(s) ==
    /\ run[s].op = "close"
    /\ Close(run[s].reason)
    /\ Ends(s)
    /\ UNCHANGED <<barred, tier, msg, file, cases, queue, cleared, again>>

-----------------------------------------------------------------------------
\* A process dies with what it held in memory.
Crash(s) ==
    /\ run[s] # Idle /\ asked < MaxRequests /\ asked' = asked + 1
    /\ run' = [run EXCEPT ![s] = Idle]
    /\ UNCHANGED <<thread, barred, tier, msg, file, cases, queue, cleared, again>>

Save(s) ==
    \/ SendSave(s) \/ Dispatch(s) \/ PassSave(s) \/ DeliverSave(s)
    \/ \E status \in {"uploaded", "rejected"}, queued \in BOOLEAN : CompleteSave(s, status, queued)
    \/ \E status \in {"clean", "review", "rejected"} : ScanSave(s, status)
    \/ BlockSave(s) \/ Resolve(s) \/ ClaimSave(s) \/ RescanSave(s)
    \/ \E t \in Tiers : RefreshSave(s, t)
    \/ BarSave(s) \/ CloseSave(s)

Pass == \E s \in Slots, j \in queue : PassRead(s, j)

MessagingNext ==
    \/ \E s \in Slots :
        \/ Save(s) \/ Crash(s)
        \/ \E k \in Keys : RescanRead(s, k) \/ \E fs \in SUBSET Files : SendRead(s, k, fs)
        \/ \E f \in Files : CompleteRead(s, f) \/ ScanRead(s, f)
        \/ \E c \in DOMAIN cases : ApproveRead(s, c) \/ BlockRead(s, c) \/ ClaimRead(s, c)
        \/ RefreshRead(s) \/ BarRead(s) \/ ExpireRead(s)
        \/ \E op \in {"decline", "staff"} : CloseRead(s, op)
    \/ Pass
    \/ \E j \in queue : PassFails(j)
    \/ \E k \in Keys : SweepHeld(k) \/ Report(k)
    \/ \E t \in Tiers : RestrictSender(t)
    \/ Quieten

MessagingSpec == MessagingInit /\ [][MessagingNext]_messagingVars

\* A handler that has begun goes on unless it dies, the queue's jobs are run,
\* and the sweep comes round.
Fairness == /\ \A s \in Slots : WF_messagingVars(Save(s))
            /\ WF_messagingVars(Pass)
            /\ \A k \in Keys : WF_messagingVars(SweepHeld(k))

FairSpec == MessagingSpec /\ Fairness

-----------------------------------------------------------------------------
\* The rows hold only what their columns allow, a file's message was sent, and
\* an open thread has no reason for being closed.
MessagingTypeOK ==
    /\ thread \in [status : {"open", "read_only"}, reason : Reasons \cup {None},
                   seen : BOOLEAN, quiet : BOOLEAN, late : BOOLEAN]
    /\ thread.status = "open" <=> thread.reason = None
    /\ barred \in BOOLEAN /\ tier \in Tiers
    /\ msg \in [Keys -> MessageStatus]
    /\ file \in [Files -> [status : FileStatus, msg : Keys \cup {None}, scans : Nat]]
    /\ \A f \in Files : file[f].msg # None => msg[file[f].msg] # "none"
    /\ cases \in Seq([msg : Keys, open : BOOLEAN])
    /\ queue \subseteq [key : Keys, final : BOOLEAN]
    /\ cleared \subseteq Keys /\ again \subseteq Files

\* A message that waits for a person is always on some moderator's list, however
\* passes, failures, claims and other moderators' decisions cross.
ReviewHasCase == \A k \in Keys : msg[k] = "pending_review" => HasCase(k)

\* No file goes out with a message that no person approved unless it was scanned
\* and found clean, whatever order the upload, the scan, the send and the pass end
\* in - but for a file whose upload was completed twice, whose second completion
\* and second scan write over the first.
FilesScannedOrApproved ==
    \A f \in Files \ again :
        file[f].msg # None /\ msg[file[f].msg] \in Delivered /\ file[f].msg \notin cleared
        => file[f].status = "clean"

\* A held message does not stay held: whatever dies or is lost, the sweep's
\* final pass or the job's failure handler ends it.
HeldEnds == \A k \in Keys : msg[k] = "held" ~> msg[k] # "held"
=============================================================================
