------------------------------ MODULE Handlers ------------------------------
(***************************************************************************)
(* Handlers at work at once: requests and job runs, each doing one thing   *)
(* at a time and keeping what it has read in its own memory until it       *)
(* writes.  Vetting and Messaging say what they do.                        *)
(***************************************************************************)
EXTENDS Naturals, FiniteSets

CONSTANTS
    Slots,          \* requests and job runs, reused when one has ended
    MaxInFlight,    \* handlers running at once
    MaxRequests,    \* requests at most
    None            \* a column that is null

ASSUME HandlersAssumption ==
    MaxInFlight \in Nat \ {0} /\ MaxRequests \in Nat

VARIABLES
    run,        \* what each handler is doing and holds in memory
    asked       \* requests so far

Idle == [op |-> "none"]
Room == Cardinality({s \in Slots : run[s] # Idle}) < MaxInFlight

\* A handler goes on to r, or ends.
Continue(s, r) == run' = [run EXCEPT ![s] = r] /\ UNCHANGED asked
Ends(s) == Continue(s, Idle)
=============================================================================
