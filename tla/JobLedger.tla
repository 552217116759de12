----------------------------- MODULE JobLedger -----------------------------
(***************************************************************************)
(* What the metadata service's enrichment queue promises those who ask for *)
(* work, with no rows, statements or workers in sight: a piece of work has *)
(* at most one unfinished job, at most one worker is at it, and after      *)
(* MaxAttempts failures it is given up.  Asking for work that is already   *)
(* asked for changes nothing.  EnrichmentQueue implements it.              *)
(***************************************************************************)
EXTENDS Naturals

CONSTANTS Keys, MaxAttempts

VARIABLES
    live,       \* work with an unfinished job
    busy,       \* work a worker has taken
    failures    \* how often the unfinished job of a key has failed

ledgerVars == <<live, busy, failures>>

Init == live = {} /\ busy = {} /\ failures = [k \in Keys |-> 0]

Ask(k) ==
    /\ k \notin live
    /\ live' = live \cup {k}
    /\ UNCHANGED <<busy, failures>>

Take(k) ==
    /\ k \in live \ busy
    /\ busy' = busy \cup {k}
    /\ UNCHANGED <<live, failures>>

\* A failure leaves the job to a later attempt while one is left.
Retry(k) ==
    /\ k \in busy
    /\ failures[k] + 1 < MaxAttempts
    /\ busy' = busy \ {k}
    /\ failures' = [failures EXCEPT ![k] = @ + 1]
    /\ UNCHANGED live

\* Done, or failed for the last time.
Settle(k) ==
    /\ k \in busy
    /\ live' = live \ {k}
    /\ busy' = busy \ {k}
    /\ failures' = [failures EXCEPT ![k] = 0]

Next == \E k \in Keys : Ask(k) \/ Take(k) \/ Retry(k) \/ Settle(k)

Spec == Init /\ [][Next]_ledgerVars

=============================================================================
