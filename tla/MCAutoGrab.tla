----------------------------- MODULE MCAutoGrab -----------------------------
(* Instances of AutoGrab for TLC.                                           *)
EXTENDS AutoGrab, TLC

\* Two searches of one work that find the same release.
WorkOf_2 == 1 :> "w" @@ 2 :> "w"
ReleaseOf_2 == 1 :> "x" @@ 2 :> "x"

Host(zone, store, limit) == [zone |-> zone, store |-> store, limit |-> limit]

\* A host on Greenwich time with the memory store, and one west of it with
\* Postgres that lists one search at a time.
Hosts_west == {Host(0, "memory", 2), Host(-1, "postgres", 1)}
Hosts_east == {Host(1, "postgres", 2)}

=============================================================================
