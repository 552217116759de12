-------------------------- MODULE MCSearchRequests --------------------------
(* Instances of SearchRequests for TLC.                                     *)
EXTENDS SearchRequests, TLC

Workers_2 == {"a", "b"}

=============================================================================
