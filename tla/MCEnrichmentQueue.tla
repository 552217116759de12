------------------------- MODULE MCEnrichmentQueue -------------------------
(* Instances of EnrichmentQueue for TLC.                                    *)
EXTENDS EnrichmentQueue

CONSTANTS w1, a1

\* Users ask for an author; searches and lookups ask for works.
Posted_1 == {<<"author_expand", a1>>}

=============================================================================
