---------------------------- MODULE MCCatalogue ----------------------------
(* Instances of Catalogue for TLC.                                          *)
EXTENDS Catalogue, TLC

CONSTANTS dune, title, number

\* One book, found by its title and by its ISBN.
InTitle_1 == (title :> {dune}) @@ (number :> {})
Known_1   == (title :> {dune}) @@ (number :> {dune})
Isbn_1    == (title :> NoBook) @@ (number :> dune)

\* Callers differ in nothing.
Symmetry == Permutations(Callers)

=============================================================================
