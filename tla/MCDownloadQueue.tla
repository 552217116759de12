-------------------------- MODULE MCDownloadQueue --------------------------
(* Instances of DownloadQueue for TLC.  Five: a search of work w1 found     *)
(* releases x, y and z, an earlier one found y too, and another work has a  *)
(* release v; the links of x and z are dead, that of y may be.             *)
EXTENDS DownloadQueue

WorkOfFive == <<"w1", "w1", "w1", "w1", "w2">>
SearchOfFive == <<1, 1, 1, 2, 3>>
ReleaseOfFive == <<"x", "y", "z", "y", "v">>

LinkOfFive == <<{"dead"}, {"alive", "dead"}, {"dead"}, {"dead"}, {"alive"}>>
RetriesFive == <<1, 0, 0>>

WorkOfOne == <<"w1">>
SearchOfOne == <<1>>
ReleaseOfOne == <<"x">>
LinkOfOne == <<{"alive", "dead"}>>
RetriesOne == <<1>>
RetriesNone == <<0>>
=============================================================================
