-------------------------- MODULE MCImportPipeline --------------------------
(* Instances of ImportPipeline for TLC.                                     *)
EXTENDS ImportPipeline, TLC

\* Two releases of two files each, for the same two places: of one file they
\* have different editions, the other is the same.
Upgrade_ReleaseOf == <<1, 1, 2, 2>>
Upgrade_Target == <<1, 2, 1, 2>>
Upgrade_Size == <<1, 1, 2, 1>>
Upgrade_UpgradeOf == <<"keep_both", "replace">>

\* Decide requests are interchangeable.
AnyHandler == Permutations(Handlers)

=============================================================================
