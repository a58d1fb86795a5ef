---------------------------- MODULE MCRevisions ----------------------------
(***************************************************************************)
(* Instance of Revisions for TLC: a new repository searched while it is    *)
(* changed, and a legacy one migrated, restored and migrated again.        *)
(***************************************************************************)
EXTENDS Revisions, TLC

CONSTANTS s1, s2

Document(schema, text) == [schema |-> schema, revision |-> 0, record |-> [version |-> 1, text |-> text]]
Both(schema) == [business |-> Document(schema, "a"), software |-> Document(schema, "b")]
Budget(commits, crashes, damages, restores, searched) ==
    [commits |-> commits, crashes |-> crashes, damages |-> damages, restores |-> restores,
     searches |-> searched, rebuilds |-> IF searched = 2 THEN 1 ELSE 0, failures |-> IF searched = 2 THEN 1 ELSE 0]

MCTexts == {"a", "b"}
MCQuery == {"a"}
MCSearches == {s1, s2}
MCStarts ==
    {[pair |-> Both(CurrentSchema), budget |-> Budget(1, 0, 0, 0, 2)],
     [pair |-> Both(CurrentSchema), budget |-> Budget(2, 2, 1, 0, 0)],
     [pair |-> Both(Legacy), budget |-> Budget(1, 2, 1, 2, 0)],
     [pair |-> Both(Legacy), budget |-> Budget(1, 1, 0, 1, 1)]}
Symmetric == Permutations(MCSearches)
============================================================================
