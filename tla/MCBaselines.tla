---------------------------- MODULE MCBaselines ----------------------------
(***************************************************************************)
(* Instance of Baselines for TLC: two creators of baselines of one         *)
(* requirement, with one idempotency key (repeated requests) or two.       *)
(***************************************************************************)
EXTENDS Baselines, TLC

CONSTANTS c1, c2, k1, k2

\* c differs from a in its criticality, which is evidential but not material.
MCContents == {"a", "c"}
MCMaterial == ("a" :> 1) @@ ("c" :> 1)
MCEvidential == ("a" :> 1) @@ ("c" :> 2)
MCPolicy ==
    [defaultStatus |-> "proposed", protectedStatuses |-> {"approved", "verified"},
     allowedStatuses |-> {"approved", "verified"}, incomplete |-> {},
     coverage |-> {"verified_by"}, planned |-> {1}, verifying |-> {"verified_by"},
     transitions |-> {[from |-> "approved", to |-> "verified", blocking |-> FALSE, allowException |-> FALSE]},
     relationships |-> ("verified_by" :> [suspectOn |-> {<<"source", "content-change">>}, maxTargets |-> 2,
                                          allowCycles |-> TRUE, symmetric |-> FALSE])]

\* Every requirement is verified by an external artifact, whose identity is 0.
Verified(source, status) ==
    [type |-> "verified_by", source |-> source, target |-> 0, status |-> status,
     suspect |-> status = "suspect", retired |-> FALSE, version |-> 1]
Entry(content, status) == [content |-> content, status |-> status, by |-> "command"]
Requirement(status) ==
    [log |-> << Entry("a", "proposed"), Entry("a", status) >>, reuse |-> NoReuse, ai |-> "none"]
Start(status, linkStatus, plans, changes, reviews) ==
    [requirements |-> <<Requirement(status)>>, relationships |-> <<Verified(1, linkStatus)>>,
     evidence |-> {}, memberships |-> {}, changes |-> changes, reviews |-> reviews, plans |-> plans]
Open == [status |-> "ready_for_decision", impacts |-> <<>>,
         proposals |-> <<[op |-> "update", id |-> 1, expectedVersion |-> 2, patch |-> "c"]>>]
Budget(commands, stops, backups, keys) ==
    [commands |-> commands, stops |-> stops, backups |-> backups, keys |-> keys]
Reviewed == [status |-> "open", outcome |-> "none", items |-> {<<1, 2>>},
             findings |-> <<[severity |-> "blocking", status |-> "open"]>>]
Ready == Start("approved", "valid", {<<1, 2>>}, <<>>, <<>>)
MCScenarios ==
    {[documents |-> Ready, budget |-> Budget(0, 2, 1, {k1, k2})],
     [documents |-> Ready, budget |-> Budget(1, 1, 1, {k1})],
     [documents |-> Ready, budget |-> Budget(1, 0, 0, {k1, k2})],
     [documents |-> Ready, budget |-> Budget(2, 0, 0, {k1})],
     [documents |-> Start("approved", "valid", {<<1, 2>>}, <<>>, <<Reviewed>>), budget |-> Budget(2, 0, 0, {k1})],
     [documents |-> Start("approved", "suspect", {}, <<Open>>, <<>>), budget |-> Budget(2, 0, 0, {k1})]}
MCSelections == {{1}}
MCCreators == {c1, c2}
Symmetric == Permutations(MCCreators)
============================================================================
