-------------------------- MODULE MCChangeControl --------------------------
(***************************************************************************)
(* Instance of ChangeControl for TLC: an approved requirement that depends *)
(* on a second, critical one, at most one further requirement, and two     *)
(* starts: a fresh change register, and one with two changes that propose  *)
(* different contents for the same version and await their decision.       *)
(***************************************************************************)
EXTENDS ChangeControl, TLC

MCContents == {"a", "b", "c"}
\* b differs from a in its rationale, which is material but not evidential; c differs
\* in its criticality, which is evidential but not material.
MCMaterial == ("a" :> 1) @@ ("b" :> 2) @@ ("c" :> 1)
MCEvidential == ("a" :> 1) @@ ("b" :> 1) @@ ("c" :> 2)

Triggers == {"source", "target"} \X {"content-change", "retirement"}
Rule(from, to, blocking, allow) == [from |-> from, to |-> to, blocking |-> blocking, allowException |-> allow]
MCPolicy ==
    [defaultStatus |-> "proposed", protectedStatuses |-> {"approved"},
     transitions |-> {Rule("proposed", "approved", FALSE, FALSE), Rule("approved", "retired", TRUE, TRUE)},
     relationships |->
       ("depends_on" :> [suspectOn |-> Triggers, maxTargets |-> 2, allowCycles |-> FALSE, symmetric |-> FALSE]) @@
       ("supersedes" :> [suspectOn |-> Triggers, maxTargets |-> 1, allowCycles |-> FALSE, symmetric |-> FALSE]),
     impactDepth |-> 2, impactNodes |-> 2]

Version1(status) == [log |-> << [content |-> "a", status |-> "proposed", by |-> "command"] >> \o
                             (IF status = "proposed" THEN <<>>
                              ELSE << [content |-> "a", status |-> status, by |-> "command"] >>),
                     reuse |-> NoReuse, ai |-> "none"]
Edit(id, version, content) == [op |-> "update", id |-> id, expectedVersion |-> version, patch |-> content]
Drop(id, version, by) == [op |-> "retire", id |-> id, expectedVersion |-> version, replacement |-> by]
New(content) == [op |-> "create", content |-> content]

Registered(changes) ==
    [requirements |-> <<Version1("approved"), Version1("proposed")>>,
     relationships |-> << [type |-> "depends_on", source |-> 1, target |-> 2,
                           status |-> "valid", suspect |-> FALSE, retired |-> FALSE, version |-> 1] >>,
     evidence |-> {}, memberships |-> {}, changes |-> changes]
Awaiting(content) == [status |-> "ready_for_decision", proposals |-> <<Edit(1, 2, content)>>,
                      impacts |-> (2 :> "resolved")]
Commands(content, links, lifecycle, evidence, exchange, change) ==
    [content |-> content, links |-> links, lifecycle |-> lifecycle, evidence |-> evidence,
     exchange |-> exchange, change |-> change]
Deciding == Registered(<<Awaiting("b"), Awaiting("c")>>)
MCScenarios ==
    {[documents |-> Registered(<<>>), commands |-> Commands(2, 1, 0, 1, 0, 0)],
     [documents |-> Registered(<<>>), commands |-> Commands(1, 1, 1, 1, 0, 0)],
     [documents |-> Registered(<<>>), commands |-> Commands(1, 1, 2, 0, 0, 0)],
     [documents |-> Registered(<<>>), commands |-> Commands(2, 0, 0, 0, 2, 0)],
     [documents |-> Registered(<<>>), commands |-> Commands(1, 0, 0, 0, 3, 0)],
     [documents |-> Registered(<<>>), commands |-> Commands(0, 1, 0, 0, 0, 7)],
     [documents |-> Deciding, commands |-> Commands(1, 0, 0, 0, 0, 4)],
     [documents |-> Deciding, commands |-> Commands(0, 1, 0, 1, 0, 4)],
     [documents |-> Deciding, commands |-> Commands(0, 0, 0, 0, 1, 4)],
     [documents |-> Deciding, commands |-> Commands(0, 0, 1, 0, 0, 4)]}

MCCommandSets == {<<Edit(1, v, "c"), Edit(2, w, "b")>> : v \in 2..3, w \in 1..2}
                 \cup {<<New("a"), Drop(2, 1, 1)>>}
MCProposalSets == {<<Edit(1, 2, "b")>>, <<Drop(1, 2, 0)>>, <<Edit(1, 2, "c"), New("a")>>}

Row(id, version, content, status, reuse) ==
    [id |-> id, expectedVersion |-> version, content |-> content, status |-> status, reuse |-> reuse]
Claims(origin, version) ==
    [mode |-> "controlled-clone", origin |-> origin, version |-> version, state |-> "current"]
\* The reuse records: none; a version yet to come; the version that was current when a
\* use was exported, in a new requirement or in the use that was marked since; and a
\* requirement that is its own source.
MCImportFiles ==
    {[requirements |-> <<Row(1, 2, "b", "approved", NoReuse)>>, relationships |-> <<>>],
     [requirements |-> <<Row(0, 0, "b", "approved", Claims(1, 4)), Row(2, 1, "a", "proposed", NoReuse)>>,
      relationships |-> << [type |-> "depends_on", source |-> 2, target |-> 1] >>],
     [requirements |-> <<Row(3, 2, "a", "proposed", Claims(2, 1))>>, relationships |-> <<>>],
     [requirements |-> <<Row(2, 1, "a", "proposed", Claims(2, 1))>>, relationships |-> <<>>]}
============================================================================
