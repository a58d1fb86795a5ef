----------------------------- MODULE Documents -----------------------------
(***************************************************************************)
(* The two canonical documents as the services of                          *)
(* src/application/services see them inside repository.execute, and the    *)
(* functions that authoring.js, traceability.js, workflow.js,              *)
(* import-exchange.js and reuse-ai-governance.js apply to them.            *)
(*                                                                         *)
(* An operator that changes documents returns the SET of documents the     *)
(* call can lead to: {} when the code throws, {d} when nothing differs.    *)
(*                                                                         *)
(* A requirement is the sequence of its versions, so its version is the    *)
(* length; identities are positions.  Fields a request must merely carry   *)
(* (reason, rationale, authority, decision reference) are taken as given:  *)
(* without them the call is refused and changes nothing.  Endpoints are    *)
(* requirements of one level; external artifacts have no version.          *)
(***************************************************************************)
EXTENDS Naturals, FiniteSets, SequencesExt

CONSTANTS
    Contents,   \* values of the editable fields of a requirement
    Material,   \* the part of a content made of material fields
    Evidential, \* the part of a content whose change makes evidence potentially stale
    Policy,     \* policy.v1.json: the entries the services read
    Critical    \* requirements whose criticality is a critical impact level

Statuses == {Policy.defaultStatus, "retired"} \cup Policy.protectedStatuses
Types == DOMAIN Policy.relationships
NoReuse == [mode |-> "none"]

Ids(d) == DOMAIN d.requirements
Version(d, id) == Len(d.requirements[id].log)
Item(d, id) == Last(d.requirements[id].log)
Active(link) == ~link.retired
Touches(link, id) == id \in {link.source, link.target}

Bump(d, id, content, status, by) ==
    [d EXCEPT !.requirements[id].log =
        Append(@, [content |-> content, status |-> status, by |-> by])]

\* A reuse record, as it is written.  since is history: the version the origin has
\* at that moment, 0 when there is no such requirement.
Reuse(d, mode, origin, version, state) ==
    [mode |-> mode, origin |-> origin, version |-> version, state |-> state,
     since |-> IF origin \in Ids(d) THEN Version(d, origin) ELSE 0]

NewRequirement(d, content, status, reuse, ai, by) ==
    [d EXCEPT !.requirements = Append(@,
        [log |-> << [content |-> content, status |-> status, by |-> by] >>,
         reuse |-> reuse, ai |-> ai])]

NewLink(d, type, source, target) ==
    [d EXCEPT !.relationships = Append(@,
        [type |-> type, source |-> source, target |-> target,
         status |-> "valid", suspect |-> FALSE, retired |-> FALSE, version |-> 1])]

ActiveLinks(d) == {n \in DOMAIN d.relationships : Active(d.relationships[n])}

Linked(d, type, source, target) ==
    \E n \in ActiveLinks(d) : LET link == d.relationships[n] IN
        link.type = type /\ link.source = source /\ link.target = target

Targets(d, type, source) ==
    {n \in ActiveLinks(d) : d.relationships[n].type = type /\ d.relationships[n].source = source}

----------------------------------------------------------------------------
(* What repository.execute demands of the documents a mutator returns.     *)

Valid(d) ==
    \A type \in Types, id \in Ids(d) :
        Cardinality(Targets(d, type, id)) <= Policy.relationships[type].maxTargets

\* allocated: new records took their identities from the transaction's allocator.
AssertMonotonicTransition(before, after, allocated) ==
    /\ Ids(before) \subseteq Ids(after)
    /\ DOMAIN before.relationships \subseteq DOMAIN after.relationships
    /\ \A id \in Ids(before) :
         \/ after.requirements[id] = before.requirements[id]
         \/ Version(after, id) = Version(before, id) + 1
    /\ \A n \in DOMAIN before.relationships :
         LET old == before.relationships[n]  new == after.relationships[n]
         IN  new = old \/ new.version = old.version + 1
    /\ \A id \in Ids(after) \ Ids(before) : allocated /\ Version(after, id) = 1
    /\ \A n \in DOMAIN after.relationships \ DOMAIN before.relationships :
         allocated /\ after.relationships[n].version = 1

----------------------------------------------------------------------------
(* The marks a material change leaves.                                     *)

Triggered(link, id, trigger) ==
    <<IF link.source = id THEN "source" ELSE "target", trigger>>
        \in Policy.relationships[link.type].suspectOn

MadeSuspect(link) == [link EXCEPT !.status = "suspect", !.suspect = TRUE, !.version = @ + 1]

\* Fault: links a manager waived are left alone.
MarkUnlessWaived(d, id, trigger) ==
    [d EXCEPT !.relationships = [n \in DOMAIN @ |->
        IF Active(@[n]) /\ @[n].status # "waived" /\ Touches(@[n], id) /\ Triggered(@[n], id, trigger)
        THEN MadeSuspect(@[n])
        ELSE @[n]]]

MarkRelationshipsSuspect(d, id, trigger) ==
    [d EXCEPT !.relationships = [n \in DOMAIN @ |->
        IF Active(@[n]) /\ Touches(@[n], id) /\ Triggered(@[n], id, trigger)
        THEN MadeSuspect(@[n])
        ELSE @[n]]]

\* Fault: only evidence recorded for the version just replaced.
MarkExactEvidence(d, id) ==
    [d EXCEPT !.evidence = { IF e.requirement = id /\ e.version = Version(d, id) - 1
                             THEN [e EXCEPT !.stale = TRUE] ELSE e : e \in @ }]

MarkEvidencePotentiallyStale(d, id) ==
    [d EXCEPT !.evidence = { IF e.requirement = id THEN [e EXCEPT !.stale = TRUE] ELSE e : e \in @ }]

UsesBehind(d, id) ==
    {use \in Ids(d) : LET reuse == d.requirements[use].reuse IN
        /\ reuse # NoReuse /\ reuse.origin = id
        /\ reuse.version < Version(d, id) /\ reuse.state # "intentional-divergence"}

SourceChanged(use) ==
    [use EXCEPT !.reuse = [@ EXCEPT !.state = "source-changed"],
                !.log = Append(@, [Last(@) EXCEPT !.by = "command"])]

\* Fault: a use is told of the first change of its source only.
MarkReuseOnce(d, id) ==
    [d EXCEPT !.requirements = [use \in DOMAIN @ |->
        IF use \in UsesBehind(d, id) /\ @[use].reuse.version = 1
        THEN SourceChanged(@[use])
        ELSE @[use]]]

MarkReuseSourceChanged(d, id) ==
    [d EXCEPT !.requirements = [use \in DOMAIN @ |->
        IF use \in UsesBehind(d, id)
        THEN SourceChanged(@[use])
        ELSE @[use]]]

----------------------------------------------------------------------------
(* Authoring.  An operation names the version it expects; change is the    *)
(* approved change that is being implemented, 0 in an ordinary command.    *)

BaselineMemberships(d, id, version) == {m \in d.memberships : m[1] = id /\ m[2] = version}

Authorizes(d, change, operation) ==
    /\ change # 0
    /\ d.changes[change].status \in {"approved", "implementing"}
    /\ \E n \in DOMAIN d.changes[change].proposals : d.changes[change].proposals[n] = operation

AssertApprovedChangeForProtectedContent(d, operation, change) ==
    \/ /\ Item(d, operation.id).status \notin Policy.protectedStatuses
       /\ BaselineMemberships(d, operation.id, Version(d, operation.id)) = {}
    \/ Authorizes(d, change, operation)

CreateCandidate(d, content) ==
    { NewRequirement(d, content, Policy.defaultStatus, NoReuse, "none", "command") }

Edited(d, id, content) ==
    LET old == Item(d, id).content
        material == Material[content] # Material[old]
        new == Bump(d, id, content, Item(d, id).status, "command")
        linked == IF material THEN MarkRelationshipsSuspect(new, id, "content-change") ELSE new
        tested == IF Evidential[content] # Evidential[old]
                  THEN MarkEvidencePotentiallyStale(linked, id) ELSE linked
    IN  IF material THEN MarkReuseSourceChanged(tested, id) ELSE tested

AssertItemVersion(d, id, expectedVersion) == id \in Ids(d) /\ expectedVersion = Version(d, id)

\* Fault: the expected version is not compared.
UpdateAnyVersion(d, op, change) ==
    LET item == Item(d, op.id)
        material == Material[op.patch] # Material[item.content]
    IN  IF \/ item.status = "retired"
           \/ material /\ ~AssertApprovedChangeForProtectedContent(d, op, change)
        THEN {}
        ELSE IF op.patch = item.content THEN {d} ELSE {Edited(d, op.id, op.patch)}

\* Fault: an edit is checked against the lifecycle of the item only when it comes
\* with a change.
UpdateUngoverned(d, op, change) ==
    LET item == Item(d, op.id)
        material == Material[op.patch] # Material[item.content]
    IN  IF \/ ~AssertItemVersion(d, op.id, op.expectedVersion)
           \/ item.status = "retired"
           \/ material /\ change # 0 /\ ~AssertApprovedChangeForProtectedContent(d, op, change)
        THEN {}
        ELSE IF op.patch = item.content THEN {d} ELSE {Edited(d, op.id, op.patch)}

UpdateCandidate(d, op, change) ==
    LET item == Item(d, op.id)
        material == Material[op.patch] # Material[item.content]
    IN  IF \/ ~AssertItemVersion(d, op.id, op.expectedVersion)
           \/ item.status = "retired"
           \/ material /\ ~AssertApprovedChangeForProtectedContent(d, op, change)
        THEN {}
        ELSE IF op.patch = item.content THEN {d} ELSE {Edited(d, op.id, op.patch)}

SuspectCritical(d, id) ==
    \E n \in ActiveLinks(d) : LET link == d.relationships[n] IN
        Touches(link, id) /\ link.suspect /\ {link.source, link.target} \ {id} \subseteq Critical

RetireCandidate(d, op, change) ==
    LET item == Item(d, op.id)
        bumped == Bump(d, op.id, item.content, "retired", "command")
        new == MarkEvidencePotentiallyStale(
                 MarkRelationshipsSuspect(bumped, op.id, "retirement"), op.id)
    IN  IF \/ ~AssertItemVersion(d, op.id, op.expectedVersion)
           \/ item.status = "retired"
           \/ ~AssertApprovedChangeForProtectedContent(d, op, change)
           \/ SuspectCritical(d, op.id)
           \/ op.replacement = op.id
           \/ /\ op.replacement # 0
              /\ op.replacement \notin Ids(d) \/ Item(new, op.replacement).status = "retired"
        THEN {}
        ELSE IF op.replacement = 0 \/ Linked(new, "supersedes", op.replacement, op.id) THEN {new}
        ELSE {NewLink(new, "supersedes", op.replacement, op.id)}

ApplyBulkOperation(d, op, change) ==
    CASE op.op = "create" -> CreateCandidate(d, op.content)
      [] op.op = "update" -> UpdateCandidate(d, op, change)
      [] op.op = "retire" -> RetireCandidate(d, op, change)

ApplyOperations(d, operations, change) ==
    LET after[n \in 0..Len(operations)] ==
          IF n = 0 THEN {d}
          ELSE UNION {ApplyBulkOperation(c, operations[n], change) : c \in after[n - 1]}
    IN  after[Len(operations)]

----------------------------------------------------------------------------
(* Relationships and lifecycle.                                            *)

\* The requirements at most k links of one type downstream of id.
Downstream(d, type, id, k) ==
    LET reach[n \in 0..k] ==
          IF n = 0 THEN {id}
          ELSE reach[n - 1] \cup {d.relationships[m].target :
                 m \in {x \in ActiveLinks(d) : /\ d.relationships[x].type = type
                                               /\ d.relationships[x].source \in reach[n - 1]}}
    IN  reach[k]

LinkRequirement(d, type, source, target) ==
    LET rule == Policy.relationships[type] IN
    IF \/ source = target
       \/ \E id \in {source, target} : Item(d, id).status = "retired"
       \/ type = "supersedes" /\ Item(d, target).status # "retired"
       \/ Linked(d, type, source, target)
       \/ rule.symmetric /\ Linked(d, type, target, source)
       \/ Cardinality(Targets(d, type, source)) >= rule.maxTargets
       \/ /\ ~rule.allowCycles /\ ~rule.symmetric
          /\ source \in Downstream(d, type, target, Len(d.requirements))
    THEN {}
    ELSE {NewLink(d, type, source, target)}

Unlinked(link) == [link EXCEPT !.retired = TRUE, !.version = @ + 1]

UnlinkRequirement(d, n) ==
    IF ~Active(d.relationships[n]) THEN {}
    ELSE {[d EXCEPT !.relationships[n] = Unlinked(@)]}

Reassessed(link, status, suspect) ==
    [link EXCEPT !.status = status, !.suspect = suspect, !.retired = status = "invalid", !.version = @ + 1]

\* Fault: a link that is waived keeps its suspect mark.
ReassessKeepsSuspect(d, n, status) ==
    LET link == d.relationships[n] IN
    IF ~Active(link) \/ (~link.suspect /\ link.status = "valid") THEN {}
    ELSE {[d EXCEPT !.relationships[n] = Reassessed(@, status, status = "waived")]}

\* status: valid (assessed valid or updated), waived, or invalid (removed).
ReassessRelationship(d, n, status) ==
    LET link == d.relationships[n] IN
    IF ~Active(link) \/ (~link.suspect /\ link.status = "valid") THEN {}
    ELSE {[d EXCEPT !.relationships[n] = Reassessed(@, status, FALSE)]}

\* Blockers other than suspect links are refusals; an exception of the human
\* authority may accept a blocker where the rule allows it.
TransitionBlocked(d, id, rule) ==
    /\ rule.blocking
    /\ \E n \in ActiveLinks(d) : LET link == d.relationships[n] IN
         /\ Touches(link, id) /\ link.suspect
         /\ {link.source, link.target} \cap Critical # {}

TransitionRequirement(d, id, rule, exception) ==
    LET item == Item(d, id)
        new == Bump(d, id, item.content, rule.to, "command")
    IN  IF \/ d.requirements[id].ai = "proposed"
           \/ rule.from # item.status
           \/ TransitionBlocked(d, id, rule) /\ ~(exception /\ rule.allowException)
        THEN {}
        ELSE IF rule.to = "retired" THEN {MarkRelationshipsSuspect(new, id, "retirement")}
        ELSE {new}

----------------------------------------------------------------------------
(* Imports, reuse and AI proposals.                                        *)

\* The row holds the reuse record the requirement has.
SameReuse(row, reuse) ==
    IF row.reuse = NoReuse THEN reuse = NoReuse
    ELSE reuse # NoReuse /\ \A field \in DOMAIN row.reuse : reuse[field] = row.reuse[field]

\* The reuse record a requirement has after the import: the row's, whatever origin,
\* version and state it names (validateReuse asks only for their form).
ImportedReuse(d, row) ==
    IF row.reuse = NoReuse THEN NoReuse
    ELSE Reuse(d, row.reuse.mode, row.reuse.origin, row.reuse.version, row.reuse.state)

\* A row whose identity is not in the repository is a new requirement.  Another one
\* replaces every field, the status and the reuse record included, and marks nothing.
ImportRequirement(d, row) ==
    IF row.id \notin Ids(d)
    THEN IF row.status = "retired" THEN {}
         ELSE {NewRequirement(d, row.content, row.status, ImportedReuse(d, row), "none", "import")}
    ELSE LET item == Item(d, row.id)
             same == SameReuse(row, d.requirements[row.id].reuse)
             new == Bump(d, row.id, row.content, row.status, "import")
         IN  IF \/ row.expectedVersion # Version(d, row.id)
                \/ (row.status = "retired") # (item.status = "retired")
             THEN {}
             ELSE IF row.content = item.content /\ row.status = item.status /\ same THEN {d}
             ELSE IF same THEN {new}
             ELSE {[new EXCEPT !.requirements[row.id].reuse = ImportedReuse(new, row)]}

ImportRelationship(d, row) ==
    IF {row.source, row.target} \subseteq Ids(d)
    THEN IF Linked(d, row.type, row.source, row.target) THEN {d}
         ELSE {NewLink(d, row.type, row.source, row.target)}
    ELSE {}

PrepareImport(d, file) ==
    LET items[n \in 0..Len(file.requirements)] ==
          IF n = 0 THEN {d} ELSE UNION {ImportRequirement(c, file.requirements[n]) : c \in items[n - 1]}
        links[n \in 0..Len(file.relationships)] ==
          IF n = 0 THEN items[Len(file.requirements)]
          ELSE UNION {ImportRelationship(c, file.relationships[n]) : c \in links[n - 1]}
    IN  links[Len(file.relationships)]

AdoptReuse(d, source, mode) ==
    IF Item(d, source).status = "retired" THEN {}
    ELSE {NewRequirement(d, Item(d, source).content, Policy.defaultStatus,
            Reuse(d, mode, source, Version(d, source), "current"), "none", "command")}

Uses(d, source) ==
    {use \in Ids(d) : d.requirements[use].reuse # NoReuse /\ d.requirements[use].reuse.origin = source}

Synchronized(use, entry, version, state) ==
    [use EXCEPT !.log = Append(@, entry),
                !.reuse = [@ EXCEPT !.version = version, !.since = version, !.state = state]]

\* diverging: the uses that keep their own content.  A use that takes the content
\* of its source over but already has it changes only its synchronization time,
\* without a version: assertMonotonicTransition refuses the commit.  A requirement an
\* import made its own source gets its new version before the uses after it.
Propagation(d, source, diverging) ==
    LET version(use) == IF source \in diverging /\ source < use THEN Version(d, source) + 1
                        ELSE Version(d, source)
        content == Item(d, source).content
        synchronized(use) == IF use \in diverging THEN "intentional-divergence" ELSE "current"
        entry(use) == [content |-> IF use \in diverging THEN Item(d, use).content ELSE content,
                       status |-> Item(d, use).status, by |-> "propagation"]
    IN  IF \/ Uses(d, source) = {}
           \/ \E use \in diverging : d.requirements[use].reuse.mode # "controlled-clone"
           \/ \E use \in Uses(d, source) \ diverging : Item(d, use).content = content
        THEN {}
        ELSE {[d EXCEPT !.requirements = [use \in DOMAIN @ |->
                 IF use \in Uses(d, source)
                 THEN Synchronized(@[use], entry(use), version(use), synchronized(use))
                 ELSE @[use]]]}

ProposeAiRequirement(d, content) ==
    { NewRequirement(d, content, Policy.defaultStatus, NoReuse, "proposed", "command") }

\* A patch goes through updateCandidate; without one the version alone is raised.
AcceptAiProposal(d, id, content) ==
    IF \/ d.requirements[id].ai # "proposed"
       \/ Item(d, id).content # d.requirements[id].log[1].content
    THEN {}
    ELSE LET patch == [op |-> "update", id |-> id, expectedVersion |-> Version(d, id), patch |-> content]
             changed == IF content = Item(d, id).content
                        THEN {Bump(d, id, content, Item(d, id).status, "command")}
                        ELSE UpdateCandidate(d, patch, 0)
         IN  {[new EXCEPT !.requirements[id].ai = "accepted"] : new \in changed}
============================================================================
