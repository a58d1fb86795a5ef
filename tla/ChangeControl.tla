--------------------------- MODULE ChangeControl ---------------------------
(***************************************************************************)
(* Requirements, relationships, evidence and change records under the      *)
(* commands of src/application/services: authoring.js, traceability.js,    *)
(* workflow.js, import-exchange.js, reuse-ai-governance.js and the         *)
(* evidence of reviews-verification-reporting.js.                          *)
(*                                                                         *)
(* A command is one action: it runs inside repository.execute, which       *)
(* commits all of it or nothing (RepositoryCommit).  A preview reads the   *)
(* documents and leaves a token; its commit comes later, after any other   *)
(* commands.  A request that names another version than the current one    *)
(* is refused and changes nothing, so direct commands name the current.    *)
(***************************************************************************)
EXTENDS Documents

CONSTANTS
    Drafts,           \* contents a new requirement may have
    Scenarios,        \* documents to start from, each with the commands explored together
    CommandSets,      \* operations of a bulk preview
    ProposalSets,     \* proposed operations of a change
    ImportFiles,      \* parsed import files
    MaxRequirements,  \* bound: requirements, links, changes, evidence and previews
    MaxLinks, MaxChanges, MaxEvidence, MaxPreviews

Kinds == {"content", "links", "lifecycle", "evidence", "exchange", "change"}

Operation ==
    [op : {"create"}, content : Contents]
    \cup [op : {"update"}, id : Nat, expectedVersion : Nat, patch : Contents]
    \cup [op : {"retire"}, id : Nat, expectedVersion : Nat, replacement : Nat]
\* A reuse record as a file holds it.
FileReuse ==
    {NoReuse} \cup [mode : {"governed-reference", "controlled-clone"}, origin : Nat, version : Nat \ {0},
                    state : {"current", "source-changed", "intentional-divergence"}]
ImportFile ==
    [requirements : Seq([id : Nat, expectedVersion : Nat, content : Contents, status : Statuses,
                         reuse : FileReuse]),
     relationships : Seq([type : Types, source : Nat, target : Nat])]

ASSUME ChangeControlAssumption ==
    /\ {MaxRequirements, MaxLinks, MaxChanges, MaxEvidence, MaxPreviews} \subseteq Nat
    /\ Drafts \subseteq Contents /\ Contents \subseteq DOMAIN Material \cap DOMAIN Evidential
    /\ CommandSets \cup ProposalSets \subseteq Seq(Operation) /\ ImportFiles \subseteq ImportFile

\* A change of content is a trigger at both ends of every link between requirements
\* (config/policy.v1.json).
ASSUME PolicyAssumption ==
    /\ "supersedes" \in Types /\ \A rule \in Policy.transitions : rule.to \in Statuses
    /\ \A type \in Types : {"source", "target"} \X {"content-change"} \subseteq Policy.relationships[type].suspectOn

VARIABLES
    documents,   \* requirements, relationships, evidence, baseline memberships, changes
    revision,    \* repositoryRevision
    previews,    \* tokens of the preview stores that have not expired
    assessed,    \* history: the versions of its endpoints each link was last assessed for
    commands     \* bound: commits of each kind of command that may still happen

vars == <<documents, revision, previews, assessed, commands>>

ChangeStatuses == {"draft", "triaged", "analyzing", "ready_for_decision", "approved",
                   "rejected", "deferred", "implementing", "verifying", "closed"}
Change(ch) == documents.changes[ch]

EndpointVersions(d, n) ==
    [source |-> Version(d, d.relationships[n].source),
     target |-> Version(d, d.relationships[n].target)]

WithinBounds(d) ==
    /\ Len(d.requirements) <= MaxRequirements /\ Len(d.relationships) <= MaxLinks
    /\ Len(d.changes) <= MaxChanges /\ Cardinality(d.evidence) <= MaxEvidence

\* A mutator that changes nothing commits nothing.  reassessed: links whose
\* assessment this command records.
Execute(kind, d, allocated, reassessed) ==
    /\ commands[kind] > 0 /\ commands' = [commands EXCEPT ![kind] = @ - 1]
    /\ WithinBounds(d)
    /\ d # documents
    /\ Valid(d) /\ AssertMonotonicTransition(documents, d, allocated)
    /\ documents' = d
    /\ revision' = revision + 1
    /\ assessed' = [n \in DOMAIN d.relationships |->
                      IF n \in DOMAIN assessed \ reassessed THEN assessed[n] ELSE EndpointVersions(d, n)]

Mutate(kind, candidates, allocated, reassessed) ==
    /\ \E d \in candidates : Execute(kind, d, allocated, reassessed)
    /\ UNCHANGED previews

Init ==
    /\ \E s \in Scenarios : documents = s.documents /\ commands = s.commands
    /\ revision = 0
    /\ previews = {}
    /\ assessed = [n \in DOMAIN documents.relationships |-> EndpointVersions(documents, n)]

----------------------------------------------------------------------------
(* Authoring, relationships and lifecycle.                                 *)

Create == \E content \in Drafts : Mutate("content", CreateCandidate(documents, content), TRUE, {})

Update == \E id \in Ids(documents), patch \in Contents :
    Mutate("content", UpdateCandidate(documents,
             [op |-> "update", id |-> id, expectedVersion |-> Version(documents, id), patch |-> patch], 0),
           TRUE, {})

Retire == \E id \in Ids(documents), replacement \in Ids(documents) \cup {0} :
    Mutate("content", RetireCandidate(documents,
             [op |-> "retire", id |-> id, expectedVersion |-> Version(documents, id),
              replacement |-> replacement], 0),
           TRUE, {})

Link == \E type \in Types, source, target \in Ids(documents) :
    Mutate("links", LinkRequirement(documents, type, source, target), TRUE, {})

Unlink == \E n \in DOMAIN documents.relationships : Mutate("links", UnlinkRequirement(documents, n), TRUE, {})

Reassess == \E n \in DOMAIN documents.relationships, status \in {"valid", "waived", "invalid"} :
    Mutate("links", ReassessRelationship(documents, n, status), TRUE, {n})

Transition == \E id \in Ids(documents), rule \in Policy.transitions, exception \in BOOLEAN :
    Mutate("lifecycle", TransitionRequirement(documents, id, rule, exception), TRUE, {})

\* Evidence may name an older version than the current one.
RecordEvidence == \E id \in Ids(documents) : \E version \in 1..Version(documents, id) :
    Mutate("evidence", {[documents EXCEPT !.evidence = @ \cup
               {[requirement |-> id, version |-> version, recordedAt |-> Version(documents, id),
                 stale |-> FALSE]}]}, TRUE, {})

\* The memberships a baseline creation commits (module Baselines has the creation and
\* the identities; here one stands for all).
CreateBaseline == \E id \in Ids(documents) :
    /\ Item(documents, id).status \in Policy.protectedStatuses
    /\ Mutate("lifecycle", {[documents EXCEPT !.memberships = @ \cup {<<id, Version(documents, id), 1>>}]}, TRUE, {})

Adopt == \E source \in Ids(documents), mode \in {"governed-reference", "controlled-clone"} :
    Mutate("exchange", AdoptReuse(documents, source, mode), TRUE, {})

Propose == \E content \in Drafts : Mutate("exchange", ProposeAiRequirement(documents, content), TRUE, {})

Accept == \E id \in Ids(documents), content \in Contents :
    Mutate("exchange", AcceptAiProposal(documents, id, content), TRUE, {})

----------------------------------------------------------------------------
(* Previews.  The stored result stands for the diff hash of the preview.   *)

Issue(kind, preview) ==
    /\ commands[kind] > 0
    /\ Cardinality(previews) < MaxPreviews
    /\ previews' = previews \cup {preview}
    /\ UNCHANGED <<documents, revision, assessed, commands>>

ExpirePreview == \E preview \in previews :
    /\ previews' = previews \ {preview}
    /\ UNCHANGED <<documents, revision, assessed, commands>>

Fresh(preview, kind) == preview.kind = kind /\ preview.revision = revision

Targeted(operations) == {n \in DOMAIN operations : operations[n].op # "create"}

BulkPreview == \E operations \in CommandSets :
    /\ \A m, n \in Targeted(operations) : operations[m].id = operations[n].id => m = n
    /\ \E d \in ApplyOperations(documents, operations, 0) :
         Valid(d) /\ Issue("content", [kind |-> "bulk", revision |-> revision, operations |-> operations, after |-> d])

BulkCommit == \E preview \in previews :
    /\ Fresh(preview, "bulk")
    /\ Mutate("content", ApplyOperations(documents, preview.operations, 0) \cap {preview.after}, TRUE, {})

PreviewImport == \E file \in ImportFiles : \E d \in PrepareImport(documents, file) :
    Valid(d) /\ Issue("exchange", [kind |-> "import", revision |-> revision, after |-> d])

CommitImport == \E preview \in previews :
    /\ Fresh(preview, "import")
    /\ Mutate("exchange", {[documents EXCEPT !.requirements = preview.after.requirements,
                                 !.relationships = preview.after.relationships]}, TRUE, {})

PreviewReusePropagation == \E source \in Ids(documents) : \E diverging \in SUBSET Uses(documents, source) :
    \E d \in Propagation(documents, source, diverging) :
        Issue("exchange", [kind |-> "reuse", revision |-> revision, after |-> d])

CommitReusePropagation == \E preview \in previews :
    /\ Fresh(preview, "reuse")
    /\ Mutate("exchange", {[documents EXCEPT !.requirements = preview.after.requirements]}, FALSE, {})

----------------------------------------------------------------------------
(* Change control.                                                         *)

SetChange(ch, change) == [documents EXCEPT !.changes[ch] = change]
WithStatus(ch, status) == SetChange(ch, [Change(ch) EXCEPT !.status = status])

\* Every target is named at its current version, and once per kind of operation.
ValidateProposals(proposals) ==
    LET targets == Targeted(proposals) IN
    /\ \A n \in targets : /\ proposals[n].id \in Ids(documents)
                          /\ proposals[n].expectedVersion = Version(documents, proposals[n].id)
    /\ \A m, n \in targets : /\ proposals[m].id = proposals[n].id
                             /\ proposals[m].op = proposals[n].op => m = n

CreateChange == \E proposals \in ProposalSets :
    /\ ValidateProposals(proposals)
    /\ Mutate("change", {[documents EXCEPT !.changes = Append(@,
                  [status |-> "draft", proposals |-> proposals, impacts |-> <<>>])]}, TRUE, {})

Triage == \E ch \in DOMAIN documents.changes :
    /\ Change(ch).status = "draft"
    /\ Mutate("change", {WithStatus(ch, "triaged")}, TRUE, {})

Neighbours(ids) ==
    UNION {{documents.relationships[n].source, documents.relationships[n].target} :
             n \in {m \in ActiveLinks(documents) :
                      ids \cap {documents.relationships[m].source, documents.relationships[m].target} # {}}}

\* Requirements reached from the targets within the depth limit, in either direction.
Affected(proposals) ==
    LET direct == {proposals[n].id : n \in Targeted(proposals)}
        within[k \in 0..Policy.impactDepth] ==
            IF k = 0 THEN direct ELSE within[k - 1] \cup Neighbours(within[k - 1])
    IN  within[Policy.impactDepth] \ direct

\* The traversal stops at the node limit, whichever nodes it met first.  Every
\* analysis starts the dispositions anew.
AnalyzeChange == \E ch \in DOMAIN documents.changes, acceptTruncation \in BOOLEAN :
    LET affected == Affected(Change(ch).proposals)
        truncated == Cardinality(affected) >= Policy.impactNodes
        impacts == IF truncated THEN {S \in SUBSET affected : Cardinality(S) = Policy.impactNodes}
                   ELSE {affected}
    IN  /\ Change(ch).status \in {"triaged", "analyzing", "ready_for_decision"}
        /\ \E found \in impacts :
             Mutate("change", {SetChange(ch, [Change(ch) EXCEPT
                       !.impacts = [id \in found |-> "pending"],
                       !.status = IF truncated /\ ~acceptTruncation THEN "analyzing"
                                  ELSE "ready_for_decision"])}, TRUE, {})

\* resolved: accepted, mitigated or not affected; unresolved: deferred or rejected.
DispositionImpact == \E ch \in DOMAIN documents.changes :
    \E id \in DOMAIN Change(ch).impacts, disposition \in {"resolved", "unresolved"} :
        /\ Change(ch).status \in {"ready_for_decision", "analyzing"}
        /\ Mutate("change", {SetChange(ch, [Change(ch) EXCEPT !.impacts[id] = disposition])}, TRUE, {})

DecideChange == \E ch \in DOMAIN documents.changes, outcome \in {"approved", "rejected", "deferred"} :
    /\ Change(ch).status = "ready_for_decision"
    /\ outcome = "approved" => \A id \in DOMAIN Change(ch).impacts : Change(ch).impacts[id] = "resolved"
    /\ Mutate("change", {WithStatus(ch, outcome)}, TRUE, {})

ApplyChangeOperations(d, ch) == ApplyOperations(d, d.changes[ch].proposals, ch)

PreviewChangeImplementation == \E ch \in DOMAIN documents.changes :
    /\ Change(ch).status = "approved"
    /\ \E d \in ApplyChangeOperations(documents, ch) :
         Valid(d) /\ Issue("change", [kind |-> "change", revision |-> revision, change |-> ch,
                            after |-> [d EXCEPT !.changes = <<>>]])

\* The operations take identities from localAllocation, not from the transaction:
\* a change that creates a requirement or a supersedes link is refused here.
CommitChangeImplementation == \E preview \in previews :
    /\ Fresh(preview, "change")
    /\ Change(preview.change).status = "approved"
    /\ \E d \in ApplyChangeOperations(WithStatus(preview.change, "implementing"), preview.change) :
         /\ [d EXCEPT !.changes = <<>>] = preview.after
         /\ Mutate("change", {[d EXCEPT !.changes[preview.change].status = "verifying"]}, FALSE, {})

\* Failed notifications block the closure too (module Outbox).
CloseChange == \E ch \in DOMAIN documents.changes :
    LET targets == {Change(ch).proposals[n].id : n \in Targeted(Change(ch).proposals)} IN
    /\ Change(ch).status = "verifying"
    /\ \A n \in ActiveLinks(documents) : LET link == documents.relationships[n] IN
         link.suspect => {link.source, link.target} \cap targets = {}
    /\ Mutate("change", {WithStatus(ch, "closed")}, TRUE, {})

Next ==
    \/ Create \/ Update \/ Retire \/ Link \/ Unlink \/ Reassess \/ Transition
    \/ RecordEvidence \/ CreateBaseline \/ Adopt \/ Propose \/ Accept
    \/ ExpirePreview \/ BulkPreview \/ BulkCommit \/ PreviewImport \/ CommitImport
    \/ PreviewReusePropagation \/ CommitReusePropagation
    \/ CreateChange \/ Triage \/ AnalyzeChange \/ DispositionImpact \/ DecideChange
    \/ PreviewChangeImplementation \/ CommitChangeImplementation \/ CloseChange

Spec == Init /\ [][Next]_vars

----------------------------------------------------------------------------
(* Properties.                                                             *)

VersionEntry == [content : Contents, status : Statuses, by : {"command", "import", "propagation"}]
ReuseRecord ==
    {NoReuse} \cup [mode : {"governed-reference", "controlled-clone"}, origin : Nat, version : Nat \ {0},
                    state : {"current", "source-changed", "intentional-divergence"}, since : Nat]
RequirementRecord == [log : Seq(VersionEntry), reuse : ReuseRecord, ai : {"none", "proposed", "accepted"}]
LinkRecord ==
    [type : Types, source : Nat, target : Nat, status : {"valid", "suspect", "waived", "invalid"},
     suspect : BOOLEAN, retired : BOOLEAN, version : Nat]
EvidenceRecord == [requirement : Nat, version : Nat, recordedAt : Nat, stale : BOOLEAN]

\* Every record keeps its type, links and evidence name versions that exist, a reuse
\* record names an origin that exists unless a file was imported that names another,
\* and a link's suspect flag agrees with its status (validation.js 369-370).
Typed(d) ==
    /\ DOMAIN d = {"requirements", "relationships", "evidence", "memberships", "changes"}
    /\ d.requirements \in Seq(RequirementRecord)
    /\ \A id \in Ids(d) : LET reuse == d.requirements[id].reuse IN
         /\ Version(d, id) > 0
         /\ reuse # NoReuse /\ reuse.since > 0 =>
              reuse.origin \in Ids(d) /\ reuse.since \in 1..Version(d, reuse.origin)
    /\ d.relationships \in Seq(LinkRecord)
    /\ \A n \in DOMAIN d.relationships : LET link == d.relationships[n] IN
         {link.source, link.target} \subseteq Ids(d) /\ link.suspect = (link.status = "suspect")
    /\ d.evidence \subseteq EvidenceRecord
    /\ \A e \in d.evidence : e.requirement \in Ids(d) /\ e.recordedAt \in 1..Version(d, e.requirement)
    /\ d.changes \in Seq(Range(d.changes))
    /\ \A ch \in DOMAIN d.changes : LET change == d.changes[ch] IN
         /\ DOMAIN change = {"status", "proposals", "impacts"}
         /\ change.status \in ChangeStatuses /\ change.proposals \in Seq(Operation)

TypeOK ==
    /\ Typed(documents)
    /\ revision \in Nat /\ commands \in [Kinds -> Nat]
    /\ DOMAIN assessed = DOMAIN documents.relationships
    /\ \A preview \in previews : preview.revision \in 0..revision

\* Version v of a requirement differs in this part of its content from the version
\* before, and an ordinary command wrote it.
ChangedByCommand(d, part, id, v) ==
    LET log == d.requirements[id].log IN
    log[v].by = "command" /\ part[log[v].content] # part[log[v - 1].content]

UnchangedSince(d, part, id, version) ==
    \A v \in version + 1 .. Version(d, id) : ~ChangedByCommand(d, part, id, v)

\* Change ch proposed the content of version v for exactly the version before it.
Proposed(d, ch, id, v) ==
    \E n \in DOMAIN d.changes[ch].proposals :
        d.changes[ch].proposals[n] = [op |-> "update", id |-> id, expectedVersion |-> v - 1,
                                      patch |-> d.requirements[id].log[v].content]

Protected(d, id, v) ==
    \/ d.requirements[id].log[v].status \in Policy.protectedStatuses
    \/ BaselineMemberships(d, id, v) # {}

Implemented(d, ch) == d.changes[ch].status \in {"verifying", "closed"}

Governed(d) ==
    \A id \in Ids(d) : \A v \in 2..Version(d, id) :
        ChangedByCommand(d, Material, id, v) /\ Protected(d, id, v - 1)
        => \E ch \in DOMAIN d.changes : Implemented(d, ch) /\ Proposed(d, ch, id, v)

EvidenceRecordedSince(d) ==
    \A e \in d.evidence : e.stale \/ UnchangedSince(d, Evidential, e.requirement, e.recordedAt)

UsesFollowSource(d) ==
    \A use \in Ids(d) : LET reuse == d.requirements[use].reuse IN
        reuse # NoReuse /\ reuse.state = "current" /\ reuse.version <= reuse.since
        => UnchangedSince(d, Material, reuse.origin, reuse.since)

\* The operation was applied to the version it names.
Done(d, p) ==
    LET log == d.requirements[p.id].log IN
    /\ p.id \in Ids(d) /\ p.expectedVersion \in DOMAIN log
    /\ \/ p.op = "update" /\ log[p.expectedVersion].content = p.patch
       \/ /\ Len(log) > p.expectedVersion
          /\ log[p.expectedVersion + 1].by = "command"
          /\ IF p.op = "update" THEN log[p.expectedVersion + 1].content = p.patch
             ELSE log[p.expectedVersion + 1].status = "retired"

AsApproved(d) ==
    \A ch \in DOMAIN d.changes : Implemented(d, ch) =>
        \A n \in Targeted(d.changes[ch].proposals) : Done(d, d.changes[ch].proposals[n])

\* A scenario starts from documents that commands can have left; the documents of
\* a new repository, which hold nothing, are such.
ASSUME ScenariosAssumption ==
    \A s \in Scenarios :
        /\ s.commands \in [Kinds -> Nat]
        /\ Valid(s.documents) /\ Typed(s.documents) /\ Governed(s.documents)
        /\ EvidenceRecordedSince(s.documents) /\ UsesFollowSource(s.documents) /\ AsApproved(s.documents)

\* Approved or baselined content is materially rewritten by a command only as an
\* implemented change proposed it, for exactly that version
\* (workflow-and-change-control-guide.md:3 and 41).  Imports and reuse propagation
\* do not ask for a change record.
ProtectedContentGoverned == Governed(documents)

\* A link that is not suspect connects requirements no command has materially
\* changed since the link was made or reassessed, whatever route the command took
\* (traceability-and-impact-guide.md:27-32).
TrustedLinksAssessed ==
    \A n \in ActiveLinks(documents) : LET link == documents.relationships[n] IN
        link.suspect \/ /\ UnchangedSince(documents, Material, link.source, assessed[n].source)
                        /\ UnchangedSince(documents, Material, link.target, assessed[n].target)

\* Evidence that is not potentially stale was recorded after the last change a command
\* made to the fields of its requirement that the policy calls evidential.
TrustedEvidenceRecordedSince == EvidenceRecordedSince(documents)

\* A use that is reported current follows its source: no command has materially
\* changed the source since the use was adopted or synchronized with it, or since an
\* import file wrote the reuse record.  What a file says of the time before the import
\* is not checked, and a file that names a version its origin does not have yet
\* (version > since) keeps the marks away.
CurrentUsesFollowSource == UsesFollowSource(documents)

\* An implemented change did what was approved, to the versions it was approved for:
\* of two changes approved for one version only one is ever implemented, unless they
\* propose the same content.
ImplementedAsApproved == AsApproved(documents)
============================================================================
