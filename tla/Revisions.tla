----------------------------- MODULE Revisions -----------------------------
(***************************************************************************)
(* What the repository remembers: the transaction manifests from which     *)
(* earlier revisions and versions are read back, the migration of a legacy *)
(* repository and the restoration of its backup, and the derived search    *)
(* index that follows the revisions (repository.js, migrations.js,         *)
(* adapters/repository/search-index.js, index/search-index.js, reads.js).  *)
(*                                                                         *)
(* Every operation holds the project lock.  The steps of a commit and of   *)
(* its recovery are RepositoryCommit's subject; here a commit ends         *)
(* committed or dies leaving a prepared transaction, which the next        *)
(* operation rolls forward or back.  One server process searches; another  *)
(* server and the operator's commands share its files, not its memory.     *)
(* Each document holds one record, a version and a text.                   *)
(***************************************************************************)
EXTENDS Integers, Sequences, FiniteSets, SequencesExt, FiniteSetsExt

CONSTANTS Texts,     \* what a record may say
          Query,     \* the texts the search looks for
          Searches,  \* concurrent searches of the server
          Starts     \* initial states: the two documents and the budget of a run

Levels == {"business", "software"}
NoRevision == -1
Legacy == "0.9.0"
CurrentSchema == "1.0.0"
Documents == [schema : {Legacy, CurrentSchema}, revision : Nat, record : [version : Nat, text : Texts]]
Pairs == [business : Documents, software : Documents]
Revision(pair) == pair.business.revision
\* What stands under repositoryRevision: a legacy envelope does not have it.
RepositoryRevision(pair) == IF pair.business.schema = Legacy THEN NoRevision ELSE Revision(pair)
\* Two documents that belong together.
Consistent(pair) ==
    pair.business.schema = pair.software.schema /\ pair.business.revision = pair.software.revision

ASSUME RevisionsAssumption ==
    /\ Query \subseteq Texts
    /\ "commit" \notin Searches
    /\ \A start \in Starts : start.pair \in Pairs /\ Consistent(start.pair)

VARIABLES
    business, software,  \* the canonical documents
    integrity,           \* versions/current.json
    manifests,           \* transactions/, in the order of the directory's names
    backups,             \* versions/migrations/, the complete ones
    leftovers,           \* temporary files of interrupted restorations: <<backup, level>>
    holder,              \* what the holder of the project lock has still to do
    index,               \* the server's index in memory
    indexFile,           \* indexes/repository.json
    searches,            \* the server's searches
    past,                \* what was current at every revision that was not undone
    abandoned,           \* a restoration has undone committed revisions
    budget               \* commits, crashes, damages, restores, rebuilds, failures, searches left

files == <<business, software, integrity, manifests, backups, leftovers>>
server == <<index, indexFile, searches>>
ghosts == <<past, abandoned>>
vars == <<files, holder, server, ghosts, budget>>

NotFound == [notFound |-> TRUE]
Pair == [business |-> business, software |-> software]
Spend(what) == budget[what] > 0 /\ budget' = [budget EXCEPT ![what] = @ - 1]
----------------------------------------------------------------------------
(* Loading                                                                 *)

Free == holder.step = "free"
Settled == \A i \in DOMAIN manifests : manifests[i].status # "prepared"

TransactionVerified ==
    \/ integrity.transaction = 0
    \/ \E i \in DOMAIN manifests : /\ manifests[i].status = "committed"
                                   /\ manifests[i].after.business.revision = integrity.revision
                                   /\ manifests[i].id = integrity.transaction

RawLoadable ==
    /\ Consistent(Pair)
    /\ integrity.revision = business.revision
    /\ integrity.business = business
    /\ integrity.software = software
    /\ TransactionVerified

Loadable == RawLoadable /\ business.schema = CurrentSchema
----------------------------------------------------------------------------
(* The derived index                                                       *)

NoIndex == [revision |-> -1, texts |-> [level \in Levels |-> ""]]
Unloaded == [current |-> NoIndex, stale |-> TRUE]
BuildSearchIndex(pair) ==
    [revision |-> Revision(pair), texts |-> [level \in Levels |-> pair[level].record.text]]
Fresh(built) == [current |-> built, stale |-> FALSE]
SearchIndex(built) == {level \in Levels : built.texts[level] \in Query}

Waiting == [step |-> "idle", pair |-> NotFound, seen |-> NoIndex, quiet |-> TRUE,
            status |-> "none", hits |-> {}]
\* A new index in memory: the searches that have checked the old one are overtaken.
Overtaken(other) == [s \in Searches |-> IF s # other /\ searches[s].step = "query"
                                        THEN [searches[s] EXCEPT !.quiet = FALSE] ELSE searches[s]]
\* The server's process dies with its memory.
ServerDies == index' = Unloaded /\ searches' = [s \in Searches |-> Waiting]
----------------------------------------------------------------------------
(* Commit and recovery                                                     *)

Transaction(after, status) ==
    [id |-> Len(manifests) + 1, before |-> Pair, after |-> after, status |-> status]

\* Names begin with the revision; among equal revisions the order is random.
Listed(manifest) ==
    {InsertAt(manifests, place, manifest) : place \in
        {p \in 1..(Len(manifests) + 1) :
            /\ \A i \in 1..(p - 1) : Revision(manifests[i].after) <= Revision(manifest.after)
            /\ \A i \in p..Len(manifests) : Revision(manifests[i].after) >= Revision(manifest.after)}}

Install(pair, transaction) ==
    /\ business' = pair.business
    /\ software' = pair.software
    /\ integrity' = [revision |-> Revision(pair), business |-> pair.business,
                     software |-> pair.software, transaction |-> transaction]

Remember(pair) ==
    past' = [r \in DOMAIN past \cup {Revision(pair)} |-> IF r = Revision(pair) THEN pair ELSE past[r]]

Committed(after) ==
    /\ manifests' \in Listed(Transaction(after, "committed"))
    /\ Install(after, Len(manifests) + 1)
    /\ Remember(after)

\* The process dies after the manifest is durable, with none, one or both documents installed.
DiesPrepared(after) ==
    /\ manifests' \in Listed(Transaction(after, "prepared"))
    /\ \/ UNCHANGED <<business, software>>
       \/ business' = after.business /\ UNCHANGED software
       \/ business' = after.business /\ software' = after.software
    /\ UNCHANGED <<integrity, past>>

DiesUnprepared == UNCHANGED <<business, software, integrity, manifests, past>>

Edited(levels, text) ==
    [level \in Levels |->
        [Pair[level] EXCEPT !.revision = @ + 1,
                            !.record = IF level \in levels THEN [version |-> @.version + 1, text |-> text] ELSE @]]

\* A mutation by the server, or by another server on the same root.
Execute(process) ==
    /\ Free /\ Settled /\ Loadable
    /\ \E levels \in (SUBSET Levels) \ {{}}, text \in Texts :
        LET after == Edited(levels, text) IN
        /\ \E level \in levels : Pair[level].record.text # text
        /\ \/ /\ Spend("commits")
              /\ Committed(after)
              /\ holder' = [step |-> "write index", process |-> process, pair |-> after]
              /\ UNCHANGED <<server, leftovers, backups, abandoned>>
           \/ /\ Spend("crashes")
              /\ DiesPrepared(after) \/ DiesUnprepared
              /\ IF process = "server" THEN ServerDies /\ UNCHANGED indexFile ELSE UNCHANGED server
              /\ UNCHANGED <<holder, leftovers, backups, abandoned>>

\* The commit's last part: its process's index is rebuilt, first the file, then
\* its memory; when the file cannot be written its memory is marked stale.
IndexCommit ==
    /\ holder.step = "write index"
    /\ \/ /\ indexFile' = BuildSearchIndex(holder.pair)
          /\ holder' = [holder EXCEPT !.step = "assign index"]
          /\ UNCHANGED <<index, budget>>
       \/ /\ Spend("failures")
          /\ index' = IF holder.process = "server" THEN [index EXCEPT !.stale = TRUE] ELSE index
          /\ holder' = [step |-> "free"]
          /\ UNCHANGED indexFile
    /\ UNCHANGED <<files, searches, ghosts>>

AssignCommit ==
    /\ holder.step = "assign index"
    /\ holder' = [step |-> "free"]
    /\ IF holder.process = "server"
       THEN index' = Fresh(BuildSearchIndex(holder.pair)) /\ searches' = Overtaken("commit")
       ELSE UNCHANGED <<index, searches>>
    /\ UNCHANGED <<files, indexFile, ghosts, budget>>

\* The first thing every operation does: an intact candidate is rolled forward,
\* a damaged one back to the before images.
Recover ==
    \E i \in DOMAIN manifests :
        LET manifest == manifests[i] IN
        /\ Free /\ manifest.status = "prepared"
        /\ \/ /\ Install(manifest.after, manifest.id)
              /\ manifests' = [manifests EXCEPT ![i].status = "committed"]
              /\ Remember(manifest.after)
              /\ UNCHANGED budget
           \/ /\ Spend("damages")
              /\ Install(manifest.before, 0)
              /\ manifests' = [manifests EXCEPT ![i].status = "rolled-back"]
              /\ UNCHANGED past
        /\ UNCHANGED <<backups, leftovers, holder, server, abandoned>>
----------------------------------------------------------------------------
(* Migration and the restoration of its backup, by the operator            *)

\* The 0.9 to 1.0 migration changes the envelope of the documents, no record.
Migrated == [level \in Levels |-> [Pair[level] EXCEPT !.schema = CurrentSchema, !.revision = @ + 1]]

\* Fault: the backup is written once the migration is committed.
MigrateThenBackUp ==
    /\ Free /\ Settled /\ RawLoadable /\ business.schema = Legacy
    /\ \/ /\ Committed(Migrated)
          /\ backups' = Append(backups, Pair)
          /\ UNCHANGED budget
       \/ /\ Spend("crashes")
          /\ DiesPrepared(Migrated) \/ DiesUnprepared
          /\ UNCHANGED backups
    /\ UNCHANGED <<leftovers, holder, server, abandoned>>

Migrate ==
    /\ Free /\ Settled /\ RawLoadable /\ business.schema = Legacy
    /\ \/ /\ backups' = Append(backups, Pair)
          /\ Committed(Migrated)
          /\ UNCHANGED budget
       \/ /\ Spend("crashes")
          /\ \/ backups' = Append(backups, Pair) /\ (DiesPrepared(Migrated) \/ DiesUnprepared)
             \/ UNCHANGED backups /\ DiesUnprepared
    /\ UNCHANGED <<leftovers, holder, server, abandoned>>

RestoreBegin ==
    /\ Free /\ Settled /\ Spend("restores")
    /\ \E b \in DOMAIN backups : holder' = [step |-> "business", backup |-> b]
    /\ UNCHANGED <<files, server, ghosts>>

RestoreInstall(level, next) ==
    /\ holder.step = level
    /\ IF <<holder.backup, level>> \in leftovers
       THEN holder' = [step |-> "free"] /\ UNCHANGED <<business, software>>
       ELSE /\ holder' = [holder EXCEPT !.step = next]
            /\ IF level = "business"
               THEN business' = backups[holder.backup].business /\ UNCHANGED software
               ELSE software' = backups[holder.backup].software /\ UNCHANGED business
    /\ UNCHANGED <<integrity, manifests, backups, leftovers, server, ghosts, budget>>

RestoreIntegrity ==
    LET restored == backups[holder.backup] IN
    /\ holder.step = "integrity"
    /\ Install(restored, 0)
    /\ past' = [r \in {r \in DOMAIN past : r <= Revision(restored)} |-> past[r]]
    /\ abandoned' = (abandoned \/ \E r \in DOMAIN past : r > Revision(restored))
    /\ holder' = [step |-> "free"]
    /\ UNCHANGED <<manifests, backups, leftovers, server, budget>>

\* The holder of the lock dies: a restoration between two of its steps, perhaps
\* with its temporary file written, or the server before its index is rebuilt.
HolderDies ==
    /\ ~Free /\ Spend("crashes")
    /\ \/ /\ holder.step \in Levels
          /\ leftovers' \in {leftovers, leftovers \cup {<<holder.backup, holder.step>>}}
          /\ UNCHANGED server
       \/ holder.step = "integrity" /\ UNCHANGED <<leftovers, server>>
       \/ /\ holder.step \in {"write index", "assign index"}
          /\ IF holder.process = "server" THEN ServerDies /\ UNCHANGED indexFile ELSE UNCHANGED server
          /\ UNCHANGED leftovers
    /\ holder' = [step |-> "free"]
    /\ UNCHANGED <<business, software, integrity, manifests, backups, ghosts>>

RebuildDerivedState ==
    /\ Free /\ Settled /\ Loadable /\ Spend("rebuilds")
    /\ indexFile' = BuildSearchIndex(Pair)
    /\ UNCHANGED <<files, holder, index, searches, ghosts>>
----------------------------------------------------------------------------
(* Search                                                                  *)

Selected(s) ==
    /\ Free /\ Settled /\ Loadable /\ searches[s].step = "idle" /\ Spend("searches")
    /\ searches' = [searches EXCEPT ![s] = [Waiting EXCEPT !.step = "health", !.pair = Pair]]
    /\ UNCHANGED <<files, holder, index, indexFile, ghosts>>

\* Fault: an index of another revision counts as current.
UsableWhenFresh(pair) == ~index.stale
Usable(pair) == index.current.revision = Revision(pair) /\ ~index.stale

Health(s) ==
    /\ searches[s].step = "health"
    /\ searches' = [searches EXCEPT ![s].step =
          IF index.current = NoIndex /\ index.stale THEN "load"
          ELSE IF Usable(searches[s].pair) THEN "query" ELSE "rebuild"]
    /\ UNCHANGED <<files, holder, index, indexFile, ghosts, budget>>

ReadIndexFile(s) ==
    /\ searches[s].step = "load"
    /\ searches' = [searches EXCEPT ![s].seen = indexFile, ![s].step = "loaded"]
    /\ UNCHANGED <<files, holder, index, indexFile, ghosts, budget>>

LoadIndex(s) ==
    /\ searches[s].step = "loaded"
    /\ IF searches[s].seen = NoIndex
       THEN /\ index' = [index EXCEPT !.stale = TRUE]
            /\ searches' = [searches EXCEPT ![s].step = "rebuild"]
       ELSE /\ index' = Fresh(searches[s].seen)
            /\ searches' = [Overtaken(s) EXCEPT ![s].step =
                  IF searches[s].seen.revision = Revision(searches[s].pair) THEN "query" ELSE "rebuild"]
    /\ UNCHANGED <<files, holder, indexFile, ghosts, budget>>

\* The answer from an index built of the search's own snapshot.
Fallback(s) ==
    /\ index' = [index EXCEPT !.stale = TRUE]
    /\ searches' = [searches EXCEPT ![s].step = "answered", ![s].status = "canonical-fallback",
                                    ![s].hits = SearchIndex(BuildSearchIndex(searches[s].pair))]

RebuildWrite(s) ==
    /\ searches[s].step = "rebuild"
    /\ \/ /\ indexFile' = BuildSearchIndex(searches[s].pair)
          /\ searches' = [searches EXCEPT ![s].step = "assign"]
          /\ UNCHANGED <<index, budget>>
       \/ Spend("failures") /\ Fallback(s) /\ UNCHANGED indexFile
    /\ UNCHANGED <<files, holder, ghosts>>

RebuildAssign(s) ==
    /\ searches[s].step = "assign"
    /\ index' = Fresh(BuildSearchIndex(searches[s].pair))
    /\ searches' = [Overtaken(s) EXCEPT ![s].step = "query"]
    /\ UNCHANGED <<files, holder, indexFile, ghosts, budget>>

QueryIndex(s) ==
    /\ searches[s].step = "query"
    /\ IF index.current = NoIndex \/ index.stale THEN Fallback(s)
       ELSE /\ searches' = [searches EXCEPT ![s].step = "answered", ![s].status = "current",
                                            ![s].hits = SearchIndex(index.current)]
            /\ UNCHANGED index
    /\ UNCHANGED <<files, holder, indexFile, ghosts, budget>>
----------------------------------------------------------------------------
Init ==
    \E start \in Starts :
        /\ business = start.pair.business
        /\ software = start.pair.software
        /\ integrity = [revision |-> Revision(start.pair), business |-> start.pair.business,
                        software |-> start.pair.software, transaction |-> 0]
        /\ manifests = <<>> /\ backups = <<>> /\ leftovers = {}
        /\ holder = [step |-> "free"]
        /\ index = Unloaded /\ indexFile = NoIndex
        /\ searches = [s \in Searches |-> Waiting]
        /\ past = [r \in {Revision(start.pair)} |-> start.pair]
        /\ abandoned = FALSE
        /\ budget = start.budget

Next ==
    \/ \E process \in {"server", "other"} : Execute(process)
    \/ IndexCommit
    \/ AssignCommit
    \/ Recover
    \/ Migrate
    \/ RestoreBegin
    \/ RestoreInstall("business", "software")
    \/ RestoreInstall("software", "integrity")
    \/ RestoreIntegrity
    \/ HolderDies
    \/ RebuildDerivedState
    \/ \E s \in Searches : Selected(s) \/ Health(s) \/ ReadIndexFile(s) \/ LoadIndex(s)
                           \/ RebuildWrite(s) \/ RebuildAssign(s) \/ QueryIndex(s)

Spec == Init /\ [][Next]_vars
----------------------------------------------------------------------------
(* Reading back                                                            *)

\* The members of a set of numbers in their order, each found by how many are before it.
InOrder(S) == [k \in 1..Cardinality(S) |-> CHOOSE x \in S : Cardinality({y \in S : y < x}) = k - 1]

Committeds == {i \in DOMAIN manifests : manifests[i].status = "committed"}

\* Fault: the revision a transaction was to make is read from it whatever became of it.
LeadsAnyway(manifest, r) == Revision(manifest.after) = r
Leads(manifest, r) == manifest.status = "committed" /\ Revision(manifest.after) = r

ReadRevision(r) ==
    LET found == {i \in DOMAIN manifests : Leads(manifests[i], r) \/ Revision(manifests[i].before) = r} IN
    IF business.revision = r THEN Pair
    ELSE IF found = {} THEN NotFound
    ELSE LET manifest == manifests[Min(found)] IN IF Leads(manifest, r) THEN manifest.after ELSE manifest.before

Snapshots ==
    IF manifests = <<>> THEN <<Pair>>
    ELSE <<manifests[1].before>> \o [k \in 1..Cardinality(Committeds) |-> manifests[InOrder(Committeds)[k]].after]

ReadVersion(level, version) ==
    LET found == {i \in DOMAIN Snapshots : Snapshots[i][level].record.version = version} IN
    IF found = {} THEN NotFound
    ELSE LET pair == Snapshots[Min(found)] IN
         [record |-> pair[level].record, revision |-> RepositoryRevision(pair)]

History(level) ==
    LET changing == InOrder({i \in Committeds :
                        manifests[i].before[level].record # manifests[i].after[level].record})
    IN [k \in DOMAIN changing |-> LET after == manifests[changing[k]].after IN
           [revision |-> Revision(after), version |-> after[level].record.version]]
----------------------------------------------------------------------------
(* Properties                                                              *)

\* The reference: what the revisions were.
FirstWith(level, version) == {r \in DOMAIN past : past[r][level].record.version = version}
Changes(level) ==
    InOrder({r \in DOMAIN past : r - 1 \in DOMAIN past /\ past[r - 1][level].record # past[r][level].record})

Readable == Free /\ Settled /\ Loadable /\ ~abandoned

\* Every revision reads back as it was when it was current, and no other one is
\* found (readRevision).
RevisionsReadBack ==
    Readable => \A r \in 0..(business.revision + 1) :
                   ReadRevision(r) = IF r \in DOMAIN past THEN past[r] ELSE NotFound

\* A version of a record reads back as it first was, with the revision that made
\* it - with none if that revision was still a legacy one (readVersion).
VersionsReadBack ==
    Readable => \A level \in Levels : \A v \in 1..(Pair[level].record.version + 1) :
        ReadVersion(level, v) =
            IF FirstWith(level, v) = {} THEN NotFound
            ELSE LET r == Min(FirstWith(level, v)) IN
                 [record |-> past[r][level].record,
                  revision |-> IF past[r].business.schema = Legacy THEN NoRevision ELSE r]

\* The history of a record lists the revisions that changed it (history).
HistoryReadsBack ==
    Readable => \A level \in Levels :
        History(level) = [k \in DOMAIN Changes(level) |->
            [revision |-> Changes(level)[k], version |-> past[Changes(level)[k]][level].record.version]]

\* As long as no migration was undone, what is read back from the transactions
\* is what was: revisions, versions and histories - whichever transactions were
\* rolled forward or back and in whichever order their directories are listed;
\* only the number of a legacy revision is lost where a version is read back
\* (history-baselines-and-audit-guide.md:3).
HistoryIsTrue == RevisionsReadBack /\ VersionsReadBack /\ HistoryReadsBack

\* Whatever migration is in force, a complete backup of exactly what it replaced
\* exists, wherever a process died; and what loads, after a migration, its
\* restoration or a crash in either, is a pair that was current, never a mixture
\* (migrate and restoreMigrationBackup; ADR 0010: migrations are backed up, and
\* rollback restores a verified backup).
MigrationReversible ==
    /\ \A r \in DOMAIN past :
          (past[r].business.schema = Legacy /\ r + 1 \in DOMAIN past) => Contains(backups, past[r])
    /\ (Settled /\ RawLoadable) =>
          /\ Pair = past[business.revision]
          /\ \A r \in DOMAIN past : r <= business.revision

\* A search lists exactly the records that match in its own snapshot, unless the
\* index it had checked was replaced before its query, by a commit or by another
\* search; the answer made without the index is always exact
\* (SearchService; search-and-read-semantics.md:11: one complete revision).
SearchExact ==
    \A s \in Searches :
        (searches[s].step = "answered" /\ ~abandoned /\ (searches[s].status = "current" => searches[s].quiet)) =>
            searches[s].hits = SearchIndex(BuildSearchIndex(searches[s].pair))
============================================================================
