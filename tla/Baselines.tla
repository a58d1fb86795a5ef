----------------------------- MODULE Baselines -----------------------------
(***************************************************************************)
(* The creation of a baseline (history-baselines.js, baseline-store.js)    *)
(* and the backup of a repository (backup.js).                             *)
(*                                                                         *)
(* A creation crosses four stores and holds no lock over them: it reads    *)
(* the documents under a readiness token, takes the next free identity,    *)
(* commits the memberships, writes the baseline under baselines.lock, and  *)
(* appends an audit event.  A backup holds the repository's lock, then     *)
(* audit.lock and baselines.lock, while it copies file by file.            *)
(*                                                                         *)
(* Locks exclude (ProjectLock has when), and execute commits all or        *)
(* nothing (RepositoryCommit).  An immutable file counts as written when   *)
(* it is complete.                                                         *)
(***************************************************************************)
EXTENDS Quality

CONSTANTS
    Creator,      \* executions of baselines.create
    Selections,   \* sets of requirements a baseline may be asked for
    Scenarios,    \* documents to start from, each with the events explored together
    MaxTokens,    \* bound: readiness tokens that have not expired
    MaxWaived     \* bound: exceptions in a readiness check

\* Bounds: document commands, creations or backups that stop half way, backups, and
\* the idempotency keys in use.
ASSUME BaselinesAssumption ==
    /\ {MaxTokens, MaxWaived} \subseteq Nat
    /\ {"free", "backup"} \cap Creator = {}
    /\ \A s \in Scenarios : /\ {s.budget.commands, s.budget.stops, s.budget.backups} \subseteq Nat
                           /\ "memberships" \in DOMAIN s.documents

VARIABLES
    documents,   \* as in ChangeControl, with reviews and plans
    revision,    \* repositoryRevision
    tokens,      \* readiness tokens issued and not expired
    creation,    \* the baselines.create of each creator
    answers,     \* idempotent results the repository replays
    store,       \* directories under .engine/baselines, by number
    audited,     \* baselines with a baseline-created audit event
    locks,       \* holders of audit.lock and baselines.lock
    backup,      \* the backup being made, and its copies
    committed,   \* history: what each commit of memberships was made upon
    left,        \* history: directories a creation stopped in
    budget       \* bounds: what may still happen, and the keys in use

repository == <<documents, revision, answers, committed>>
engine == <<store, audited, left>>
vars == <<repository, engine, tokens, creation, locks, backup, budget>>

Idle == [step |-> "idle"]
Step(c) == creation[c].step
Free(lock) == locks[lock] = "free"

\* The backup holds the repository's lock, which reads and commits take too.
RepositoryFree == backup.step \in {"idle", "done"}

NextNumber == 1 + Max(DOMAIN store \cup {0})

Versions(ids) == {<<id, Version(documents, id)>> : id \in ids}

Init ==
    /\ \E s \in Scenarios : documents = s.documents /\ budget = s.budget
    /\ revision = 0
    /\ tokens = {} /\ answers = {} /\ audited = {} /\ committed = {} /\ left = {}
    /\ creation = [c \in Creator |-> Idle]
    /\ store = << >>
    /\ locks = [lock \in {"audit", "baselines"} |-> "free"]
    /\ backup = Idle

----------------------------------------------------------------------------
(* Commands on the documents: edits, reassessment, decisions of change     *)
(* control, and those of reviews and verification.                         *)

Execute(candidates) ==
    /\ RepositoryFree
    /\ budget.commands > 0 /\ budget' = [budget EXCEPT !.commands = @ - 1]
    /\ \E d \in candidates :
         /\ d # documents /\ documents' = d
         /\ AssertMonotonicTransition(documents, d, TRUE)
    /\ revision' = revision + 1
    /\ UNCHANGED <<answers, committed, engine, tokens, creation, locks, backup>>

Update == \E id \in Ids(documents), patch \in Contents :
    Execute(UpdateCandidate(documents, [op |-> "update", id |-> id, patch |-> patch,
                                        expectedVersion |-> Version(documents, id)], 0))

Reassess == \E n \in DOMAIN documents.relationships, status \in {"valid", "waived", "invalid"} :
    Execute(ReassessRelationship(documents, n, status))

Transition == \E id \in Ids(documents), rule \in Policy.transitions, exception \in BOOLEAN :
    Execute(TransitionRequirement(documents, id, rule, exception))

RejectChange == \E ch \in DOMAIN documents.changes :
    /\ documents.changes[ch].status = "ready_for_decision"
    /\ Execute({[documents EXCEPT !.changes[ch].status = "rejected"]})

Review ==
    \/ \E ids \in Selections : Len(documents.reviews) < 1 /\ Execute(CreateReview(documents, ids))
    \/ \E r \in DOMAIN documents.reviews :
         \/ \E severity \in {"blocking", "minor"} : Execute(RecordReviewFinding(documents, r, severity))
         \/ \E f \in DOMAIN documents.reviews[r].findings :
              Execute(DispositionReviewFinding(documents, r, f, "resolved"))
         \/ \E decision \in {"approve", "reject", "close"}, exception \in BOOLEAN :
              Execute(RecordReviewDecision(documents, r, decision, exception))
         \/ Execute(ReopenReview(documents, r))

Plan == \E id \in Ids(documents) : Execute(RecordVerificationPlan(documents, id))

Evidence == \E id \in Ids(documents), status \in {"passed", "failed"}, accepted \in BOOLEAN :
    \E version \in 1..Version(documents, id) :
        Execute(RecordVerificationEvidence(documents, id, version, status, accepted))

----------------------------------------------------------------------------
(* Readiness.  Each exception waives one blocker.                          *)

CheckReadiness == \E ids \in Selections :
    LET blockers == Blockers(documents, ids) IN
    /\ RepositoryFree
    /\ Cardinality(blockers) <= MaxWaived
    /\ Cardinality(tokens) < MaxTokens
    /\ tokens' = tokens \cup {[revision |-> revision, ids |-> ids, waived |-> blockers]}
    /\ UNCHANGED <<repository, engine, creation, locks, backup, budget>>

ExpireToken == \E token \in tokens :
    /\ tokens' = tokens \ {token}
    /\ UNCHANGED <<repository, engine, creation, locks, backup, budget>>

----------------------------------------------------------------------------
(* CreateBaselineService and ImmutableBaselineStore.create.                *)

SetCreation(c, value) == creation' = [creation EXCEPT ![c] = value]
Goto(c, step) == SetCreation(c, [creation[c] EXCEPT !.step = step])

Begin(c) == \E token \in tokens, key \in budget.keys :
    /\ Step(c) = "idle" /\ RepositoryFree
    /\ token.revision = revision
    /\ SetCreation(c, [step |-> "identify", token |-> token, key |-> key,
                       items |-> Versions(token.ids), number |-> 0])
    /\ UNCHANGED <<repository, engine, tokens, locks, backup, budget>>

\* store.nextId() takes no lock.
Identify(c) ==
    /\ Step(c) = "identify"
    /\ SetCreation(c, [creation[c] EXCEPT !.step = "commit", !.number = NextNumber])
    /\ UNCHANGED <<repository, engine, tokens, locks, backup, budget>>

Answer(c) == {a \in answers : a.key = creation[c].key}

\* Fault: a result that is replayed is stored like a new one.
ReplayStores(c) ==
    /\ Step(c) = "commit" /\ RepositoryFree
    /\ \E a \in Answer(c) : a.token = creation[c].token
    /\ Goto(c, "lock")
    /\ UNCHANGED <<repository, engine, tokens, locks, backup, budget>>

\* execute answers what the same request committed before; the store is then asked
\* for that baseline, which may not be there yet, or never.
Replay(c) ==
    /\ Step(c) = "commit" /\ RepositoryFree
    /\ \E a \in Answer(c) : a.token = creation[c].token
    /\ SetCreation(c, Idle)
    /\ UNCHANGED <<repository, engine, tokens, locks, backup, budget>>

\* Another request under the key, or a revision that is not the token's.
Refuse(c) ==
    /\ Step(c) = "commit" /\ RepositoryFree
    /\ IF Answer(c) = {} THEN creation[c].token.revision # revision
       ELSE \A a \in Answer(c) : a.token # creation[c].token
    /\ SetCreation(c, Idle)
    /\ UNCHANGED <<repository, engine, tokens, locks, backup, budget>>

AddMemberships(c) ==
    /\ documents' = [documents EXCEPT !.memberships = @ \cup
           {<<item[1], item[2], creation[c].number>> : item \in creation[c].items}]
    /\ revision' = revision + 1
    /\ answers' = answers \cup {[key |-> creation[c].key, token |-> creation[c].token,
                                 number |-> creation[c].number]}
    /\ committed' = committed \cup
           {[number |-> creation[c].number, items |-> creation[c].items,
             current |-> creation[c].items = Versions(creation[c].token.ids),
             unready |-> Blockers(documents, creation[c].token.ids) \ creation[c].token.waived]}
    /\ Goto(c, "lock")
    /\ UNCHANGED <<engine, tokens, locks, backup, budget>>

\* Fault: the commit trusts the comparison made when the documents were read.
CommitAnyRevision(c) ==
    /\ Step(c) = "commit" /\ RepositoryFree
    /\ Answer(c) = {}
    /\ AddMemberships(c)

Commit(c) ==
    /\ Step(c) = "commit" /\ RepositoryFree
    /\ Answer(c) = {}
    /\ creation[c].token.revision = revision
    /\ AddMemberships(c)

LockStore(c) ==
    /\ Step(c) = "lock" /\ Free("baselines")
    /\ locks' = [locks EXCEPT !["baselines"] = c]
    /\ Goto(c, "directory")
    /\ UNCHANGED <<repository, engine, tokens, backup, budget>>

MakeDirectory(c) ==
    /\ Step(c) = "directory" /\ creation[c].number \notin DOMAIN store
    /\ store' = [n \in DOMAIN store \cup {creation[c].number} |->
                   IF n \in DOMAIN store THEN store[n] ELSE [complete |-> FALSE, items |-> {}]]
    /\ Goto(c, "files")
    /\ UNCHANGED <<repository, audited, left, tokens, locks, backup, budget>>

\* EEXIST: another creation took the identity.
DirectoryExists(c) ==
    /\ Step(c) = "directory" /\ creation[c].number \in DOMAIN store
    /\ locks' = [locks EXCEPT !["baselines"] = "free"]
    /\ SetCreation(c, Idle)
    /\ UNCHANGED <<repository, engine, tokens, backup, budget>>

\* snapshot.json, then manifest.json; the lock is released.
WriteFiles(c) ==
    /\ Step(c) = "files"
    /\ store' = [store EXCEPT ![creation[c].number] = [complete |-> TRUE, items |-> creation[c].items]]
    /\ locks' = [locks EXCEPT !["baselines"] = "free"]
    /\ Goto(c, "audit")
    /\ UNCHANGED <<repository, audited, left, tokens, backup, budget>>

AppendAudit(c) ==
    /\ Step(c) = "audit" /\ Free("audit")
    /\ audited' = audited \cup {creation[c].number}
    /\ SetCreation(c, Idle)
    /\ UNCHANGED <<repository, store, left, tokens, locks, backup, budget>>

Released(holder) == [lock \in DOMAIN locks |-> IF locks[lock] = holder THEN "free" ELSE locks[lock]]

\* The process stops or a call fails; a lock it held is taken over.
Stop(c) ==
    /\ Step(c) # "idle"
    /\ budget.stops > 0 /\ budget' = [budget EXCEPT !.stops = @ - 1]
    /\ left' = IF Step(c) = "files" THEN left \cup {creation[c].number} ELSE left
    /\ locks' = Released(c)
    /\ SetCreation(c, Idle)
    /\ UNCHANGED <<repository, store, audited, tokens, backup>>

----------------------------------------------------------------------------
(* RepositoryBackupManager.create: inside the repository's consistency     *)
(* point, then under both other locks, in the order of the file names.     *)

unbackedUp == <<repository, engine, tokens, creation>>

StartBackup ==
    /\ backup = Idle
    /\ budget.backups > 0 /\ budget' = [budget EXCEPT !.backups = @ - 1]
    /\ backup' = [step |-> "audit.lock"]
    /\ UNCHANGED <<unbackedUp, locks>>

BackupLockAudit ==
    /\ backup.step = "audit.lock" /\ Free("audit")
    /\ locks' = [locks EXCEPT !["audit"] = "backup"]
    /\ backup' = [step |-> "baselines.lock"]
    /\ UNCHANGED <<unbackedUp, budget>>

\* Fault: baselines are immutable, so their lock is not taken.
BackupSkipsBaselines ==
    /\ backup.step = "baselines.lock"
    /\ backup' = [step |-> "copy"]
    /\ UNCHANGED <<unbackedUp, locks, budget>>

BackupLockBaselines ==
    /\ backup.step = "baselines.lock" /\ Free("baselines")
    /\ locks' = [locks EXCEPT !["baselines"] = "backup"]
    /\ backup' = [step |-> "copy"]
    /\ UNCHANGED <<unbackedUp, budget>>

CopyAudit ==
    /\ backup.step = "copy"
    /\ backup' = [step |-> "copyBaselines", audited |-> audited]
    /\ UNCHANGED <<unbackedUp, locks, budget>>

CopyBaselines ==
    /\ backup.step = "copyBaselines"
    /\ backup' = [step |-> "copyDocuments", audited |-> backup.audited, store |-> store]
    /\ UNCHANGED <<unbackedUp, locks, budget>>

CopyDocuments ==
    /\ backup.step = "copyDocuments"
    /\ backup' = [step |-> "done", audited |-> backup.audited, store |-> backup.store,
                  memberships |-> documents.memberships]
    /\ locks' = Released("backup")
    /\ UNCHANGED <<unbackedUp, budget>>

\* The destination exists only in part, without a backup manifest.
StopBackup ==
    /\ ~RepositoryFree
    /\ budget.stops > 0 /\ budget' = [budget EXCEPT !.stops = @ - 1]
    /\ backup' = Idle
    /\ locks' = Released("backup")
    /\ UNCHANGED unbackedUp

Next ==
    \/ Update \/ Reassess \/ Transition \/ RejectChange \/ Review \/ Plan \/ Evidence
    \/ CheckReadiness \/ ExpireToken
    \/ \E c \in Creator :
         \/ Begin(c) \/ Identify(c) \/ Replay(c) \/ Refuse(c) \/ Commit(c) \/ LockStore(c)
         \/ MakeDirectory(c) \/ DirectoryExists(c) \/ WriteFiles(c) \/ AppendAudit(c) \/ Stop(c)
    \/ StartBackup \/ BackupLockAudit \/ BackupLockBaselines
    \/ CopyAudit \/ CopyBaselines \/ CopyDocuments \/ StopBackup

Spec == Init /\ [][Next]_vars

----------------------------------------------------------------------------
(* Properties.                                                             *)

Complete(s) == {n \in DOMAIN s : s[n].complete}

\* Whatever races or stops, a baseline that can be read has every version it lists
\* among the memberships that the write guard looks up
\* (workflow-and-change-control-guide.md:41).
GuardedWhenVisible ==
    \A n \in Complete(store) : \A item \in store[n].items :
        <<item[1], item[2], n>> \in documents.memberships

\* A baseline is committed upon documents in which its items are the current versions
\* and ready but for the blockers an exception waived, however old its token is
\* (history-baselines-and-audit-guide.md:5).
BaselinedWasReady == \A entry \in committed : entry.current /\ entry.unready = {}

\* restoreIsolated: the store verifies only if every directory is complete.
Restorable(copy) == DOMAIN copy.store = Complete(copy.store)

\* A backup restores unless a creation stopped half way before it, and is closed: an
\* audited baseline is in it, and so are the memberships of each baseline.
BackupsConsistent ==
    backup.step = "done" =>
        /\ Restorable(backup) \/ DOMAIN backup.store \ Complete(backup.store) \subseteq left
        /\ backup.audited \subseteq Complete(backup.store)
        /\ \A n \in Complete(backup.store) : \A item \in backup.store[n].items :
             <<item[1], item[2], n>> \in backup.memberships
============================================================================
