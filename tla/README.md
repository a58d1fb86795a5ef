# ReqCaster in TLA+

A verification project for the requirements engine of this repository: TLA+
modules translated from `src/`, TLC runs on small instances, and proofs checked
by TLAPS. Paths below are relative to the repository; line numbers of every
definition are in `PROJECT.json` under `map`.

    tlc -workers 2 -config MCProjectLock.cfg MCProjectLock.tla
    tlapm ProjectLockProofs.tla   # also RepositoryCommitProofs, AuditLogProofs,
                                  # ExecutionGateProofs, OutboxProofs, BaselinesProofs,
                                  # ChangeControlProofs, RevisionsProofs

## The system

The engine keeps two canonical JSON documents (business and software
requirements) under one root directory. There is no server and no database:
any number of processes, each with any number of concurrent asynchronous
operations, open the same directory. What they share is files.

| Part | State | Operations | Talks to |
|---|---|---|---|
| Project lock, `adapters/repository/lock.js` | a directory and `owner.json` in it | `acquireProjectLock`, `release`, `stale` | the file system; used by repository, audit log, baseline store, backup |
| Canonical repository, `adapters/repository/repository.js` | two documents, `versions/current.json`, `transactions/*` | `initialize`, `open`, `read`, `execute`, `recover`, `migrate`, `restoreMigrationBackup`, `readRevision`, `history`, `diagnose` | lock, audit log, search index; every service |
| Audit log, `adapters/repository/audit-log.js` | `audit/events/*`, `audit/head.json` | `initialize`, `append`, `verify`, `checkpoint`, `list` | its own lock; called by repository, dispatcher and services |
| Baseline store, `adapters/repository/baseline-store.js` | `baselines/*` | `nextId`, `create`, `get`, `list`, `verify`, `amend` | its own lock; history services |
| Backup manager, `adapters/repository/backup.js` | backup trees | `create`, `verify`, `restoreIsolated` | three locks, the tree |
| Search index, `adapters/repository/search-index.js` | an index file and a copy in memory | `load`, `rebuild`, `markStale`, `query` | repository |
| Execution gate, `operations/runtime.js` | slots, queue, counters in memory | `run`, timers, abort listeners, `#drain` | dispatcher |
| Dispatcher, `application/services/dispatcher.js` | none | `execute` | gate, authorization, services, audit log |
| Authoring, `services/authoring.js` | preview tokens in memory | create, update, retire, bulk preview and commit | `repository.execute` |
| Workflow and changes, `services/workflow.js` | change records in the documents, preview store | transition, create to close a change, preview and commit its implementation | authoring, traceability |
| Outbox, `services/workflow.js` | events in the documents | `pending`, `deliverNext` | repository, an external handler |
| Traceability, `services/traceability.js` | relationships in the documents | link, unlink, reassess, traverse, coverage | repository |
| Reviews and verification, `services/reviews-verification-reporting.js` | quality records in the documents | reviews, findings, plans, evidence, reports | repository, baselines |
| Baseline services, `services/history-baselines.js` | readiness tokens in memory, memberships in the documents | check, create, compare | repository, baseline store |
| Import, reuse, AI governance | preview stores in memory | preview and commit | repository |
| Reads, cache, identity, authorization, contracts, domain, validation | none that outlives a call | pure functions | all services |

A command goes: adapter, dispatcher, gate (admission), service, then
`repository.execute`, which takes the project lock, recovers what an earlier
crash left, loads and checks the documents, verifies the audit log, looks for a
receipt of the same idempotency key, runs the service's mutator on a copy, and
commits the pair with a transaction directory as write-ahead log. Then it
appends a governed-record event to the audit log, under that log's own lock.

### What is hard, and what correct means

* **Lock.** Contenders are separated only by the atomicity of single file-system
  calls; a dead owner's lock must be taken over, a live one's never. Correct: two
  calls never both hold it; it is not left behind; every wait ends.
* **Commit and recovery.** Thirteen durable writes, a crash or an exception
  between any two, recovery that itself can crash, retries with an idempotency
  key. Correct: what loads is one revision written by one transaction; what was
  acknowledged stays; no key takes effect twice; recovery always reaches a state
  that loads.
* **Audit log.** Writers under a lock that is not perfect, readers under none,
  crashes between an event and the head. Correct: one chain, at most one event
  ahead of the head, one event per transaction, tampering noticed.
* **Gate.** Deadlines, aborts and ends of tasks race; a task may never end.
  Correct: limits kept by work that still runs, no lost wake-up, FIFO, one answer
  per call, every call answered.
* **Baselines.** Identity chosen outside a lock, memberships committed before the
  baseline is written, a backup copying meanwhile. Correct: a baseline that can be
  read is guarded by its memberships, it was ready when it was committed, and a
  backup contains what it refers to.
* **Change control.** Many commands write the same records, previews are old when
  they are committed, and only some commands ask for an approved change. Correct:
  a command changes protected content only as an approved change proposed it.
* **Outbox.** Processors that hold nothing between delivery and its record.
  Correct: events are offered in order and at least once, attempts are bounded,
  every event is settled.
* **Traceability, verification, reuse.** Marks that one command sets and others
  clear. Correct: what is not marked suspect, stale or out of date has not been
  materially changed since it was assessed, recorded or shared.
* **Reading back, migration, search.** Transactions rolled back, directories out of
  order, a restoration that no manifest covers, an index that is checked and used
  at different times. Correct: what reads back is what was; a migration can be
  undone wherever a process died; a search answers from one revision.

`PROJECT.json` lists each hazard at its line with the properties that watch it;
those without one say why not.

## Modules

### `ProjectLock`, `MCProjectLock`, `ProjectLockProofs`

`ProjectLock` has one action per file-system call of `lock.js`: `Mkdir` and
`MkdirFails` (a code other than `EEXIST`), `OpenOwner`/`OpenFindsOwner`/`OpenFails`,
`WriteOwner`/`WriteFails`, `ReadOwner` and `Judge` (the two halves of `stale`),
`Unlink` and `Rmdir` (the two of `release`), `Retry` and `GiveUp`. `dir` and `owner` are the disk; `pc`, `goal`,
`seen` the local state of a call. Time is `Expire`: the thirty-second lease runs
out on the directory's mtime, on `acquiredAt`, or both. A process dies with all
its calls (`Die`). `usurped` is a history variable: some `unlink` removed the
`owner.json` of a live contender that was writing it or held the lock. With
`Prompt` no live contender stalls while a lease runs out, which isolates the
takeover race from mere slowness.

### `AtomicRepository`, `RepositoryCommit`, `MCRepositoryCommit`, `RepositoryCommitProofs`

`AtomicRepository` is the promise: one register whose content is the sequence of
requests that took effect, each at most once per key, acknowledged only if it
did, nothing ever taken back. `RepositoryCommit` is the protocol, one action per
durable write, under the project lock (one operation at a time). A document is
the sequence of requests whose effect it holds: its revision is the length and
its checksum the sequence. `canon`, `integrity`, `txns`, `temps`, `audited`,
`auditTail` are the disk. `pc` and `phase` say which write comes next and for
which of the three uses (commit, roll-forward, rollback); commit and recovery
share `WriteTemp`, `Rename`, `WriteIntegrity`, `MarkManifest`, the audit append.
The lock wait, the mutator and the validation are the choice between `Refuse` and
`StartCommit`. The audit log is reduced to whether a transaction has its event and
whether an uncommitted tail makes `verify` throw; `OtherAppendDies` is another
caller's append that leaves such a tail. `published` (what clients were last
shown) and `acked` are history. The refinement maps `content` to `published`.

Faults are counted down from one of `FaultScenarios`: `crash` (a process dies, or
a step outside recovery's try block throws), `error` (a step inside that block
throws), `corrupt` (a snapshot of a prepared transaction or a canonical document
is damaged between operations).

### `AuditLog`, `MCAuditLog`, `AuditLogProofs`

`events` are the numbered files (a created but not yet written one is `torn`),
`head` is `head.json`. A hash is the ordinal of the record it was computed for,
so equal hashes are equal records. `append` is `CreateHead`/`WriteHead`
(`initialize`), `Lock`, then its own `verify` (`List`, `Read`, `ReadHead`),
`Dedupe`, `CreateEvent`, `WriteEvent`, `ReplaceHead`; `verify` alone is the middle
part without the lock. `Lock` may admit a second holder, because the project lock
may; `shared` records that it did, and each property says whether it needs the
lock to exclude. The reads of the listed files are one action (files once written
do not change without tampering).

### `ExecutionGate`, `ExecutionGateProofs`

One action per turn of the event loop: `run` (`Refuse`, `Reject`, `Start`,
`Enqueue`), the timers (`QueueTimeout`, `RunTimeout`; `Expire` is the passing of a
deadline), abort listeners (`Abort`), the task invoked in a microtask
(`InvokeTask`), its settling (`TaskSettles`) and the `finally` clause with
`#drain` in it (`FreeSlot`). `#drain`'s loop is the predicate `Drained`: the
shortest prefix of the queue that fills the free slots, expired entries answered
on the way. `ahead` is a history of who was queued before whom.

### `Documents`, `ChangeControl`, `MCChangeControl`, `ChangeControlProofs`

`Documents` holds the two canonical documents as one record and, for each function
the services apply to them inside `repository.execute`, an operator that returns the
set of possible results: none when the code throws, the same documents when nothing
differs. `updateCandidate` therefore comes with its suspect marking, its evidence
marking and its notice to the uses of the requirement, in the code's order, and a
bulk command applies these to the documents one after the other (`ApplyOperations`,
`PrepareImport`: recursive functions over the length of the list). A requirement is the sequence of its versions, each
with its content, its status and who wrote it (a command, an import, a propagation);
a content is an opaque value of which `Material` and `Evidential` say what the code's
lists of material and evidential fields see.

`ChangeControl` makes them transitions. `Execute` is a commit: `Valid` and
`AssertMonotonicTransition` are what the repository asks of the result, `revision`
grows by one. Direct commands, transitions, evidence, adoption, AI proposals and
every command of a change record (`CreateChange`, `Triage`, `AnalyzeChange`,
`DispositionImpact`, `DecideChange`, `CloseChange`) are one action each. Bulk
commands, imports, propagations and implementations of changes are two: a preview
that leaves a token in `previews` and a commit that finds it, any number of commands
later. `assessed` is a history variable: the versions of its endpoints a link was
last assessed for. So is the field `since` of a reuse record: the version its origin
had when the record was written by an adoption, a propagation or an import.

### `Quality`, `Baselines`, `MCBaselines`, `BaselinesProofs`

`Quality` adds reviews, plans, evidence with its result, `evaluateVerification` and
`readiness` as a set of blockers. `Baselines` follows `CreateBaselineService.execute`
await by await: the documents are read under a token (`Begin`), the next identity is
taken from the directory listing (`Identify`), the memberships are committed
(`Commit`; or `Replay`, `Refuse`), the store's lock is taken, the directory made, the
files written (`LockStore`, `MakeDirectory` or `DirectoryExists`, `WriteFiles`), the
audit event appended. `Stop` is a crash or an exception anywhere between. The backup
takes the three locks one by one and copies three parts one by one. `committed` and
`left` are history.

### `NotificationQueue`, `Outbox`, `MCOutbox`, `OutboxProofs`

`NotificationQueue` is the promise: events are published, the head of what is
waiting is offered, an offered event may be taken, delivered if it was taken, or
given up. `Outbox` is `deliverNext`: `Pick` reads the oldest pending event, `Deliver`
calls the handler, `Record` writes the answer onto whatever the entry is by then,
`Lose` is a processor that dies or whose commit is refused. Whether the handler took
an event it did not answer for is the handler's secret (`accepted`).

### `Revisions`, `MCRevisions`, `RevisionsProofs`

What the repository remembers. A commit either completes or dies leaving a prepared
transaction which the next operation rolls forward or back, damaged candidates
included (`RepositoryCommit` has the writes in between). `manifests` is in the order
in which `readdir` and a sort list the directories: a transaction's name begins with
its revision, and among those of one revision (rolled back and tried again) the
order is random. `Migrate`, and `RestoreBegin`, two `RestoreInstall`,
`RestoreIntegrity` with a crash between any two, are the migration. `index` is the
search index in the memory of one server, `indexFile` the file a second process
shares; a search is `Selected` (its snapshot), `Health`, `ReadIndexFile` and
`LoadIndex`, `RebuildWrite` and `RebuildAssign`, `QueryIndex`. A load that finds no index marks the one in memory stale. `ReadRevision`,
`ReadVersion` and `History` are the algorithms of the repository over the manifests;
`past` is the history they are compared with. `abandoned` is set when a restoration
undoes revisions that other commits were built on, `quiet` is cleared when the
index a search had checked is replaced under it.

## Runs

| Run | Shows |
|---|---|
| `lock_pass` | `TypeOK`, `ExclusionWithinLease`, `ExclusionUnlessUsurped`, `NoLeakedLock`, `AcquireTerminates` |
| `lock_exclusion` (violation) | `MutualExclusion`: two takeovers of one dead owner's lock |
| `commit_pass` | `TypeOK`, `NeverMixed`, `AtMostOnePrepared`, `AtMostOncePerKey`, `AckedIsDurable`, `SettledMeansLoadable`, `ImplementsAtomicRepository` |
| `commit_prepared` (violation) | `PreparedIsDurable`: recovery interrupted twice rolls back an intact prepared transaction |
| `commit_manifest` (violation) | `ManifestsReadable`: a crash while `manifest.json` is written blocks every later operation |
| `audit_pass` | `TypeOK`, `ChainIntact`, `HeadWithinOne`, `OncePerTransaction`, `AnsweredIsKept`, `FailsClosed` |
| `audit_alarm` (violation) | `NoFalseAlarm`: a `verify` beside an `append` fails on an intact log |
| `gate` | `TypeOK`, `SlotsAccounted`, `WorkConserving`, `CountedOnce`, `NeverOvertakes`, `EveryCallAnswered` |
| `change_control` | `TypeOK`, `ProtectedContentGoverned`, `TrustedLinksAssessed`, `TrustedEvidenceRecordedSince`, `CurrentUsesFollowSource`, `ImplementedAsApproved` |
| `baselines` | `GuardedWhenVisible`, `BaselinedWasReady`, `BackupsConsistent` |
| `outbox` | `TypeOK`, `AttemptsBounded`, `ImplementsQueue`, `EventuallySettled` |
| `revisions` | `HistoryIsTrue`, `MigrationReversible`, `SearchExact` |

Bounds, and why they are enough:

* `lock_pass`: three calls in two processes. Two in one process share a pid (a
  dead process takes both with it); the third is the faster one of a takeover
  race, which needs a dead owner and two live contenders. Two expiries let the
  lease run out on a lock and on the lock that replaced it. One mkdir may fail with an
  I/O error, which is enough to remove a live holder's lock and needs no expiry;
  `lock_exclusion` allows none, so that its trace is the takeover race alone. Deadlock is not
  checked because the system stops when all processes are dead.
* `commit_pass`: three requests, two under one key, one that expects revision 1,
  and three transactions: a retry after a rollback of the first attempt, and one
  commit more to see that nothing older comes back. Two crashes reach a crash
  inside the recovery of a crash. Two fault mixes: two crashes and a corruption,
  or one crash, one error and a corruption. `TypeOK`, `NeverMixed`,
  `AtMostOnePrepared` and `AtMostOncePerKey` also hold with three crashes, two
  errors and one corruption (12 million states, beyond the budget of a run).
  `SettledMeansLoadable` does not hold with three crashes: if another caller's
  audit append dies while recovery has already written the commit marker,
  recovery turns to rolling back, and a crash there leaves a manifest marked
  committed over restored documents. Nor does `AckedIsDurable` with two crashes
  and an error, on the same path: that manifest's receipt answers a retry whose
  effect is gone. The hazards name the lines, and the proofs below show that this
  path is the only one, and that two crashes and errors do not reach it.
* `audit_pass`: three callers, so that two may append (sharing the lock) while a
  third verifies; two records of two kinds (of one transaction and of none), one
  fault, one tampering. Callers are interchangeable, hence the symmetry.
* `gate`: one slot and a queue of two for four calls: one runs, two wait, one is
  rejected or takes the place of one that left. Deadlock is not checked because
  every call ends.
* `change_control`: an approved requirement that depends on a critical one, and room
  for a third. Three contents: one pair differs in a material field, one in an
  evidential one. Ten starts, each with a number of commits per kind of command, so
  that together every pair of kinds meets, and a change record can go all the way
  from creation to closing (seven commands) or two records that propose different
  contents for one version can both be decided and implemented (four). One preview
  at a time is enough for an old token: the commands that overtake it are direct
  ones. Four import files: a plain update; a new requirement that claims a version of
  its origin yet to come; a use written back as it was exported, after it was marked or
  as a new requirement; and a requirement that becomes its own source. Deadlock is not checked because the commands run out.
* `baselines`: two creators with one idempotency key (a request sent twice) or two;
  one requirement, because a baseline's items do not interact; one token, which any
  number of creations may use while it lives. Two stops leave a torn baseline and
  interrupt its repetition. The other starts spend the budget on commands that make
  a ready selection unready and back: two are enough to undo and to redo. Creators
  are interchangeable, hence the symmetry. Deadlock is not checked because budgets
  run out, or a lock is held by a backup when they do.
* `outbox`: three events, so that one may be retried while another is delivered and a
  third arrives; two attempts (the default is five) and two lost answers. Deadlock
  is not checked because every event is settled in the end.
* `revisions`: four starts. A repository with two searches and one commit, one
  rebuild and one failing rebuild; two commits with two crashes and a damaged
  candidate; a legacy repository with a migration, a commit, two restorations, two
  crashes and a damage; a legacy one that is searched. Searches are interchangeable.
  Deadlock is not checked because the budgets run out.

Fairness. `ProjectLock`: weak fairness of the steps of a contender (a live
process is scheduled; `Die` disables them), strong fairness of `GiveUp`: a call
that keeps waiting passes its timeout, because elapsed time only grows; the
takeover path skips that comparison, and `MaxExpiries` is what bounds it.
`ExecutionGate`: weak fairness of timers and microtasks of each call, nothing of
tasks and callers. `Outbox`: weak fairness of each processor's next step (a host
that calls `deliverNext` in a loop); answers may be lost as often as `MaxLost`
allows, and the handler may refuse every event. The other modules have no liveness
property and no fairness.

## Proofs

Proved by TLAPS for every value of the constants that satisfies the assumptions of
its module. These say what a constant is (a limit is a positive number, documents
have two levels, the starts of a run are repositories that load); only the three
theorems marked * have a condition on the run and the three marked ** one on its faults,
which are explained below.

| Theorem | States |
|---|---|
| `ProjectLockProofs!Typing` | the type invariant of the lock |
| `ProjectLockProofs!Exclusion` | `ExclusionUnlessUsurped` |
| `ProjectLockProofs!ExclusionYoung` | `ExclusionWithinLease` |
| `ProjectLockProofs!LockNotLeaked` | `NoLeakedLock` |
| `RepositoryCommitProofs!Typing` | the type invariant of commit and recovery |
| `RepositoryCommitProofs!Unmixed` | `NeverMixed` |
| `RepositoryCommitProofs!SinglePrepared` | `AtMostOnePrepared` |
| `RepositoryCommitProofs!EffectOncePerKey` | `AtMostOncePerKey` |
| `RepositoryCommitProofs!ShownIsKept` | what clients were shown is only added to, by one request with a new key at a time |
| `RepositoryCommitProofs!AcknowledgedStays` * | `AckedIsDurable` |
| `RepositoryCommitProofs!Refinement` * | `ImplementsAtomicRepository` |
| `RepositoryCommitProofs!RecoverySettles` * | `SettledMeansLoadable` |
| `RepositoryCommitProofs!TwoFaultsAreUndone` | the condition * follows from the condition ** |
| `RepositoryCommitProofs!TwoFaultsLoseNothing` ** | `AckedIsDurable` |
| `RepositoryCommitProofs!TwoFaultsRefine` ** | `ImplementsAtomicRepository` |
| `RepositoryCommitProofs!TwoFaultsSettle` ** | `SettledMeansLoadable` |
| `AuditLogProofs!Typing` | the type invariant of the audit log |
| `AuditLogProofs!Chaining` | `ChainIntact` |
| `AuditLogProofs!HeadFollows` | `HeadWithinOne` |
| `AuditLogProofs!OneEventPerTransaction` | `OncePerTransaction` |
| `AuditLogProofs!AnswersKept` | `AnsweredIsKept` |
| `AuditLogProofs!TamperingFound` | `FailsClosed` |
| `ExecutionGateProofs!Typing` | the type invariant of the gate |
| `ExecutionGateProofs!Accounting` | `SlotsAccounted` |
| `ExecutionGateProofs!Conserving` | `WorkConserving` |
| `ExecutionGateProofs!Counting` | `CountedOnce` |
| `ExecutionGateProofs!FirstComeFirstServed` | `NeverOvertakes` |
| `OutboxProofs!TypeCorrect` | the type invariant of the outbox, with what status and attempts say of each other |
| `OutboxProofs!Refinement` | `ImplementsQueue` |
| `OutboxProofs!BoundedAttempts` | `AttemptsBounded` |
| `BaselinesProofs!Guard` | `GuardedWhenVisible` |
| `BaselinesProofs!Ready` | `BaselinedWasReady` |
| `BaselinesProofs!Backup` | `BackupsConsistent` |
| `ChangeControlProofs!Typing` | the type invariant of the documents and the previews |
| `ChangeControlProofs!ChangesGovern` | `ProtectedContentGoverned` |
| `ChangeControlProofs!LinksAssessed` | `TrustedLinksAssessed` |
| `ChangeControlProofs!EvidenceTrusted` | `TrustedEvidenceRecordedSince` |
| `ChangeControlProofs!UsesFollow` | `CurrentUsesFollowSource` |
| `ChangeControlProofs!DoneAsApproved` | `ImplementedAsApproved` |
| `RevisionsProofs!Reversible` | `MigrationReversible` |
| `RevisionsProofs!SearchAnswers` | `SearchExact` |
| `RevisionsProofs!HistoryTold` | `HistoryIsTrue` |

The lock. Exclusion is not inductive: nothing in it says whose `owner.json` is on
disk. `EngagedOwns` adds that until a live lock is usurped, a contender between
creating the owner file and starting its release is the one that file names, and a
file names one contender. `YoungLock` covers the runs in which no lease expires and no
mkdir fails with an I/O error: nothing looks aged then, so nobody prepares a takeover, and a holder's directory
exists until the holder releases it. `Kept` says who answers for a directory that
exists: a call that is going to remove it, or a process that died with it; so when
nobody is left the directory is gone.

Commit and recovery. `Matched` says that the integrity record names one content
and that a state whose record matches it is that content: a load succeeds only
then, so no mixture of two commits is ever served. `OneUndecided` says that a
transaction is prepared only after a load, and a load follows a scan that found
no undecided manifest, so a second undecided one needs the first to be decided.
`KeyInv` says that in every content a load may serve or a rollback may restore, keys
are unique and each request has a committed manifest that is *firm*, not the one
recovery is working on. Recovery undoes no other transaction, so firm manifests
stay, and every later load finds the key of an effect among them.

What clients were shown (`published`) is the register of `AtomicRepository`. Whatever
is being decided was built on it (`Based`), and the integrity record names it or one
request more (`Ahead`), so what is shown next is it, or it and that request: this is
`ShownIsKept`, and it holds without condition. That an acknowledged
request stays (`AckInv`) and that recovery ends in a repository that loads
(`SettleInv`) are false on the path described under the bounds of `commit_pass`:
recovery has marked a transaction committed, fails after that, starts to undo it and,
with a document already replaced, is cut short while the marker still says committed.
`Entirely` is the step property that excludes it, and `UndoneEntirely` says that every
step has it. The three theorems marked * assume it; without it TLC has the
counterexamples, with it the theorems hold for any number of crashes, errors and
corruptions, so the path that `Entirely` excludes is the only way the code loses an
acknowledged request.

That path takes three faults. `TwoFaults` (condition **) allows two crashes and errors
and any number of corruptions, and `FaultInv` counts what is left of them (`Budget`): a
prepared transaction that no running commit will finish has cost one, an audit event
without its head has cost one, both together have cost both. Undoing what is marked
needs the first, and a recovery that fails after its marker either meets the second or
fails itself, so nothing is left to interrupt the undoing. Nor does it fail by itself:
temporary files are created exclusively, but one of an earlier undoing is there only
when both faults are spent without such an event (`Leftovers`), and undoing what is
marked meets none (`Undisturbed`). The bound is tight: with three, TLC finds the
counterexamples. Both fault mixes of `commit_pass` satisfy it.

The audit log. `AloneOf` is what the lock gives: nothing is created between an
appender's listing and its own event, and the head counts what it listed. It holds
only as long as nobody shares the lock, and `FailsClosed` needs nothing else, because
a `verify` and the check before an append find every covered event that is missing or
changed. The chain does not need the lock: the numbered file is created exclusively,
and without tampering a number is free only for an appender whose listing was complete
and whose head counted all of it, which is then the only one that writes (`LastIsMine`
in `ChainInv`). For the same reason nobody has recorded the transaction of an appender
that finds its number free (`OnceInv`).

The gate. `GateInv` joins the state properties with `QueueOK`: the queue holds each
waiting call once, and a call that was not started has no answer. Without it a
cancelled call could be started by `#drain`, or answered twice. `FreeSlotFacts`
does the arithmetic of `#drain` from the definition of the prefix it shifts: the
limit is never passed, and a queue that is not empty means that every slot is taken.
First come, first served needs `Ordered` besides: positions in the queue agree with
the history of who was queued before whom.

The outbox. `TypeOK` is inductive: every answer counts as an attempt, so only a
pending event has none. The refinement needs two facts about what a processor has in
hand, which stay true whatever the others do and so live in one invariant beside it:
every event before that one is settled, because `Pick` takes the oldest that is not
and settled events are never reopened; and a processor that records a success had
its event taken by the handler. Attempts are bounded because an event over the
limit is no longer pending: only processors that picked it before may still count.

Baselines and backups. The lemmas on commands say that none takes a membership back:
what guards a baseline once guards it for good, and a creation carries its guarded
items from the commit to the files (`GuardInv`). What a token says of the documents
holds as long as its revision is the current one, because every commit raises the
revision, and the commit of a baseline compares it (`ReadyInv`). A directory is
incomplete only while its creation holds `baselines.lock` or after it stopped
(`LocksHeld`, `StoreInv`); the backup copies baselines under that lock, audit events
before baselines, and documents last, which is why each part covers what the earlier
ones refer to (`CopyInv`).

Change control. `Sound` says of documents that they are typed, that every part of a
record names versions that exist, and that every mark still stands: a link, a piece
of evidence or a use that is trusted was assessed after the last change of a command
that matters to it. The operators of `Documents` are of two kinds. Most add versions
but ask for no new trust; for these the lemmas compare the documents before and after
(`LogsKept`, `LinksKept`, `EvidenceKept`). The others give new trust and say upon
which version. A change of content is shown to mark everything that trusted the old
one before the command ends. Lists of operations (bulk commands, imports,
implementations) are an induction over the length, done with the smallest position at
which it would fail (`LeastMember`, `Reaches`), because the library's induction rules
take an operator as a parameter. A commit of a preview is sound because a preview
whose revision is still the current one was made from the current documents
(`PreviewInv`). Assumed are the types of contents, policies, import files and
operations, and that a scenario starts from sound documents; `NewRepository` proves
that the empty ones are, and TLC evaluates the assumption for the ten of the run.

Revisions, migration, search. Documents and history are kept together by the
integrity manifest: it names the last revision of `past` at every moment, also while
a restoration or a dying commit has replaced one document and not the other
(`PastInv`), so whatever loads was current. A prepared transaction is the only one
and starts from that revision (`PreparedInv`). Only the first revision that is
remembered can be a legacy one, because nothing but a migration commits on it and
nothing leads back to it but a restoration; so all backups are of it, and restoring
one keeps what the others need (`BackupInv`). Every revision but the last is told by
a manifest, and no manifest tells it differently (`TraceInv`), whatever their order, as
long as no restoration has undone later commits. Versions and histories need the order
too. `LineInv` says that transactions are listed by the revision they lead to, each one
further than where it started, that revisions have no gaps, and that exactly one
committed transaction led to every revision but the first. `TransactionSteps` reduces
every step to three ways a transaction changes: none, one is listed, one is decided.
Filtered lists are written with `InOrder`, which lists a set of numbers by how many of
its members are smaller, instead of a recursive sort: `Ordered` says what it returns,
and `OrderKept` that a map that rises and reaches every member carries one such list
into the other. The map here is from a transaction to the revision it led to, so the
snapshots are the past in its order (`SnapshotsTell`), the first snapshot with a version
is that of the first revision with it, and the transactions that changed a record are
the revisions that changed it.
An index, in memory, on disk or in the hands of a search, says what the revision it
names was (`SearchInv`), and a search keeps relying on it only until it is overtaken.

Only model-checked: what needs fairness (`AcquireTerminates`, `EveryCallAnswered`,
`EventuallySettled`), which the proof system does not reach.

## What the code does against its documents

Four runs end in a counterexample; `PROJECT.json` quotes the lines they contradict.
The following was met while modelling and is kept out of the properties by the
antecedent or the budget named:

* `SearchExact` excludes a search whose checked index was replaced before its query
  (`quiet`). Without it TLC finds ten steps after which an answer labelled with one
  revision lists the records of another: snapshot, commit, health check against the
  old revision with a rebuild, the commit's own assignment of the index, query.
  `docs/engine/search-and-read-semantics.md:11` says that a request reads one
  complete repository revision.
* `HistoryIsTrue` and `SearchExact` exclude repositories in which a restored backup
  undid later commits (`abandoned`): `restoreMigrationBackup` checks only that the
  backup verifies, revisions are counted on from the restored one, and the manifests
  of the undone commits stay, so revision numbers are used twice and receipts answer
  for what is gone.
* A `mkdir` of the lock directory that fails with another code than `EEXIST` (`EIO`,
  `EACCES`, `ENOSPC`) ends in `release` by path (`lock.js:40`, `53-55`), although the
  call created nothing: it unlinks the `owner.json` of whoever holds the lock and removes
  the directory, and the next call acquires it too. `ExclusionWithinLease` speaks of runs
  without such a failure, `ExclusionUnlessUsurped` counts it as a usurpation.
* A change that creates a requirement (or retires one with a replacement) can be
  approved and previewed, but its commit is always refused: `applyChangeOperations`
  allocates from a local allocation, and the repository's check of new identities
  does not know it. So is a bulk command that materially changes both ends of one
  link: the link's version grows by two.
* Imports write protected content without a change record, and leave links and
  evidence unmarked; propagation of reuse and the transition to `retired` do so in
  part. The properties of `change_control` therefore speak of what commands of
  authors change. Evidence recorded late for an old version counts as current; the
  property speaks of changes after the recording.
* An import writes the reuse record a row holds over the one a requirement has
  (`import-exchange.js:241-243`, `257`), with any origin, version and state; validation
  asks for its form only. A file exported earlier sets a use that was marked
  `source-changed` since back to `current`; a version the origin does not have yet keeps
  the marks away until it has; a requirement that is made its own source is raised by two
  versions by its next material edit, which the repository then refuses.
  `CurrentUsesFollowSource` therefore speaks of changes after the record was written and
  leaves out records that were ahead of their origin then.
* `readVersion` answers with `documents.business.repositoryRevision`
  (`repository.js:418`), which the envelope of version 0.9.0 does not have (the other
  readers fall back to `revision`). A version that was first current before a migration
  reads back with the right record and no revision; `VersionsReadBack` states exactly
  this.
* A baseline whose creation stopped between commit and store cannot be repaired by
  repeating the request: the token is stale then, and a new token is another request
  under the key. Its memberships stay. A directory that was left incomplete makes
  `verify` and so a restoration of every later backup fail; `BackupsConsistent`
  allows exactly the directories in `left`.
* An event in state `dead-letter` blocks `CloseChange` of its change and nothing
  takes it out of that state but a late answer; no service calls
  `TransactionalOutbox`, which the host is expected to run.
* A comparison with the selector `current` reads the documents and the revision in
  two separate lock acquisitions.

## Not modelled

See the components of `PROJECT.json` with status `not_modelled`, and the notes of
those that are `partly` modelled. In short: stateless code (contracts, domain rules,
authorization, adapters, telemetry) has no behaviour beyond its result; reports,
traversals, coverage and exports only read; the dispatcher calls in order what is
modelled piece by piece. In the modelled parts these are left out: reuse of a dead
process's pid, abort signals of lock waits (same effect as the timeout), directory
fsync order (a completed write is durable), more than one repository root, parsing
of import files, expiry of exceptions, amendment of baselines (nothing calls it),
I/O errors of the `unlink` and `rmdir` in `release` other than a missing file (they are
thrown to the caller and leave the lock to its lease), and who may do what
(authorization comes before every command).

The models are cut at `repository.execute`: `ChangeControl`, `Baselines`, `Outbox` and
`Revisions` take a commit as one step that happens or not, which is what
`RepositoryCommit` shows of it, under a lock that excludes, which is what
`ProjectLock` shows of it as long as no live owner is usurped.

## Plan

Done: 1. `ProjectLock`, 2. `RepositoryCommit` over `AtomicRepository`, 3. `AuditLog`,
4. `ExecutionGate`, 5. `Baselines` with `Quality` and the backup, 6. `ChangeControl`
over `Documents` (with traceability, evidence, import, reuse), 7. `Outbox` over
`NotificationQueue`, 8. `Revisions` (migration, history, search index).

Every safety property of a passing run has its theorem. Left: a dispatcher run (gate,
service, commit and audit append of one command, with the answers its caller may get),
which would take the place of one of the runs above.
