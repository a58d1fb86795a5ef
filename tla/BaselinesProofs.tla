--------------------------- MODULE BaselinesProofs ---------------------------
(***************************************************************************)
(* The promises of baselines and backups, for any number of creations and  *)
(* commands and any documents.  Three facts carry them.  No command takes  *)
(* a membership back, so what guards a baseline once guards it for good.   *)
(* Every commit raises the revision, so what a token says of the documents *)
(* holds as long as its revision is the current one.  And a directory is   *)
(* incomplete only while its creation holds baselines.lock, or for ever    *)
(* after that creation stopped.                                            *)
(***************************************************************************)
EXTENDS Baselines, TLAPS

----------------------------------------------------------------------------
(* Document commands leave the memberships as they are.                    *)

Keeps(d, e) == "memberships" \in DOMAIN e /\ e.memberships = d.memberships

LEMMA BumpKeeps ==
  ASSUME NEW d, "memberships" \in DOMAIN d, NEW id, NEW content, NEW status, NEW by
  PROVE  Keeps(d, Bump(d, id, content, status, by))
  BY DEF Bump, Keeps

LEMMA MarksKeep ==
  ASSUME NEW d, "memberships" \in DOMAIN d, NEW id, NEW trigger
  PROVE  /\ Keeps(d, MarkRelationshipsSuspect(d, id, trigger))
         /\ Keeps(d, MarkEvidencePotentiallyStale(d, id))
         /\ Keeps(d, MarkReuseSourceChanged(d, id))
  BY DEF MarkRelationshipsSuspect, MarkEvidencePotentiallyStale, MarkReuseSourceChanged, Keeps

LEMMA KeepsTransitive ==
  ASSUME NEW d, NEW e, NEW f, Keeps(d, e), Keeps(e, f)
  PROVE  Keeps(d, f)
  BY DEF Keeps

LEMMA EditedKeeps ==
  ASSUME NEW d, "memberships" \in DOMAIN d, NEW id, NEW content
  PROVE  Keeps(d, Edited(d, id, content))
<1> DEFINE material == Material[content] # Material[Item(d, id).content]
           new == Bump(d, id, content, Item(d, id).status, "command")
           linked == IF material THEN MarkRelationshipsSuspect(new, id, "content-change") ELSE new
           tested == IF Evidential[content] # Evidential[Item(d, id).content]
                     THEN MarkEvidencePotentiallyStale(linked, id) ELSE linked
           told == IF material THEN MarkReuseSourceChanged(tested, id) ELSE tested
<1>1. Keeps(d, new)
  BY BumpKeeps
<1>2. Keeps(d, linked)
  <2> HIDE DEF new
  <2>1. Keeps(new, MarkRelationshipsSuspect(new, id, "content-change"))
    BY <1>1, MarksKeep DEF Keeps
  <2>2. QED
    BY <1>1, <2>1, KeepsTransitive
<1>3. Keeps(d, tested)
  <2> HIDE DEF linked
  <2>1. Keeps(linked, MarkEvidencePotentiallyStale(linked, id))
    BY <1>2, MarksKeep DEF Keeps
  <2>2. QED
    BY <1>2, <2>1, KeepsTransitive
<1>4. Keeps(d, told)
  <2> HIDE DEF tested
  <2>1. Keeps(tested, MarkReuseSourceChanged(tested, id))
    BY <1>3, MarksKeep DEF Keeps
  <2>2. QED
    BY <1>3, <2>1, KeepsTransitive
<1>5. Edited(d, id, content) = told
  BY DEF Edited
<1>6. QED
  BY <1>4, <1>5

LEMMA UpdateKeeps ==
  ASSUME NEW d, "memberships" \in DOMAIN d, NEW op, NEW change,
         NEW e \in UpdateCandidate(d, op, change)
  PROVE  Keeps(d, e)
<1>1. e = d \/ e = Edited(d, op.id, op.patch)
  BY DEF UpdateCandidate
<1>2. Keeps(d, d)
  BY DEF Keeps
<1>3. QED
  BY <1>1, <1>2, EditedKeeps

LEMMA ReassessKeeps ==
  ASSUME NEW d, "memberships" \in DOMAIN d, NEW n, NEW status,
         NEW e \in ReassessRelationship(d, n, status)
  PROVE  Keeps(d, e)
  BY DEF ReassessRelationship, Keeps

LEMMA TransitionKeeps ==
  ASSUME NEW d, "memberships" \in DOMAIN d, NEW id, NEW rule, NEW exception,
         NEW e \in TransitionRequirement(d, id, rule, exception)
  PROVE  Keeps(d, e)
<1> DEFINE new == Bump(d, id, Item(d, id).content, rule.to, "command")
<1>1. e = new \/ e = MarkRelationshipsSuspect(new, id, "retirement")
  BY DEF TransitionRequirement
<1>2. Keeps(d, new)
  BY BumpKeeps
<1> HIDE DEF new
<1>3. Keeps(new, MarkRelationshipsSuspect(new, id, "retirement"))
  BY <1>2, MarksKeep DEF Keeps
<1>4. QED
  BY <1>1, <1>2, <1>3, KeepsTransitive

LEMMA QualityKeeps ==
  ASSUME NEW d, "memberships" \in DOMAIN d
  PROVE  /\ \A ids : \A e \in CreateReview(d, ids) : Keeps(d, e)
         /\ \A r, severity : \A e \in RecordReviewFinding(d, r, severity) : Keeps(d, e)
         /\ \A r, f, disposition : \A e \in DispositionReviewFinding(d, r, f, disposition) : Keeps(d, e)
         /\ \A r, decision, exception : \A e \in RecordReviewDecision(d, r, decision, exception) : Keeps(d, e)
         /\ \A r : \A e \in ReopenReview(d, r) : Keeps(d, e)
         /\ \A id : \A e \in RecordVerificationPlan(d, id) : Keeps(d, e)
         /\ \A id, version, status, accepted :
              \A e \in RecordVerificationEvidence(d, id, version, status, accepted) : Keeps(d, e)
<1>1. \A ids : \A e \in CreateReview(d, ids) : Keeps(d, e)
  BY DEF CreateReview, Keeps
<1>2. \A r, severity : \A e \in RecordReviewFinding(d, r, severity) : Keeps(d, e)
  BY DEF RecordReviewFinding, Keeps
<1>3. \A r, f, disposition : \A e \in DispositionReviewFinding(d, r, f, disposition) : Keeps(d, e)
  BY DEF DispositionReviewFinding, Keeps
<1>4. \A r, decision, exception : \A e \in RecordReviewDecision(d, r, decision, exception) : Keeps(d, e)
  BY DEF RecordReviewDecision, Keeps
<1>5. \A r : \A e \in ReopenReview(d, r) : Keeps(d, e)
  BY DEF ReopenReview, Keeps
<1>6. \A id : \A e \in RecordVerificationPlan(d, id) : Keeps(d, e)
  BY DEF RecordVerificationPlan, Keeps
<1>7. \A id, version, status, accepted :
        \A e \in RecordVerificationEvidence(d, id, version, status, accepted) : Keeps(d, e)
  BY DEF RecordVerificationEvidence, Keeps
<1>8. QED
  BY <1>1, <1>2, <1>3, <1>4, <1>5, <1>6, <1>7

Command == Update \/ Reassess \/ Transition \/ RejectChange \/ Review \/ Plan \/ Evidence

\* What any command on the documents does to the rest of the state.
LEMMA CommandStep ==
  ASSUME "memberships" \in DOMAIN documents, Command
  PROVE  /\ Keeps(documents, documents')
         /\ revision' = revision + 1
         /\ UNCHANGED <<answers, committed, engine, tokens, creation, locks, backup>>
<1>1. ASSUME NEW candidates, Execute(candidates), \A e \in candidates : Keeps(documents, e)
      PROVE  /\ Keeps(documents, documents')
             /\ revision' = revision + 1
             /\ UNCHANGED <<answers, committed, engine, tokens, creation, locks, backup>>
  BY <1>1 DEF Execute
<1>2. CASE Update
  BY <1>1, <1>2, UpdateKeeps DEF Update
<1>3. CASE Reassess
  BY <1>1, <1>3, ReassessKeeps DEF Reassess
<1>4. CASE Transition
  BY <1>1, <1>4, TransitionKeeps DEF Transition
<1>5. CASE RejectChange
  <2>1. \A ch : \A e \in {[documents EXCEPT !.changes[ch].status = "rejected"]} : Keeps(documents, e)
    BY DEF Keeps
  <2>2. QED
    BY <1>1, <1>5, <2>1 DEF RejectChange
<1>6. CASE Review
  BY <1>1, <1>6, QualityKeeps DEF Review
<1>7. CASE Plan
  BY <1>1, <1>7, QualityKeeps DEF Plan
<1>8. CASE Evidence
  BY <1>1, <1>8, QualityKeeps DEF Evidence
<1>9. QED
  BY <1>2, <1>3, <1>4, <1>5, <1>6, <1>7, <1>8 DEF Command

----------------------------------------------------------------------------
(* Guarded when visible.                                                   *)

Fields == {"step", "token", "key", "items", "number"}
Steps == {"identify", "commit", "lock", "directory", "files", "audit"}

Guarded(n, items) == \A item \in items : <<item[1], item[2], n>> \in documents.memberships

\* The memberships of a creation are committed before its baseline is written.
GuardInv ==
    /\ "memberships" \in DOMAIN documents
    /\ DOMAIN creation = Creator
    /\ \A c \in Creator : creation[c] = Idle \/ (DOMAIN creation[c] = Fields /\ Step(c) \in Steps)
    /\ \A c \in Creator : Step(c) \in {"lock", "directory", "files", "audit"} =>
         Guarded(creation[c].number, creation[c].items)
    /\ \A n \in Complete(store) : Guarded(n, store[n].items)

Advance ==
    \E c \in Creator :
        \/ Begin(c) \/ Identify(c) \/ Replay(c) \/ Refuse(c) \/ Commit(c) \/ LockStore(c)
        \/ MakeDirectory(c) \/ DirectoryExists(c) \/ WriteFiles(c) \/ AppendAudit(c) \/ Stop(c)

BackupStep ==
    \/ StartBackup \/ BackupLockAudit \/ BackupLockBaselines
    \/ CopyAudit \/ CopyBaselines \/ CopyDocuments \/ StopBackup

LEMMA NextCases ==
  ASSUME Next
  PROVE  Command \/ CheckReadiness \/ ExpireToken \/ Advance \/ BackupStep
  BY DEF Next, Command, Advance, BackupStep

\* Memberships are never taken back.
LEMMA MembershipsGrow ==
  ASSUME GuardInv, [Next]_vars
  PROVE  "memberships" \in DOMAIN documents' /\ documents.memberships \subseteq documents'.memberships
<1>1. CASE Command
  BY <1>1, CommandStep DEF GuardInv, Keeps
<1>2. CASE CheckReadiness \/ ExpireToken \/ BackupStep \/ UNCHANGED vars
  <2>1. documents' = documents
    BY <1>2 DEF CheckReadiness, ExpireToken, BackupStep, StartBackup, BackupLockAudit,
                BackupLockBaselines, CopyAudit, CopyBaselines, CopyDocuments, StopBackup,
                unbackedUp, repository, vars
  <2>2. QED
    BY <2>1 DEF GuardInv
<1>3. ASSUME NEW c \in Creator, Commit(c)
      PROVE  "memberships" \in DOMAIN documents' /\ documents.memberships \subseteq documents'.memberships
  BY <1>3 DEF Commit, AddMemberships, GuardInv
<1>4. ASSUME NEW c \in Creator,
             Begin(c) \/ Identify(c) \/ Replay(c) \/ Refuse(c) \/ LockStore(c) \/ MakeDirectory(c)
               \/ DirectoryExists(c) \/ WriteFiles(c) \/ AppendAudit(c) \/ Stop(c)
      PROVE  documents' = documents
  BY <1>4 DEF Begin, Identify, Replay, Refuse, LockStore, MakeDirectory, DirectoryExists,
              WriteFiles, AppendAudit, Stop, repository
<1>5. QED
  BY <1>1, <1>2, <1>3, <1>4, NextCases DEF Advance, GuardInv

LEMMA SetStep ==
  ASSUME GuardInv, NEW c \in Creator, NEW value, SetCreation(c, value)
  PROVE  creation'[c] = value /\ \A d \in Creator : d # c => creation'[d] = creation[d]
  BY DEF SetCreation, GuardInv

LEMMA GotoStep ==
  ASSUME GuardInv, NEW c \in Creator, Step(c) # "idle", NEW step, Goto(c, step)
  PROVE  /\ DOMAIN creation'[c] = Fields /\ creation'[c].step = step
         /\ creation'[c].number = creation[c].number /\ creation'[c].items = creation[c].items
         /\ \A d \in Creator : d # c => creation'[d] = creation[d]
<1>1. DOMAIN creation[c] = Fields
  BY DEF GuardInv, Step, Idle
<1>2. QED
  BY <1>1 DEF Goto, SetCreation, GuardInv, Fields

LEMMA GuardNext ==
  ASSUME GuardInv, [Next]_vars
  PROVE  GuardInv'
<1>1. "memberships" \in DOMAIN documents' /\ \A n, items : Guarded(n, items) => Guarded(n, items)'
  BY MembershipsGrow DEF Guarded
<1>2. ASSUME UNCHANGED <<creation, store>>
      PROVE  GuardInv'
  BY <1>1, <1>2 DEF GuardInv, Step, Complete, Guarded, Idle, Fields, Steps
<1>3. ASSUME NEW c \in Creator, UNCHANGED store, NEW value, SetCreation(c, value),
             value = Idle \/ (DOMAIN value = Fields /\ value.step \in Steps),
             value.step \in {"lock", "directory", "files", "audit"} => Guarded(value.number, value.items)'
      PROVE  GuardInv'
  BY <1>1, <1>3 DEF GuardInv, SetCreation, Step, Complete, Guarded, Idle, Fields, Steps
<1>4. CASE Command \/ CheckReadiness \/ ExpireToken \/ BackupStep \/ UNCHANGED vars
  <2>1. Command => UNCHANGED <<creation, store>>
    BY CommandStep DEF GuardInv, engine
  <2>2. UNCHANGED <<creation, store>>
    BY <1>4, <2>1 DEF CheckReadiness, ExpireToken, BackupStep, StartBackup, BackupLockAudit,
                BackupLockBaselines, CopyAudit, CopyBaselines, CopyDocuments, StopBackup,
                unbackedUp, engine, vars
  <2>3. QED
    BY <1>2, <2>2
<1>5. ASSUME NEW c \in Creator, Begin(c) PROVE GuardInv'
  BY <1>3, <1>5 DEF Begin, engine, Fields, Steps
<1>6. ASSUME NEW c \in Creator, Replay(c) \/ Refuse(c) \/ DirectoryExists(c) \/ AppendAudit(c) \/ Stop(c)
      PROVE  GuardInv'
  BY <1>3, <1>6 DEF Replay, Refuse, DirectoryExists, AppendAudit, Stop, engine, Idle
<1>7. ASSUME NEW c \in Creator, Identify(c) PROVE GuardInv'
  <2> DEFINE value == [creation[c] EXCEPT !.step = "commit", !.number = NextNumber]
  <2>1. DOMAIN creation[c] = Fields
    BY <1>7 DEF Identify, GuardInv, Step, Idle
  <2>2. DOMAIN value = Fields /\ value.step = "commit"
    BY <2>1 DEF Fields
  <2>3. SetCreation(c, value) /\ UNCHANGED store
    BY <1>7 DEF Identify, engine
  <2> HIDE DEF value
  <2>4. QED
    BY <1>3, <2>2, <2>3 DEF Steps
<1>8. ASSUME NEW c \in Creator, Commit(c) PROVE GuardInv'
  <2>1. DOMAIN creation[c] = Fields
    BY <1>8 DEF Commit, GuardInv, Step, Idle
  <2>2. documents'.memberships = documents.memberships \cup
           {<<item[1], item[2], creation[c].number>> : item \in creation[c].items}
    BY <1>8 DEF Commit, AddMemberships, GuardInv
  <2>3. QED
    BY <1>3, <1>8, <2>1, <2>2 DEF Commit, AddMemberships, Goto, engine, Fields, Steps, Guarded
<1>9. ASSUME NEW c \in Creator, LockStore(c) PROVE GuardInv'
  <2>1. DOMAIN creation[c] = Fields /\ Guarded(creation[c].number, creation[c].items)
    BY <1>9 DEF LockStore, GuardInv, Step, Idle
  <2>2. QED
    BY <1>1, <1>3, <1>9, <2>1 DEF LockStore, Goto, engine, Fields, Steps, Guarded
<1>10. ASSUME NEW c \in Creator, NEW step \in {"files", "audit"}, Goto(c, step),
              Step(c) \in {"directory", "files"},
              \A n \in Complete(store') :
                \/ n \in Complete(store) /\ store'[n].items = store[n].items
                \/ n = creation[c].number /\ store'[n].items = creation[c].items
       PROVE  GuardInv'
  <2>1. /\ DOMAIN creation' = Creator /\ creation'[c].step = step
        /\ DOMAIN creation'[c] = Fields
        /\ creation'[c].number = creation[c].number /\ creation'[c].items = creation[c].items
        /\ \A d \in Creator : d # c => creation'[d] = creation[d]
    BY <1>10, GotoStep DEF Goto, SetCreation, GuardInv
  <2>2. Guarded(creation[c].number, creation[c].items)'
    <3>1. Guarded(creation[c].number, creation[c].items)
      BY <1>10 DEF GuardInv
    <3>2. QED
      BY <1>1, <2>1, <3>1 DEF Guarded
  <2>3. \A d \in Creator : creation'[d] = Idle \/ (DOMAIN creation'[d] = Fields /\ creation'[d].step \in Steps)
    BY <1>10, <2>1 DEF GuardInv, Step, Steps
  <2>4. \A d \in Creator : creation'[d].step \in {"lock", "directory", "files", "audit"} =>
          Guarded(creation[d].number, creation[d].items)'
    BY <1>1, <2>1, <2>2 DEF GuardInv, Step, Guarded
  <2>5. \A n \in Complete(store') : Guarded(n, store[n].items)'
    BY <1>1, <1>10, <2>1, <2>2 DEF GuardInv, Guarded
  <2>6. QED
    BY <1>1, <2>1, <2>3, <2>4, <2>5 DEF GuardInv, Step
<1>11. ASSUME NEW c \in Creator, MakeDirectory(c) \/ WriteFiles(c) PROVE GuardInv'
  <2>1. CASE MakeDirectory(c)
    BY <1>10, <2>1 DEF MakeDirectory, Complete
  <2>2. CASE WriteFiles(c)
    BY <1>10, <2>2 DEF WriteFiles, Complete
  <2>3. QED
    BY <1>11, <2>1, <2>2
<1>12. QED
  BY <1>4, <1>5, <1>6, <1>7, <1>8, <1>9, <1>11, NextCases DEF Advance

LEMMA GuardInit == Init => GuardInv
<1> SUFFICES ASSUME Init PROVE GuardInv
  OBVIOUS
<1>1. "memberships" \in DOMAIN documents
  BY BaselinesAssumption DEF Init
<1>2. Complete(store) = {}
  BY DEF Init, Complete
<1>3. QED
  BY <1>1, <1>2 DEF Init, GuardInv, Idle, Step

\* A baseline that can be read has every version it lists among the memberships,
\* whatever creations race or stop.
THEOREM Guard == Spec => []GuardedWhenVisible
<1>1. GuardInv => GuardedWhenVisible
  BY DEF GuardInv, GuardedWhenVisible, Guarded
<1>2. QED
  BY <1>1, GuardInit, GuardNext, PTL DEF Spec
----------------------------------------------------------------------------
(* Ready when committed.                                                   *)

\* What a token says of the documents holds while its revision is the current one.
Sound(token, d, r) ==
    /\ token.revision \in 0..r
    /\ token.revision = r => token.waived = Blockers(d, token.ids)

ReadyInv ==
    /\ revision \in Nat
    /\ \A token \in tokens : Sound(token, documents, revision)
    /\ \A c \in Creator : Step(c) # "idle" =>
         /\ Sound(creation[c].token, documents, revision)
         /\ creation[c].token.revision = revision => creation[c].items = Versions(creation[c].token.ids)
    /\ BaselinedWasReady

LEMMA ReadyNext ==
  ASSUME GuardInv, ReadyInv, [Next]_vars
  PROVE  ReadyInv'
\* The revision is raised: no token names the new one.
<1>1. ASSUME revision' = revision + 1
      PROVE  \A token : Sound(token, documents, revision) =>
                Sound(token, documents', revision') /\ token.revision # revision'
  BY <1>1 DEF Sound, ReadyInv
<1>2. ASSUME UNCHANGED <<documents, revision>>
      PROVE  \A token : Sound(token, documents, revision) => Sound(token, documents', revision')
  BY <1>2 DEF Sound
<1>3. CASE Command
  <2>1. revision' = revision + 1 /\ UNCHANGED <<tokens, creation, committed>>
    BY <1>3, CommandStep DEF GuardInv
  <2>2. \A c \in Creator : Step(c)' = Step(c)
    BY <2>1 DEF Step
  <2>3. BaselinedWasReady'
    BY <2>1 DEF BaselinedWasReady, ReadyInv
  <2>4. \A token \in tokens' : Sound(token, documents', revision')
    BY <1>1, <2>1 DEF ReadyInv
  <2>5. \A c \in Creator : Step(c)' # "idle" =>
          Sound(creation'[c].token, documents', revision') /\ creation'[c].token.revision # revision'
    BY <1>1, <2>1, <2>2 DEF ReadyInv
  <2>6. QED
    BY <2>1, <2>3, <2>4, <2>5 DEF ReadyInv
<1>4. ASSUME UNCHANGED <<documents, revision, committed>>,
             \A token \in tokens' : Sound(token, documents, revision),
             \A c \in Creator : Step(c)' # "idle" =>
               /\ Sound(creation'[c].token, documents, revision)
               /\ creation'[c].token.revision = revision => creation'[c].items = Versions(creation'[c].token.ids)
      PROVE  ReadyInv'
  BY <1>2, <1>4 DEF ReadyInv, BaselinedWasReady, Versions
<1>5. ASSUME UNCHANGED creation
      PROVE  \A c \in Creator : Step(c)' = Step(c) /\ creation'[c] = creation[c]
  BY <1>5 DEF Step
<1>6. CASE CheckReadiness
  <2>1. PICK ids \in Selections :
          tokens' = tokens \cup {[revision |-> revision, ids |-> ids, waived |-> Blockers(documents, ids)]}
    BY <1>6 DEF CheckReadiness
  <2>2. Sound([revision |-> revision, ids |-> ids, waived |-> Blockers(documents, ids)], documents, revision)
    BY DEF Sound, ReadyInv
  <2>3. UNCHANGED <<documents, revision, committed, creation>>
    BY <1>6 DEF CheckReadiness, repository
  <2>4. QED
    BY <1>4, <1>5, <2>1, <2>2, <2>3 DEF ReadyInv
<1>7. CASE ExpireToken
  <2>1. tokens' \subseteq tokens /\ UNCHANGED <<documents, revision, committed, creation>>
    BY <1>7 DEF ExpireToken, repository
  <2>2. QED
    BY <1>4, <1>5, <2>1 DEF ReadyInv
<1>8. CASE BackupStep \/ UNCHANGED vars
  <2>1. UNCHANGED <<documents, revision, committed, tokens, creation>>
    BY <1>8 DEF BackupStep, StartBackup, BackupLockAudit, BackupLockBaselines, CopyAudit,
                CopyBaselines, CopyDocuments, StopBackup, unbackedUp, repository, vars
  <2>2. QED
    BY <1>4, <1>5, <2>1 DEF ReadyInv
<1>9. ASSUME NEW c \in Creator, NEW value, SetCreation(c, value),
             UNCHANGED <<documents, revision, committed, tokens>>,
             value.step # "idle" =>
               /\ Sound(value.token, documents, revision)
               /\ value.token.revision = revision => value.items = Versions(value.token.ids)
      PROVE  ReadyInv'
  <2>1. creation'[c] = value /\ \A d \in Creator : d # c => creation'[d] = creation[d]
    BY <1>9 DEF SetCreation, GuardInv
  <2>2. QED
    BY <1>4, <1>9, <2>1 DEF ReadyInv, Step
<1>10. ASSUME NEW c \in Creator, Begin(c) PROVE ReadyInv'
  <2>1. PICK token \in tokens, key \in budget.keys :
          /\ token.revision = revision
          /\ SetCreation(c, [step |-> "identify", token |-> token, key |-> key,
                              items |-> Versions(token.ids), number |-> 0])
    BY <1>10 DEF Begin
  <2>2. Sound(token, documents, revision)
    BY DEF ReadyInv
  <2>3. UNCHANGED <<documents, revision, committed, tokens>>
    BY <1>10 DEF Begin, repository
  <2>4. QED
    BY <1>9, <2>1, <2>2, <2>3
<1>11. ASSUME NEW c \in Creator, Replay(c) \/ Refuse(c) \/ DirectoryExists(c) \/ AppendAudit(c) \/ Stop(c)
       PROVE  ReadyInv'
  <2>1. SetCreation(c, Idle) /\ UNCHANGED <<documents, revision, committed, tokens>>
    BY <1>11 DEF Replay, Refuse, DirectoryExists, AppendAudit, Stop, repository
  <2>2. QED
    BY <1>9, <2>1 DEF Idle
<1>12. ASSUME NEW c \in Creator, NEW step, Step(c) # "idle", Goto(c, step),
              UNCHANGED <<documents, revision, committed, tokens>>
       PROVE  ReadyInv'
  <2> DEFINE value == [creation[c] EXCEPT !.step = step]
  <2>1. DOMAIN creation[c] = Fields
    BY <1>12 DEF GuardInv, Step, Idle
  <2>2. value.token = creation[c].token /\ value.items = creation[c].items
    BY <2>1 DEF Fields
  <2>3. SetCreation(c, value)
    BY <1>12 DEF Goto
  <2> HIDE DEF value
  <2>4. QED
    BY <1>9, <1>12, <2>2, <2>3 DEF ReadyInv
<1>13. ASSUME NEW c \in Creator, Identify(c) PROVE ReadyInv'
  <2> DEFINE value == [creation[c] EXCEPT !.step = "commit", !.number = NextNumber]
  <2>1. DOMAIN creation[c] = Fields /\ Step(c) # "idle"
    BY <1>13 DEF Identify, GuardInv, Step, Idle
  <2>2. value.token = creation[c].token /\ value.items = creation[c].items
    BY <2>1 DEF Fields
  <2>3. SetCreation(c, value) /\ UNCHANGED <<documents, revision, committed, tokens>>
    BY <1>13 DEF Identify, repository
  <2> HIDE DEF value
  <2>4. QED
    BY <1>9, <2>1, <2>2, <2>3 DEF ReadyInv
<1>14. ASSUME NEW c \in Creator, LockStore(c) \/ MakeDirectory(c) \/ WriteFiles(c) PROVE ReadyInv'
  <2>1. Step(c) # "idle" /\ UNCHANGED <<documents, revision, committed, tokens>>
    BY <1>14 DEF LockStore, MakeDirectory, WriteFiles, repository
  <2>2. Goto(c, "directory") \/ Goto(c, "files") \/ Goto(c, "audit")
    BY <1>14 DEF LockStore, MakeDirectory, WriteFiles
  <2>3. QED
    BY <1>12, <2>1, <2>2
\* The commit compares the token's revision: what it was checked upon is current.
<1>15. ASSUME NEW c \in Creator, Commit(c) PROVE ReadyInv'
  <2>1. /\ Step(c) # "idle"
        /\ creation[c].token.waived = Blockers(documents, creation[c].token.ids)
        /\ creation[c].items = Versions(creation[c].token.ids)
    BY <1>15 DEF Commit, ReadyInv, Sound
  <2>2. BaselinedWasReady'
    <3> DEFINE entry ==
          [number |-> creation[c].number, items |-> creation[c].items,
           current |-> creation[c].items = Versions(creation[c].token.ids),
           unready |-> Blockers(documents, creation[c].token.ids) \ creation[c].token.waived]
    <3>1. committed' = committed \cup {entry}
      BY <1>15 DEF Commit, AddMemberships
    <3>2. entry.current
      BY <2>1
    <3>3. entry.unready = {}
      BY <2>1
    <3> HIDE DEF entry
    <3>4. QED
      BY <3>1, <3>2, <3>3 DEF BaselinedWasReady, ReadyInv
  <2>3. revision' = revision + 1 /\ tokens' = tokens /\ Goto(c, "lock")
    BY <1>15 DEF Commit, AddMemberships
  <2>4. DOMAIN creation[c] = Fields
    BY <2>1 DEF GuardInv, Step, Idle
  <2>5. creation'[c].token = creation[c].token /\ \A d \in Creator : d # c => creation'[d] = creation[d]
    BY <2>3, <2>4 DEF Goto, SetCreation, GuardInv, Fields
  <2>6. \A d \in Creator : Step(d)' # "idle" => Step(d) # "idle" /\ creation'[d].token = creation[d].token
    BY <2>1, <2>5 DEF Step
  <2>7. \A token \in tokens' : Sound(token, documents', revision')
    BY <1>1, <2>3 DEF ReadyInv
  <2>8. \A d \in Creator : Step(d)' # "idle" =>
          Sound(creation'[d].token, documents', revision') /\ creation'[d].token.revision # revision'
    BY <1>1, <2>3, <2>6 DEF ReadyInv
  <2>9. QED
    BY <2>2, <2>3, <2>7, <2>8 DEF ReadyInv
<1>16. QED
  BY <1>3, <1>6, <1>7, <1>8, <1>10, <1>11, <1>13, <1>14, <1>15, NextCases DEF Advance

\* A baseline is committed upon documents in which its items are current and ready, but
\* for what an exception waived, however many commands came after its readiness check.
THEOREM Ready == Spec => []BaselinedWasReady
<1>1. Init => ReadyInv
  BY DEF Init, ReadyInv, BaselinedWasReady, Idle, Step
<1>2. ReadyInv => BaselinedWasReady
  BY DEF ReadyInv
<1>3. QED
  BY <1>1, <1>2, GuardInit, GuardNext, ReadyNext, PTL DEF Spec

----------------------------------------------------------------------------
(* Backups.                                                                *)

Quiet == Command \/ CheckReadiness \/ ExpireToken \/ UNCHANGED vars

\* Steps of a creation outside the store.
Outside(c) == Begin(c) \/ Identify(c) \/ Replay(c) \/ Refuse(c) \/ Commit(c)

LEMMA QuietStep ==
  ASSUME GuardInv, Quiet
  PROVE  UNCHANGED <<store, audited, left, creation, locks, backup>>
<1>1. Command => UNCHANGED <<store, audited, left, creation, locks, backup>>
  BY CommandStep DEF GuardInv, engine
<1>2. QED
  BY <1>1 DEF Quiet, CheckReadiness, ExpireToken, engine, vars

LEMMA OutsideStep ==
  ASSUME GuardInv, NEW c \in Creator, Outside(c)
  PROVE  /\ UNCHANGED <<store, audited, left, locks, backup>>
         /\ Step(c) \in {"idle", "identify", "commit"}
         /\ creation'[c].step \in {"idle", "identify", "commit", "lock"}
         /\ \A d \in Creator : d # c => creation'[d] = creation[d]
<1>1. UNCHANGED <<store, audited, left, locks, backup>>
  BY DEF Outside, Begin, Identify, Replay, Refuse, Commit, AddMemberships, engine
<1>2. CASE Begin(c)
  BY <1>1, <1>2, SetStep DEF Begin
<1>3. CASE Identify(c)
  <2> DEFINE value == [creation[c] EXCEPT !.step = "commit", !.number = NextNumber]
  <2>1. DOMAIN creation[c] = Fields
    BY <1>3 DEF Identify, GuardInv, Step, Idle
  <2>2. value.step = "commit"
    BY <2>1 DEF Fields
  <2>3. SetCreation(c, value)
    BY <1>3 DEF Identify
  <2> HIDE DEF value
  <2>4. QED
    BY <1>1, <1>3, <2>2, <2>3, SetStep DEF Identify
<1>4. CASE Replay(c) \/ Refuse(c)
  <2>1. Step(c) = "commit" /\ SetCreation(c, Idle)
    BY <1>4 DEF Replay, Refuse
  <2>2. QED
    BY <1>1, <2>1, SetStep DEF Idle
<1>5. CASE Commit(c)
  <2>1. Step(c) = "commit" /\ Goto(c, "lock")
    BY <1>5 DEF Commit, AddMemberships
  <2>2. QED
    BY <1>1, <2>1, GotoStep
<1>6. QED
  BY <1>2, <1>3, <1>4, <1>5 DEF Outside

\* Whoever is at the directory, or copies, holds baselines.lock.
LocksHeld ==
    /\ DOMAIN locks = {"audit", "baselines"}
    /\ \A c \in Creator : Step(c) \in {"directory", "files"} => locks["baselines"] = c
    /\ backup.step \in {"copy", "copyBaselines", "copyDocuments"} => locks["baselines"] = "backup"

LEMMA LocksNext ==
  ASSUME GuardInv, LocksHeld, [Next]_vars
  PROVE  LocksHeld'
<1>1. "free" \notin Creator /\ "backup" \notin Creator
  BY BaselinesAssumption
<1>2. CASE Quiet
  BY <1>2, QuietStep DEF LocksHeld, Step
<1>3. ASSUME NEW c \in Creator, Outside(c) PROVE LocksHeld'
  BY <1>3, OutsideStep DEF LocksHeld, Step
<1>4. ASSUME NEW c \in Creator, LockStore(c) PROVE LocksHeld'
  <2>1. Goto(c, "directory") /\ Step(c) # "idle" /\ locks["baselines"] = "free"
    BY <1>4 DEF LockStore, Free
  <2>2. locks' = [locks EXCEPT !["baselines"] = c] /\ backup' = backup
    BY <1>4 DEF LockStore
  <2>3. QED
    BY <1>1, <2>1, <2>2, GotoStep DEF LocksHeld, Step
<1>5. ASSUME NEW c \in Creator, MakeDirectory(c) PROVE LocksHeld'
  <2>1. Goto(c, "files") /\ Step(c) = "directory" /\ UNCHANGED <<locks, backup>>
    BY <1>5 DEF MakeDirectory
  <2>2. QED
    BY <2>1, GotoStep DEF LocksHeld, Step
<1>6. ASSUME NEW c \in Creator, DirectoryExists(c) \/ WriteFiles(c) PROVE LocksHeld'
  <2>1. /\ Step(c) \in {"directory", "files"}
        /\ locks' = [locks EXCEPT !["baselines"] = "free"] /\ backup' = backup
    BY <1>6 DEF DirectoryExists, WriteFiles
  <2>2. creation'[c].step \in {"idle", "audit"} /\ \A d \in Creator : d # c => creation'[d] = creation[d]
    <3>1. CASE DirectoryExists(c)
      BY <3>1, SetStep DEF DirectoryExists, Idle
    <3>2. CASE WriteFiles(c)
      BY <3>2, <2>1, GotoStep DEF WriteFiles
    <3>3. QED
      BY <1>6, <3>1, <3>2
  <2>3. QED
    BY <1>1, <2>1, <2>2 DEF LocksHeld, Step
<1>7. ASSUME NEW c \in Creator, AppendAudit(c) PROVE LocksHeld'
  <2>1. SetCreation(c, Idle) /\ UNCHANGED <<locks, backup>>
    BY <1>7 DEF AppendAudit
  <2>2. QED
    BY <2>1, SetStep DEF LocksHeld, Step, Idle
<1>8. ASSUME NEW c \in Creator, Stop(c) PROVE LocksHeld'
  <2>1. SetCreation(c, Idle) /\ locks' = Released(c) /\ backup' = backup
    BY <1>8 DEF Stop
  <2>2. QED
    BY <1>1, <2>1, SetStep DEF LocksHeld, Step, Idle, Released
<1>9. CASE BackupStep
  <2>1. creation' = creation
    BY <1>9 DEF BackupStep, StartBackup, BackupLockAudit, BackupLockBaselines, CopyAudit,
                CopyBaselines, CopyDocuments, StopBackup, unbackedUp
  <2>2. CASE StartBackup
    BY <2>1, <2>2 DEF StartBackup, LocksHeld, Step
  <2>3. CASE BackupLockAudit
    BY <2>1, <2>3 DEF BackupLockAudit, LocksHeld, Step
  <2>4. CASE BackupLockBaselines
    BY <1>1, <2>1, <2>4 DEF BackupLockBaselines, Free, LocksHeld, Step
  <2>5. CASE CopyAudit \/ CopyBaselines
    BY <2>1, <2>5 DEF CopyAudit, CopyBaselines, LocksHeld, Step
  <2>6. CASE CopyDocuments \/ StopBackup
    BY <1>1, <2>1, <2>6 DEF CopyDocuments, StopBackup, Released, LocksHeld, Step, Idle
  <2>7. QED
    BY <1>9, <2>2, <2>3, <2>4, <2>5, <2>6 DEF BackupStep
<1>10. QED
  BY <1>2, <1>3, <1>4, <1>5, <1>6, <1>7, <1>8, <1>9, NextCases DEF Advance, Outside, Quiet

\* A directory is incomplete only in the hands of its creation, or left for good.
StoreInv ==
    /\ \A c \in Creator : Step(c) = "files" => creation[c].number \in DOMAIN store
    /\ \A c \in Creator : Step(c) = "audit" => creation[c].number \in Complete(store)
    /\ \A n \in DOMAIN store \ Complete(store) :
         n \in left \/ \E c \in Creator : Step(c) = "files" /\ creation[c].number = n
    /\ audited \subseteq Complete(store)

\* What was complete stays complete, and what was left stays left.
StoreGrows == Complete(store) \subseteq Complete(store') /\ left \subseteq left'

LEMMA StoreNext ==
  ASSUME GuardInv, StoreInv, [Next]_vars
  PROVE  StoreInv' /\ StoreGrows
<1>1. ASSUME UNCHANGED <<store, audited, left, creation>> PROVE StoreInv' /\ StoreGrows
  BY <1>1 DEF StoreInv, StoreGrows, Complete, Step
<1>2. CASE Quiet
  BY <1>1, <1>2, QuietStep
<1>3. CASE BackupStep
  <2>1. UNCHANGED <<store, audited, left, creation>>
    BY <1>3 DEF BackupStep, StartBackup, BackupLockAudit, BackupLockBaselines, CopyAudit,
                CopyBaselines, CopyDocuments, StopBackup, unbackedUp, engine
  <2>2. QED
    BY <1>1, <2>1
<1>4. ASSUME NEW c \in Creator, UNCHANGED <<store, audited, left>>, Step(c) # "files",
             creation'[c].step \notin {"files", "audit"},
             \A d \in Creator : d # c => creation'[d] = creation[d]
      PROVE  StoreInv' /\ StoreGrows
  BY <1>4 DEF StoreInv, StoreGrows, Complete, Step
<1>5. ASSUME NEW c \in Creator, Outside(c) PROVE StoreInv' /\ StoreGrows
  BY <1>4, <1>5, OutsideStep
<1>6. ASSUME NEW c \in Creator, LockStore(c) PROVE StoreInv' /\ StoreGrows
  <2>1. Goto(c, "directory") /\ Step(c) = "lock" /\ UNCHANGED <<store, audited, left>>
    BY <1>6 DEF LockStore, engine
  <2>2. QED
    BY <1>4, <2>1, GotoStep
<1>7. ASSUME NEW c \in Creator, DirectoryExists(c) PROVE StoreInv' /\ StoreGrows
  <2>1. SetCreation(c, Idle) /\ Step(c) = "directory" /\ UNCHANGED <<store, audited, left>>
    BY <1>7 DEF DirectoryExists, engine
  <2>2. QED
    BY <1>4, <2>1, SetStep DEF Idle
<1>8. ASSUME NEW c \in Creator, MakeDirectory(c) PROVE StoreInv' /\ StoreGrows
  <2> DEFINE number == creation[c].number
  <2>1. Goto(c, "files") /\ Step(c) = "directory" /\ UNCHANGED <<audited, left>>
    BY <1>8 DEF MakeDirectory
  <2>2. DOMAIN store' = DOMAIN store \cup {number} /\ Complete(store') = Complete(store)
    BY <1>8 DEF MakeDirectory, Complete
  <2>3. creation'[c].step = "files" /\ creation'[c].number = number
        /\ \A d \in Creator : d # c => creation'[d] = creation[d]
    BY <2>1, GotoStep
  <2> HIDE DEF number
  <2>4. QED
    BY <2>1, <2>2, <2>3 DEF StoreInv, StoreGrows, Step
<1>9. ASSUME NEW c \in Creator, WriteFiles(c) PROVE StoreInv' /\ StoreGrows
  <2> DEFINE number == creation[c].number
  <2>1. Goto(c, "audit") /\ Step(c) = "files" /\ UNCHANGED <<audited, left>>
    BY <1>9 DEF WriteFiles
  <2>2. number \in DOMAIN store
    BY <2>1 DEF StoreInv
  <2>3. DOMAIN store' = DOMAIN store /\ Complete(store') = Complete(store) \cup {number}
    BY <1>9, <2>2 DEF WriteFiles, Complete
  <2>4. creation'[c].step = "audit" /\ creation'[c].number = number
        /\ \A d \in Creator : d # c => creation'[d] = creation[d]
    BY <2>1, GotoStep
  <2>5. \A n \in DOMAIN store' \ Complete(store') :
          n \in left' \/ \E d \in Creator : Step(d)' = "files" /\ creation'[d].number = n
    BY <2>1, <2>3, <2>4 DEF StoreInv, Step
  <2> HIDE DEF number
  <2>6. QED
    BY <2>1, <2>3, <2>4, <2>5 DEF StoreInv, StoreGrows, Step
<1>10. ASSUME NEW c \in Creator, AppendAudit(c) PROVE StoreInv' /\ StoreGrows
  <2>1. /\ SetCreation(c, Idle) /\ Step(c) = "audit" /\ UNCHANGED <<store, left>>
        /\ audited' = audited \cup {creation[c].number}
    BY <1>10 DEF AppendAudit
  <2>2. creation'[c].step = "idle" /\ \A d \in Creator : d # c => creation'[d] = creation[d]
    BY <2>1, SetStep DEF Idle
  <2>3. QED
    BY <2>1, <2>2 DEF StoreInv, StoreGrows, Complete, Step
<1>11. ASSUME NEW c \in Creator, Stop(c) PROVE StoreInv' /\ StoreGrows
  <2>1. /\ SetCreation(c, Idle) /\ UNCHANGED <<store, audited>>
        /\ left' = IF Step(c) = "files" THEN left \cup {creation[c].number} ELSE left
    BY <1>11 DEF Stop
  <2>2. creation'[c].step = "idle" /\ \A d \in Creator : d # c => creation'[d] = creation[d]
    BY <2>1, SetStep DEF Idle
  <2>3. QED
    BY <2>1, <2>2 DEF StoreInv, StoreGrows, Complete, Step
<1>12. QED
  BY <1>2, <1>3, <1>5, <1>6, <1>7, <1>8, <1>9, <1>10, <1>11, NextCases DEF Advance, Outside, Quiet

\* What the parts copied so far say of each other and of the rest.
CopyInv ==
    /\ backup.step = "copyBaselines" => backup.audited \subseteq Complete(store)
    /\ backup.step \in {"copyDocuments", "done"} =>
         /\ backup.audited \subseteq Complete(backup.store)
         /\ DOMAIN backup.store \ Complete(backup.store) \subseteq left
    /\ backup.step = "copyDocuments" => \A n \in Complete(backup.store) : Guarded(n, backup.store[n].items)
    /\ backup.step = "done" => \A n \in Complete(backup.store) : \A item \in backup.store[n].items :
         <<item[1], item[2], n>> \in backup.memberships

LEMMA CopyNext ==
  ASSUME GuardInv, LocksHeld, StoreInv, CopyInv, [Next]_vars
  PROVE  CopyInv'
<1>1. ASSUME backup' = backup PROVE CopyInv'
  BY <1>1, MembershipsGrow, StoreNext DEF CopyInv, StoreGrows, Guarded
<1>2. CASE Quiet
  BY <1>1, <1>2, QuietStep
<1>3. CASE Advance
  BY <1>1, <1>3 DEF Advance, Begin, Identify, Replay, Refuse, Commit, AddMemberships, LockStore,
                    MakeDirectory, DirectoryExists, WriteFiles, AppendAudit, Stop
<1>4. CASE StartBackup \/ BackupLockAudit \/ BackupLockBaselines \/ StopBackup
  <2>1. backup'.step \in {"audit.lock", "baselines.lock", "copy", "idle"}
    BY <1>4 DEF StartBackup, BackupLockAudit, BackupLockBaselines, StopBackup, Idle
  <2>2. QED
    BY <2>1 DEF CopyInv
<1>5. CASE CopyAudit
  <2>1. backup'.step = "copyBaselines" /\ backup'.audited = audited /\ store' = store
    BY <1>5 DEF CopyAudit, unbackedUp, engine
  <2>2. QED
    BY <2>1 DEF CopyInv, StoreInv
\* The backup holds baselines.lock, so nobody is about to complete a directory.
<1>6. CASE CopyBaselines
  <2>1. /\ backup.step = "copyBaselines" /\ backup'.step = "copyDocuments"
        /\ backup'.audited = backup.audited /\ backup'.store = store
        /\ UNCHANGED <<documents, store, left>>
    BY <1>6 DEF CopyBaselines, unbackedUp, repository, engine
  <2>2. \A c \in Creator : Step(c) # "files"
    BY <2>1, BaselinesAssumption DEF LocksHeld
  <2>3. DOMAIN store \ Complete(store) \subseteq left
    BY <2>2 DEF StoreInv
  <2>4. \A n \in Complete(store) : Guarded(n, store[n].items)
    BY DEF GuardInv
  <2>5. QED
    BY <2>1, <2>3, <2>4 DEF CopyInv, Guarded
<1>7. CASE CopyDocuments
  <2>1. /\ backup.step = "copyDocuments" /\ backup'.step = "done"
        /\ backup'.audited = backup.audited /\ backup'.store = backup.store
        /\ backup'.memberships = documents.memberships /\ left' = left
    BY <1>7 DEF CopyDocuments, unbackedUp, engine
  <2>2. QED
    BY <2>1 DEF CopyInv, Guarded
<1>8. QED
  BY <1>2, <1>3, <1>4, <1>5, <1>6, <1>7, NextCases DEF BackupStep, Quiet

\* A backup is closed under what it refers to: an audited baseline is in it, and so are
\* its memberships; what is incomplete in it was left by a creation that stopped.
THEOREM Backup == Spec => []BackupsConsistent
<1>1. Init => LocksHeld /\ StoreInv /\ CopyInv
  BY DEF Init, LocksHeld, StoreInv, CopyInv, Complete, Idle, Step
<1>2. CopyInv => BackupsConsistent
  BY DEF CopyInv, BackupsConsistent
<1>3. QED
  BY <1>1, <1>2, GuardInit, GuardNext, LocksNext, StoreNext, CopyNext, PTL DEF Spec
=============================================================================
