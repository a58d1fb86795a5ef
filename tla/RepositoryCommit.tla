-------------------------- MODULE RepositoryCommit --------------------------
(***************************************************************************)
(* The two-document commit and recovery protocol of                        *)
(* src/adapters/repository/repository.js: initialize, open, read, execute, *)
(* #commitLocked and #recoverLocked, one action per durable write.         *)
(*                                                                         *)
(* One operation at a time runs here: the project lock (ProjectLock) is    *)
(* held throughout.  Between any two writes the process may die or the     *)
(* operation may be abandoned by an exception; the next operation, in this *)
(* process or another one, starts from what is on disk.                    *)
(*                                                                         *)
(* A canonical document is abstracted to the sequence of requests whose    *)
(* effect it holds: its repositoryRevision is the length, its checksum is  *)
(* the sequence itself.                                                    *)
(***************************************************************************)
EXTENDS Naturals, Sequences, FiniteSets

CONSTANTS
    Request,        \* commands: a retry is the same request sent again
    KeyOf,          \* idempotency scope and key of a request
    Expected,       \* expectedRepositoryRevision of a request, or AnyRevision
    AnyRevision,
    Tx,             \* transaction identities (bound: transactions ever started)
    NoTx, NoRequest,
    Missing,        \* a file that does not exist
    Foreign,        \* a canonical file edited by somebody else
    FaultScenarios  \* bounds: numbers of faults of each kind explored together

Content == Seq(Request)
Docs == {"business", "software"}
FaultKinds == {"crash", "error", "corrupt"}

ASSUME CommitAssumption ==
    /\ Expected \in [Request -> Nat \cup {AnyRevision}]
    /\ DOMAIN KeyOf = Request
    /\ AnyRevision \notin Nat
    /\ NoTx \notin Tx /\ NoRequest \notin Request
    /\ Missing \notin Content /\ Foreign \notin Content /\ Missing # Foreign
    /\ FaultScenarios \subseteq [FaultKinds -> Nat]

VARIABLES
    canon,       \* the two canonical documents
    integrity,   \* versions/current.json: both checksums and the transaction they come from
    txns,        \* transactions/: the directory of each transaction
    temps,       \* temporary files left beside the canonical documents
    audited,     \* transactions with a governed audit event
    auditTail,   \* TRUE: an audit event is not yet covered by head.json
    pc,          \* next step of the operation that holds the lock
    phase,       \* whose writes they are: commit, forward or rollback
    op,          \* the request executed; NoRequest for a read, open or recover
    tx,          \* the transaction being written
    published,   \* history: the content last shown to any client
    acked,       \* history: the requests answered as committed or replayed
    faults       \* faults that may still happen, of each kind

disk == <<canon, integrity, txns, temps, audited, auditTail>>
control == <<pc, phase, op, tx>>
history == <<published, acked>>
vars == <<disk, control, history, faults>>

Steps == {"idle", "initBusiness", "initSoftware", "initIntegrity", "scan", "load", "decide",
          "candidates", "createManifest", "writeManifest", "inspect",
          "tempBusiness", "renameBusiness", "tempSoftware", "renameSoftware",
          "integrity", "manifest", "auditEvent", "auditHead", "reply"}
Phases == {"none", "commit", "forward", "rollback"}
Statuses == {"absent", "candidates", "torn", "prepared", "committed", "rolled-back"}

\* before and request determine the after image; afterOk and beforeOk say whether
\* the two pairs of snapshot files still match the checksums of the manifest.
Directory == [request : Request \cup {NoRequest}, before : Content, status : Statuses,
              afterOk : BOOLEAN, beforeOk : BOOLEAN]
NoDirectory == [request |-> NoRequest, before |-> <<>>, status |-> "absent",
                afterOk |-> FALSE, beforeOk |-> FALSE]

AfterImage(t) == Append(txns[t].before, txns[t].request)

\* Fault: a rollback installs the after images.
ImageAfter == AfterImage(tx)

\* The pair of documents the current phase installs.
Image == IF phase = "rollback" THEN txns[tx].before ELSE AfterImage(tx)

WithStatus(s) == {t \in Tx : txns[t].status = s}

Init ==
    /\ canon = [d \in Docs |-> Missing]
    /\ integrity = Missing
    /\ txns = [t \in Tx |-> NoDirectory]
    /\ temps = {}
    /\ audited = {}
    /\ auditTail = FALSE
    /\ pc = "idle" /\ phase = "none" /\ op = NoRequest /\ tx = NoTx
    /\ published = <<>>
    /\ acked = {}
    /\ faults \in FaultScenarios

\* The operation returns or throws: the lock is released.
End == pc' = "idle" /\ phase' = "none" /\ op' = NoRequest /\ tx' = NoTx

Goto(step) == pc' = step /\ UNCHANGED <<phase, op, tx>>

\* #recoverLocked is done with a manifest and looks for the next one.
NextManifest == pc' = "scan" /\ phase' = "none" /\ tx' = NoTx /\ UNCHANGED op

\* After audit.append: commit answers, recovery goes on.
Audited == IF phase = "commit" THEN Goto("reply") ELSE NextManifest

\* An exception: inside the try block of #recoverLocked it starts the rollback.
Throw ==
    IF phase = "forward"
    THEN pc' = "inspect" /\ phase' = "rollback" /\ UNCHANGED <<op, tx>>
    ELSE End

----------------------------------------------------------------------------
(* initialize, on a root without canonical documents.  With both documents it *)
(* recovers and loads like Begin(NoRequest); with only one it refuses.        *)

BeginInitialize ==
    /\ pc = "idle" /\ \A d \in Docs : canon[d] = Missing
    /\ Goto("initBusiness")
    /\ UNCHANGED <<disk, history, faults>>

InitializeDocument(d, step, next) ==
    /\ pc = step
    /\ canon' = [canon EXCEPT ![d] = <<>>]
    /\ Goto(next)
    /\ UNCHANGED <<integrity, txns, temps, audited, auditTail, history, faults>>

InitializeIntegrity ==
    /\ pc = "initIntegrity"
    /\ integrity' = [business |-> <<>>, software |-> <<>>, tx |-> NoTx]
    /\ Goto("load")
    /\ UNCHANGED <<canon, txns, temps, audited, auditTail, history, faults>>

----------------------------------------------------------------------------
(* execute, read, open: recover, load, then decide what the request does *)

Begin(r) ==
    /\ pc = "idle"
    /\ pc' = "scan" /\ op' = r /\ UNCHANGED <<phase, tx>>
    /\ UNCHANGED <<disk, history, faults>>

\* Fault: an operation loads the documents without recovering them first.
ScanNothing ==
    /\ pc = "scan"
    /\ IF WithStatus("torn") # {} THEN End ELSE Goto("load")
    /\ UNCHANGED <<disk, history, faults>>

\* #recoverLocked: the next prepared manifest.  A manifest that does not parse
\* ends every operation; without prepared ones recovery is over.
Scan ==
    /\ pc = "scan"
    /\ \/ WithStatus("torn") # {} /\ End
       \/ /\ WithStatus("torn") = {}
          /\ \E t \in WithStatus("prepared") : tx' = t
          /\ pc' = "inspect" /\ phase' = "forward" /\ UNCHANGED op
       \/ /\ WithStatus("torn") = {} /\ WithStatus("prepared") = {}
          /\ Goto("load")
    /\ UNCHANGED <<disk, history, faults>>

\* Fault: only one of the two checksums is compared.
LoadableByBusiness ==
    /\ canon["business"] \notin {Missing, Foreign}
    /\ integrity # Missing
    /\ integrity.business = canon["business"]

\* #loadLocked: both documents parse and have one revision, the integrity record
\* names their checksums, and its transaction is a committed one.
Loadable ==
    /\ \A d \in Docs : canon[d] \notin {Missing, Foreign}
    /\ Len(canon["business"]) = Len(canon["software"])
    /\ integrity # Missing
    /\ integrity.business = canon["business"]
    /\ integrity.software = canon["software"]
    /\ integrity.tx # NoTx => /\ txns[integrity.tx].status = "committed"
                              /\ AfterImage(integrity.tx) = integrity.business

Load ==
    /\ pc = "load"
    /\ IF Loadable
       THEN /\ published' = canon["business"]
            /\ IF op = NoRequest THEN End ELSE Goto("decide")
       ELSE End /\ UNCHANGED published
    /\ UNCHANGED <<disk, acked, faults>>

\* Fault: receipts count before the commit marker is written, or not at all after it.
ReceiptsUncommitted(k) == {t \in WithStatus("prepared") : KeyOf[txns[t].request] = k}

\* Fault: receipts count whatever became of their transaction.
ReceiptsAny(k) ==
    {t \in Tx : /\ txns[t].status \in {"prepared", "committed", "rolled-back"}
                /\ KeyOf[txns[t].request] = k}

\* #idempotencyReplay: committed manifests whose receipt has this key.
Receipts(k) == {t \in WithStatus("committed") : KeyOf[txns[t].request] = k}

\* audit.verify throws, the expected revision is not the current one, the mutator leaves the documents as they are, or it, the
\* validation or the monotonicity check throws: nothing is written.
Refuse ==
    /\ pc = "decide"
    /\ auditTail \/ Receipts(KeyOf[op]) = {}
    /\ End
    /\ UNCHANGED <<disk, history, faults>>

\* The stored result is returned to the same request, INVALID_ARGUMENT to another
\* one under the same key.
Replay ==
    /\ pc = "decide" /\ ~auditTail
    /\ \E t \in Receipts(KeyOf[op]) :
          acked' = IF txns[t].request = op THEN acked \cup {op} ELSE acked
    /\ End
    /\ UNCHANGED <<disk, published, faults>>

StartCommit ==
    /\ pc = "decide" /\ ~auditTail
    /\ Receipts(KeyOf[op]) = {}
    /\ Expected[op] \in {AnyRevision, Len(canon["business"])}
    /\ \E t \in WithStatus("absent") : tx' = t
    /\ pc' = "candidates" /\ phase' = "commit" /\ UNCHANGED op
    /\ UNCHANGED <<disk, history, faults>>

----------------------------------------------------------------------------
(* #commitLocked, up to the prepared manifest *)

WriteCandidates ==
    /\ pc = "candidates"
    /\ txns' = [txns EXCEPT ![tx] =
          [request |-> op, before |-> canon["business"], status |-> "candidates",
           afterOk |-> TRUE, beforeOk |-> TRUE]]
    /\ Goto("createManifest")
    /\ UNCHANGED <<canon, integrity, temps, audited, auditTail, history, faults>>

\* manifest.json is opened (and so exists, empty) before it is written.
CreateManifest ==
    /\ pc = "createManifest"
    /\ txns' = [txns EXCEPT ![tx].status = "torn"]
    /\ Goto("writeManifest")
    /\ UNCHANGED <<canon, integrity, temps, audited, auditTail, history, faults>>

WriteManifest ==
    /\ pc = "writeManifest"
    /\ txns' = [txns EXCEPT ![tx].status = "prepared"]
    /\ Goto("tempBusiness")
    /\ UNCHANGED <<canon, integrity, temps, audited, auditTail, history, faults>>

----------------------------------------------------------------------------
(* #recoverLocked: the snapshots are verified before either direction *)

Inspect ==
    /\ pc = "inspect"
    /\ IF (phase = "forward" /\ txns[tx].afterOk) \/ (phase = "rollback" /\ txns[tx].beforeOk)
       THEN Goto("tempBusiness")
       ELSE Throw
    /\ UNCHANGED <<disk, history, faults>>

----------------------------------------------------------------------------
(* The writes that commit, roll-forward and rollback share *)

\* Fault: the manifest is marked before the integrity record is replaced.
OrderMarkerEarly ==
    [tempBusiness |-> "renameBusiness", renameBusiness |-> "tempSoftware",
     tempSoftware |-> "renameSoftware", renameSoftware |-> "manifest",
     integrity |-> "manifest"]

Order == [tempBusiness |-> "renameBusiness", renameBusiness |-> "tempSoftware",
          tempSoftware |-> "renameSoftware", renameSoftware |-> "integrity",
          integrity |-> "manifest"]

\* #installCanonical refuses a temporary file an earlier attempt left behind.
WriteTemp(d, step) ==
    /\ pc = step
    /\ IF <<tx, phase, d>> \in temps
       THEN Throw /\ UNCHANGED temps
       ELSE Goto(Order[pc]) /\ temps' = temps \cup {<<tx, phase, d>>}
    /\ UNCHANGED <<canon, integrity, txns, audited, auditTail, history, faults>>

Rename(d, step) ==
    /\ pc = step
    /\ canon' = [canon EXCEPT ![d] = Image]
    /\ temps' = temps \ {<<tx, phase, d>>}
    /\ Goto(Order[pc])
    /\ UNCHANGED <<integrity, txns, audited, auditTail, history, faults>>

\* Fault: the record names the request instead of its transaction.
WriteIntegrityByRequest ==
    /\ pc = "integrity"
    /\ integrity' = [business |-> Image, software |-> Image, tx |-> txns[tx].request]
    /\ Goto(Order[pc])
    /\ UNCHANGED <<canon, txns, temps, audited, auditTail, history, faults>>

WriteIntegrity ==
    /\ pc = "integrity"
    /\ integrity' = [business |-> Image, software |-> Image,
                     tx |-> IF phase = "rollback" THEN NoTx ELSE tx]
    /\ Goto(Order[pc])
    /\ UNCHANGED <<canon, txns, temps, audited, auditTail, history, faults>>

MarkManifest ==
    /\ pc = "manifest"
    /\ IF phase = "rollback"
       THEN txns' = [txns EXCEPT ![tx].status = "rolled-back"] /\ NextManifest
       ELSE txns' = [txns EXCEPT ![tx].status = "committed"] /\ Goto("auditEvent")
    /\ UNCHANGED <<canon, integrity, temps, audited, auditTail, history, faults>>

\* audit.append verifies the chain first, and appends once per transaction.
AppendAuditEvent ==
    /\ pc = "auditEvent"
    /\ CASE auditTail -> Throw /\ UNCHANGED <<audited, auditTail>>
         [] ~auditTail /\ tx \in audited ->
               Audited /\ UNCHANGED <<audited, auditTail>>
         [] OTHER -> /\ Goto("auditHead")
                     /\ audited' = audited \cup {tx}
                     /\ auditTail' = TRUE
    /\ UNCHANGED <<canon, integrity, txns, temps, history, faults>>

ReplaceAuditHead ==
    /\ pc = "auditHead"
    /\ auditTail' = FALSE
    /\ Audited
    /\ UNCHANGED <<canon, integrity, txns, temps, audited, history, faults>>

Reply ==
    /\ pc = "reply"
    /\ published' = AfterImage(tx)
    /\ acked' = acked \cup {op}
    /\ End
    /\ UNCHANGED <<disk, faults>>

----------------------------------------------------------------------------
(* Faults *)

Spend(kind) == /\ faults[kind] > 0
               /\ faults' = [faults EXCEPT ![kind] = @ - 1]

\* The process dies, or outside the try block a step throws.
Interrupt ==
    /\ pc # "idle"
    /\ Spend("crash")
    /\ End
    /\ UNCHANGED <<disk, history>>

\* A step of the roll-forward throws: no space, or the audit lock is busy.
ForwardStepFails ==
    /\ phase = "forward"
    /\ Spend("error")
    /\ Throw
    /\ UNCHANGED <<disk, history>>

\* audit.append of another caller (the dispatcher audits every decision, outside
\* the project lock) dies between its event file and head.json.
OtherAppendDies ==
    /\ Spend("crash")
    /\ auditTail' = TRUE
    /\ UNCHANGED <<canon, integrity, txns, temps, audited, control, history>>

CorruptSnapshot(t) ==
    /\ txns[t].status = "prepared" /\ pc = "idle"
    /\ Spend("corrupt")
    /\ \/ txns' = [txns EXCEPT ![t].afterOk = FALSE]
       \/ txns' = [txns EXCEPT ![t].beforeOk = FALSE]
    /\ UNCHANGED <<canon, integrity, temps, audited, auditTail, control, history>>

EditOutOfBand(d) ==
    /\ pc = "idle" /\ canon[d] # Missing
    /\ Spend("corrupt")
    /\ canon' = [canon EXCEPT ![d] = Foreign]
    /\ UNCHANGED <<integrity, txns, temps, audited, auditTail, control, history>>

----------------------------------------------------------------------------

Initialize ==
    \/ BeginInitialize
    \/ InitializeDocument("business", "initBusiness", "initSoftware")
    \/ InitializeDocument("software", "initSoftware", "initIntegrity")
    \/ InitializeIntegrity

Install ==
    \/ WriteTemp("business", "tempBusiness") \/ Rename("business", "renameBusiness")
    \/ WriteTemp("software", "tempSoftware") \/ Rename("software", "renameSoftware")

Next ==
    \/ Initialize
    \/ \E r \in Request \cup {NoRequest} : Begin(r)
    \/ Scan \/ Load \/ Refuse \/ Replay \/ StartCommit
    \/ WriteCandidates \/ CreateManifest \/ WriteManifest
    \/ Inspect \/ Install \/ WriteIntegrity \/ MarkManifest
    \/ AppendAuditEvent \/ ReplaceAuditHead \/ Reply
    \/ Interrupt \/ ForwardStepFails \/ OtherAppendDies
    \/ \E t \in Tx : CorruptSnapshot(t)
    \/ \E d \in Docs : EditOutOfBand(d)

Spec == Init /\ [][Next]_vars

----------------------------------------------------------------------------

IntegrityRecord == [business : Content, software : Content, tx : Tx \cup {NoTx}]

TypeOK ==
    /\ canon \in [Docs -> Content \cup {Missing, Foreign}]
    /\ integrity \in IntegrityRecord \cup {Missing}
    /\ txns \in [Tx -> Directory]
    /\ temps \in SUBSET (Tx \X Phases \X Docs)
    /\ audited \in SUBSET Tx
    /\ auditTail \in BOOLEAN
    /\ pc \in Steps /\ phase \in Phases
    /\ op \in Request \cup {NoRequest} /\ tx \in Tx \cup {NoTx}
    /\ published \in Content /\ acked \in SUBSET Request
    /\ faults \in [FaultKinds -> Nat]

\* ADR 0006: two canonical files never expose a mixed revision.  Whatever pair
\* #loadLocked accepts, in any state a crash leaves, is one pair that one
\* transaction wrote.
NeverMixed == Loadable => canon["business"] = canon["software"]

\* #recoverLocked is written for any number of prepared manifests; execute never
\* leaves it more than one, so rolling one back never undoes a later one.
AtMostOnePrepared ==
    \A s, t \in Tx : {txns[s].status, txns[t].status} \subseteq {"prepared", "torn"} => s = t

\* README.md: a retried mutation replays the stored result.  No two requests with
\* one idempotency key take effect in what a client is shown, whatever was
\* interrupted, rolled back and retried.
AtMostOncePerKey ==
    \A i, j \in 1..Len(published) : KeyOf[published[i]] = KeyOf[published[j]] => i = j

\* A request answered as committed or replayed is in every content that is loaded
\* after recovery.
AckedIsDurable ==
    (Loadable /\ WithStatus("prepared") = {}) =>
        \A r \in acked : \E i \in 1..Len(canon["business"]) : canon["business"][i] = r

\* Recovery is complete when no manifest is left prepared: once the repository was
\* initialized, nobody edited the documents and every manifest can be read,
\* whatever was interrupted leaves documents that load.
SettledMeansLoadable ==
    ( /\ pc = "idle" /\ integrity # Missing
      /\ Foreign \notin {canon[d] : d \in Docs}
      /\ WithStatus("prepared") = {} /\ WithStatus("torn") = {} ) => Loadable

Abstract == INSTANCE AtomicRepository WITH content <- published

\* What clients observe of the repository is the atomic register.
ImplementsAtomicRepository == Abstract!ASpec

\* README.md of the adapter: a prepared manifest is the durable commit point;
\* only a corrupt candidate makes recovery restore the before images.
PreparedIsDurable ==
    [][\A t \in Tx : txns[t].status = "prepared" /\ txns[t].afterOk
                       => txns'[t].status # "rolled-back"]_vars

\* Plan 01, 1.4: on startup the manifests are inspected and rolled forward or back.
\* Between two operations every manifest can be inspected.
ManifestsReadable == pc = "idle" => WithStatus("torn") = {}
=============================================================================
