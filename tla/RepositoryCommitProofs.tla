----------------------- MODULE RepositoryCommitProofs -----------------------
(***************************************************************************)
(* What the commit and recovery protocol guarantees for any set of         *)
(* requests, any number of transactions and any numbers of faults.         *)
(***************************************************************************)
EXTENDS RepositoryCommit, TLAPS

(***************************************************************************)
(* Which variables a step may rely on: between StartCommit or Scan and the *)
(* end of the operation there is a current transaction, with a directory   *)
(* on disk once its candidates are written.                                *)
(***************************************************************************)
OpenSteps == {"idle", "initBusiness", "initSoftware", "initIntegrity", "scan", "load", "decide"}

ControlOK ==
    /\ pc \in OpenSteps <=> phase = "none"
    /\ phase # "none" => tx \in Tx
    /\ pc = "decide" \/ phase = "commit" => op \in Request
    /\ pc \in {"candidates", "createManifest", "writeManifest", "reply"} => phase = "commit"
    /\ pc \in {"decide", "candidates"} => canon["business"] \in Content
    /\ pc \notin OpenSteps \cup {"candidates"} => txns[tx].status # "absent"
    /\ \A t \in Tx : txns[t].status # "absent" => txns[t].request \in Request

TypeInv == TypeOK /\ ControlOK

LEMMA AppendType == ASSUME NEW s \in Content, NEW r \in Request PROVE Append(s, r) \in Content
  BY DEF Content

\* What the installing steps write is a content.
LEMMA ImageType ==
  ASSUME TypeInv, pc \notin OpenSteps \cup {"candidates"}
  PROVE  Image \in Content /\ AfterImage(tx) \in Content
<1>1. tx \in Tx /\ txns[tx] \in Directory /\ txns[tx].request \in Request
  BY DEF TypeInv, TypeOK, ControlOK
<1>2. txns[tx].before \in Content
  BY <1>1 DEF Directory
<1>3. AfterImage(tx) \in Content
  BY <1>1, <1>2, AppendType DEF AfterImage
<1>4. QED
  BY <1>2, <1>3 DEF Image

LEMMA TypeInvStep == TypeInv /\ [Next]_vars => TypeInv'
<1> SUFFICES ASSUME TypeInv, [Next]_vars PROVE TypeInv'
  OBVIOUS
<1> USE CommitAssumption DEF TypeInv, TypeOK, ControlOK, OpenSteps, Steps, Phases,
        disk, control, history
<1>1. CASE BeginInitialize
  BY <1>1 DEF BeginInitialize, Goto
<1>2. CASE InitializeDocument("business", "initBusiness", "initSoftware")
  <2>1. <<>> \in Content
    BY DEF Content
  <2>2. QED
    BY <1>2, <2>1 DEF InitializeDocument, Goto, Docs
<1>3. CASE InitializeDocument("software", "initSoftware", "initIntegrity")
  <2>1. <<>> \in Content
    BY DEF Content
  <2>2. QED
    BY <1>3, <2>1 DEF InitializeDocument, Goto, Docs
<1>4. CASE InitializeIntegrity
  <2>1. <<>> \in Content
    BY DEF Content
  <2>2. integrity' \in IntegrityRecord
    BY <1>4, <2>1 DEF InitializeIntegrity, IntegrityRecord
  <2>3. QED
    BY <1>4, <2>2 DEF InitializeIntegrity, Goto
<1>5. ASSUME NEW r \in Request \cup {NoRequest}, Begin(r) PROVE TypeInv'
  BY <1>5 DEF Begin
<1>6. CASE Scan
  BY <1>6 DEF Scan, End, Goto, WithStatus
<1>7. CASE Load
  BY <1>7 DEF Load, Loadable, End, Goto, Docs
<1>8. CASE Refuse
  BY <1>8 DEF Refuse, End
<1>9. CASE Replay
  BY <1>9 DEF Replay, End
<1>10. CASE StartCommit
  BY <1>10 DEF StartCommit, WithStatus
<1>11. CASE WriteCandidates
  <2> DEFINE dir == [request |-> op, before |-> canon["business"], status |-> "candidates",
                     afterOk |-> TRUE, beforeOk |-> TRUE]
  <2>1. tx \in Tx /\ op \in Request /\ canon["business"] \in Content
    BY <1>11 DEF WriteCandidates
  <2>2. dir \in Directory
    BY <2>1, Zenon DEF Directory, Statuses
  <2>3. dir.status = "candidates" /\ dir.request = op
    OBVIOUS
  <2>4. txns' = [txns EXCEPT ![tx] = dir]
    BY <1>11 DEF WriteCandidates
  <2> HIDE DEF dir
  <2>5. /\ txns' \in [Tx -> Directory] /\ txns'[tx].status = "candidates"
        /\ \A t \in Tx : txns'[t].status # "absent" => txns'[t].request \in Request
    BY <2>1, <2>2, <2>3, <2>4
  <2>6. QED
    BY <1>11, <2>1, <2>5 DEF WriteCandidates, Goto
<1>12. CASE CreateManifest
  BY <1>12 DEF CreateManifest, Goto, Directory, Statuses
<1>13. CASE WriteManifest
  BY <1>13 DEF WriteManifest, Goto, Directory, Statuses
<1>14. CASE Inspect
  BY <1>14 DEF Inspect, Goto, Throw, End
<1>15. ASSUME NEW d \in Docs, NEW s \in {"tempBusiness", "tempSoftware"}, WriteTemp(d, s)
       PROVE TypeInv'
  BY <1>15 DEF WriteTemp, Order, Goto, Throw, End
<1>16. ASSUME NEW d \in Docs, NEW s \in {"renameBusiness", "renameSoftware"}, Rename(d, s)
       PROVE TypeInv'
  <2>1. Image \in Content
    BY <1>16, ImageType DEF Rename
  <2>2. QED
    BY <1>16, <2>1 DEF Rename, Order, Goto
<1>17. CASE WriteIntegrity
  <2>1. Image \in Content
    BY <1>17, ImageType DEF WriteIntegrity
  <2>2. integrity' \in IntegrityRecord
    BY <1>17, <2>1 DEF WriteIntegrity, IntegrityRecord
  <2>3. QED
    BY <1>17, <2>2 DEF WriteIntegrity, Order, Goto
<1>18. CASE MarkManifest
  BY <1>18 DEF MarkManifest, Goto, NextManifest, Directory, Statuses
<1>19. CASE AppendAuditEvent
  BY <1>19, ZenonT(30) DEF AppendAuditEvent, Audited, Goto, NextManifest, Throw, End
<1>20. CASE ReplaceAuditHead
  BY <1>20 DEF ReplaceAuditHead, Audited, Goto, NextManifest
<1>21. CASE Reply
  <2>1. AfterImage(tx) \in Content
    BY <1>21, ImageType DEF Reply
  <2>2. QED
    BY <1>21, <2>1 DEF Reply, End
<1>22. CASE Interrupt
  BY <1>22 DEF Interrupt, Spend, End, FaultKinds
<1>23. CASE ForwardStepFails
  BY <1>23 DEF ForwardStepFails, Spend, Throw, End, FaultKinds
<1>24. CASE OtherAppendDies
  BY <1>24 DEF OtherAppendDies, Spend, FaultKinds
<1>25. ASSUME NEW t \in Tx, CorruptSnapshot(t) PROVE TypeInv'
  <2>1. faults' \in [FaultKinds -> Nat]
    BY <1>25 DEF CorruptSnapshot, Spend, FaultKinds
  <2>2. /\ txns' \in [Tx -> Directory]
        /\ \A u \in Tx : /\ txns'[u].status = txns[u].status
                         /\ txns'[u].request = txns[u].request
    <3> DEFINE noAfter == [txns[t] EXCEPT !.afterOk = FALSE]
               noBefore == [txns[t] EXCEPT !.beforeOk = FALSE]
    <3>1. txns[t] \in Directory
      OBVIOUS
    <3>2. noAfter \in Directory /\ noBefore \in Directory
      BY <3>1, Zenon DEF Directory
    <3>3. /\ noAfter.status = txns[t].status /\ noAfter.request = txns[t].request
          /\ noBefore.status = txns[t].status /\ noBefore.request = txns[t].request
      BY <3>1 DEF Directory
    <3>4. txns' = [txns EXCEPT ![t] = noAfter] \/ txns' = [txns EXCEPT ![t] = noBefore]
      BY <1>25, Zenon DEF CorruptSnapshot
    <3> HIDE DEF noAfter, noBefore
    <3>5. QED
      BY <3>2, <3>3, <3>4
  <2>3. QED
    BY <1>25, <2>1, <2>2 DEF CorruptSnapshot
<1>26. ASSUME NEW d \in Docs, EditOutOfBand(d) PROVE TypeInv'
  BY <1>26 DEF EditOutOfBand, Spend, FaultKinds
<1>27. CASE UNCHANGED vars
  BY <1>27 DEF vars
<1>28. QED
  BY <1>1, <1>2, <1>3, <1>4, <1>5, <1>6, <1>7, <1>8, <1>9, <1>10, <1>11, <1>12, <1>13,
     <1>14, <1>15, <1>16, <1>17, <1>18, <1>19, <1>20, <1>21, <1>22, <1>23, <1>24, <1>25,
     <1>26, <1>27 DEF Next, Initialize, Install, Docs

LEMMA TypeInvInit == Init => TypeInv
<1> SUFFICES ASSUME Init PROVE TypeInv
  OBVIOUS
<1>1. <<>> \in Content
  BY DEF Content
<1>2. NoDirectory \in Directory /\ NoDirectory.status = "absent"
  <2>1. NoDirectory \in Directory
    BY <1>1, Zenon DEF NoDirectory, Directory, Statuses
  <2>2. QED
    BY <2>1 DEF NoDirectory
<1>3. txns \in [Tx -> Directory] /\ \A t \in Tx : txns[t].status = "absent"
  BY <1>2 DEF Init
<1>4. QED
  BY <1>1, <1>3, CommitAssumption DEF Init, TypeInv, TypeOK, ControlOK, OpenSteps, Steps, Phases

\* Every variable stays in its type, through every crash, rollback and retry.
THEOREM Typing == Spec => []TypeOK
<1>1. TypeInv => TypeOK
  BY DEF TypeInv
<1>2. QED
  BY <1>1, TypeInvInit, TypeInvStep, PTL DEF Spec

----------------------------------------------------------------------------

(***************************************************************************)
(* A loaded pair is never mixed: the two documents are compared with the   *)
(* integrity record, and the record always names one and the same content. *)
(***************************************************************************)
Matched == integrity # Missing => integrity.business = integrity.software

LEMMA MatchedStep == Matched /\ [Next]_vars => Matched'
<1> SUFFICES ASSUME Matched, [Next]_vars PROVE Matched'
  OBVIOUS
<1> USE DEF Matched, disk
<1>1. CASE InitializeIntegrity
  BY <1>1 DEF InitializeIntegrity
<1>2. CASE WriteIntegrity
  BY <1>2 DEF WriteIntegrity
<1>3. CASE UNCHANGED integrity
  BY <1>3
<1>4. QED
  BY <1>1, <1>2, <1>3 DEF Next, vars, Initialize, Install, BeginInitialize, InitializeDocument,
     Begin, Scan, Load, Refuse, Replay, StartCommit, WriteCandidates, CreateManifest,
     WriteManifest, Inspect, WriteTemp, Rename, MarkManifest, AppendAuditEvent,
     ReplaceAuditHead, Reply, Interrupt, ForwardStepFails, OtherAppendDies,
     CorruptSnapshot, EditOutOfBand

\* No crash, rollback, corruption or retry makes a mixed pair load.
THEOREM Unmixed == Spec => []NeverMixed
<1>1. Init => Matched
  BY DEF Init, Matched
<1>2. Matched => NeverMixed
  BY DEF Matched, NeverMixed, Loadable
<1>3. QED
  BY <1>1, <1>2, MatchedStep, PTL DEF Spec

----------------------------------------------------------------------------

(***************************************************************************)
(* At most one transaction waits for recovery.  A commit starts only after *)
(* a load, and a load only after a scan that found none; the manifests of  *)
(* a root without documents do not exist yet.                              *)
(***************************************************************************)
Undecided(t) == txns[t].status \in {"prepared", "torn"}

InitSteps == {"initBusiness", "initSoftware", "initIntegrity"}

OneUndecided ==
    /\ \A s, t \in Tx : Undecided(s) /\ Undecided(t) => s = t
    /\ pc \in InitSteps \cup {"load", "decide", "candidates", "createManifest"} =>
          \A t \in Tx : ~Undecided(t)
    /\ pc = "writeManifest" => \A t \in Tx : Undecided(t) => t = tx
    /\ canon["business"] = Missing => \A t \in Tx : txns[t].status = "absent"

LEMMA OneUndecidedStep == TypeInv /\ OneUndecided /\ [Next]_vars => OneUndecided'
<1> SUFFICES ASSUME TypeInv, OneUndecided, [Next]_vars PROVE OneUndecided'
  OBVIOUS
<1> USE CommitAssumption DEF TypeInv, TypeOK, ControlOK, OpenSteps, InitSteps,
        OneUndecided, Undecided, disk, control, history
<1>1. CASE Initialize
  <2>1. <<>> \in Content
    BY DEF Content
  <2>2. QED
    BY <1>1, <2>1 DEF Initialize, BeginInitialize, InitializeDocument, InitializeIntegrity, Goto, Docs
<1>2. ASSUME NEW r \in Request \cup {NoRequest}, Begin(r) PROVE OneUndecided'
  BY <1>2 DEF Begin
<1>3. CASE Scan
  BY <1>3 DEF Scan, WithStatus, End, Goto
<1>4. CASE Load \/ Refuse \/ Replay \/ StartCommit
  BY <1>4 DEF Load, Refuse, Replay, StartCommit, End, Goto
<1>5. CASE WriteCandidates
  <2>1. /\ tx \in Tx /\ txns' \in [Tx -> Directory] /\ txns'[tx].status = "candidates"
        /\ \A t \in Tx \ {tx} : txns'[t] = txns[t]
    <3> DEFINE dir == [request |-> op, before |-> canon["business"], status |-> "candidates",
                       afterOk |-> TRUE, beforeOk |-> TRUE]
    <3>1. tx \in Tx /\ txns' = [txns EXCEPT ![tx] = dir] /\ dir.status = "candidates"
      BY <1>5 DEF WriteCandidates
    <3> HIDE DEF dir
    <3>2. TypeInv'
      BY TypeInvStep DEF TypeInv
    <3>3. QED
      BY <3>1, <3>2
  <2>2. QED
    BY <1>5, <2>1 DEF WriteCandidates, Goto
<1>6. CASE CreateManifest \/ WriteManifest
  BY <1>6 DEF CreateManifest, WriteManifest, Goto, Directory
<1>7. CASE Inspect
  BY <1>7 DEF Inspect, Throw, End, Goto
<1>8. ASSUME NEW d \in Docs, NEW s \in {"tempBusiness", "tempSoftware"}, WriteTemp(d, s)
      PROVE OneUndecided'
  BY <1>8 DEF WriteTemp, Order, Goto, Throw, End
<1>9. ASSUME NEW d \in Docs, NEW s \in {"renameBusiness", "renameSoftware"}, Rename(d, s)
      PROVE OneUndecided'
  <2>1. Image # Missing
    BY <1>9, ImageType DEF Rename
  <2>2. QED
    BY <1>9, <2>1 DEF Rename, Order, Goto
<1>10. CASE WriteIntegrity
  BY <1>10 DEF WriteIntegrity, Order, Goto
<1>11. CASE MarkManifest
  BY <1>11 DEF MarkManifest, NextManifest, Goto, Directory
<1>12. CASE AppendAuditEvent \/ ReplaceAuditHead \/ Reply
  BY <1>12 DEF AppendAuditEvent, ReplaceAuditHead, Reply, Audited, NextManifest, Throw, End, Goto
<1>13. CASE Interrupt \/ ForwardStepFails \/ OtherAppendDies
  BY <1>13 DEF Interrupt, ForwardStepFails, OtherAppendDies, Throw, End
<1>14. ASSUME NEW t \in Tx, CorruptSnapshot(t) PROVE OneUndecided'
  BY <1>14 DEF CorruptSnapshot, Directory
<1>15. ASSUME NEW d \in Docs, EditOutOfBand(d) PROVE OneUndecided'
  BY <1>15 DEF EditOutOfBand
<1>16. CASE UNCHANGED vars
  BY <1>16 DEF vars
<1>17. QED
  BY <1>1, <1>2, <1>3, <1>4, <1>5, <1>6, <1>7, <1>8, <1>9, <1>10, <1>11, <1>12, <1>13,
     <1>14, <1>15, <1>16 DEF Next, Install, Docs

\* Whatever crashed, recovery never faces two transactions to decide.
THEOREM SinglePrepared == Spec => []AtMostOnePrepared
<1>1. Init => OneUndecided
  <2> SUFFICES ASSUME Init PROVE OneUndecided
    OBVIOUS
  <2>1. \A t \in Tx : txns[t].status = "absent"
    BY DEF Init, NoDirectory
  <2>2. QED
    BY <2>1 DEF Init, OneUndecided, Undecided, InitSteps
<1>2. OneUndecided => AtMostOnePrepared
  BY DEF OneUndecided, Undecided, AtMostOnePrepared
<1>3. QED
  BY <1>1, <1>2, TypeInvInit, TypeInvStep, OneUndecidedStep, PTL DEF Spec

----------------------------------------------------------------------------

(***************************************************************************)
(* At most one effect per idempotency key.  A receipt is a committed       *)
(* manifest, and a commit starts when no receipt has its key; so what has  *)
(* to be shown is that every request in a loaded content has a committed   *)
(* manifest that no recovery will undo.  These manifests, the firm ones,   *)
(* only ever grow: recovery undoes the transaction it is working on, and   *)
(* no other content was built on that one yet.                             *)
(***************************************************************************)
Firm == {t \in Tx : /\ txns[t].status = "committed"
                    /\ phase \in {"forward", "rollback"} => t # tx}

UniqueKeys(s) == \A i, j \in 1..Len(s) : KeyOf[s[i]] = KeyOf[s[j]] => i = j

Backed(s) == \A i \in 1..Len(s) : \E t \in Firm : txns[t].request = s[i]

Sound(s) == UniqueKeys(s) /\ Backed(s)

KeyInv ==
    /\ \A t \in Tx : txns[t].status # "absent" =>
          Sound(txns[t].before) /\ UniqueKeys(AfterImage(t))
    /\ integrity # Missing /\ integrity.tx = NoTx => Sound(integrity.business)
    /\ pc \in {"decide", "candidates"} => Sound(canon["business"])
    /\ pc = "candidates" =>
          /\ txns[tx].status = "absent"
          /\ \A i \in 1..Len(canon["business"]) : KeyOf[canon["business"][i]] # KeyOf[op]
    /\ pc = "createManifest" => txns[tx].status = "candidates"
    /\ pc = "writeManifest" => txns[tx].status = "torn"
    /\ UniqueKeys(published)

\* A key that is new to a content stays unique when its request is appended.
LEMMA AppendUnique ==
  ASSUME NEW s \in Content, NEW r \in Request, UniqueKeys(s),
         \A i \in 1..Len(s) : KeyOf[s[i]] # KeyOf[r]
  PROVE  UniqueKeys(Append(s, r))
BY DEF UniqueKeys, Content

LEMMA EmptySound == <<>> \in Content /\ Sound(<<>>)
BY DEF Sound, UniqueKeys, Backed, Content

\* A content stays sound as long as the firm manifests stay what they are.
LEMMA SoundKept ==
  ASSUME NEW s, Sound(s), \A t \in Firm : t \in Firm' /\ txns'[t].request = txns[t].request
  PROVE  UniqueKeys(s) /\ \A i \in 1..Len(s) : \E t \in Firm' : txns'[t].request = s[i]
BY DEF Sound, Backed

\* Only WriteCandidates changes what a directory holds besides its status.
LEMMA DirectoriesKept ==
  ASSUME TypeInv, [Next]_vars, ~WriteCandidates
  PROVE  \A t \in Tx : /\ txns'[t].status = "absent" <=> txns[t].status = "absent"
                       /\ txns'[t].request = txns[t].request
                       /\ txns'[t].before = txns[t].before
<1> USE DEF TypeInv, TypeOK, ControlOK, OpenSteps, disk, control, history
<1>1. CASE CreateManifest \/ WriteManifest \/ MarkManifest
  BY <1>1 DEF CreateManifest, WriteManifest, MarkManifest, Goto, Directory
<1>2. ASSUME NEW u \in Tx, CorruptSnapshot(u)
      PROVE  \A t \in Tx : /\ txns'[t].status = "absent" <=> txns[t].status = "absent"
                           /\ txns'[t].request = txns[t].request
                           /\ txns'[t].before = txns[t].before
  BY <1>2 DEF CorruptSnapshot, Directory
<1>3. CASE UNCHANGED txns
  BY <1>3
<1>4. QED
  BY <1>1, <1>2, <1>3 DEF Next, vars, Initialize, Install, BeginInitialize, InitializeDocument,
     InitializeIntegrity, Begin, Scan, Load, Refuse, Replay, StartCommit, Inspect, WriteTemp,
     Rename, WriteIntegrity, AppendAuditEvent, ReplaceAuditHead, Reply, Interrupt,
     ForwardStepFails, OtherAppendDies, EditOutOfBand

\* Recovery takes up prepared manifests only and undoes only the one it works on.
LEMMA FirmKept ==
  ASSUME TypeInv, KeyInv, [Next]_vars
  PROVE  \A t \in Firm : t \in Firm' /\ txns'[t].request = txns[t].request
<1> USE CommitAssumption DEF TypeInv, TypeOK, ControlOK, OpenSteps, KeyInv, Firm, disk, control, history
<1>1. CASE WriteCandidates
  <2>1. tx \in Tx /\ \A t \in Tx \ {tx} : txns'[t] = txns[t]
    BY <1>1 DEF WriteCandidates
  <2>2. QED
    BY <1>1, <2>1 DEF WriteCandidates, Goto
<1>2. ASSUME ~WriteCandidates PROVE \A t \in Firm : txns'[t].request = txns[t].request
  BY <1>2, DirectoriesKept DEF Firm
<1>3. CASE CreateManifest \/ WriteManifest
  BY <1>3, <1>2 DEF CreateManifest, WriteManifest, Goto, Directory
<1>4. CASE MarkManifest
  BY <1>4, <1>2 DEF MarkManifest, Goto, NextManifest, Directory
<1>5. ASSUME NEW u \in Tx, CorruptSnapshot(u) PROVE \A t \in Firm : t \in Firm'
  BY <1>5 DEF CorruptSnapshot, Directory
<1>6. CASE Scan
  BY <1>6 DEF Scan, WithStatus, Goto, End
<1>7. ASSUME UNCHANGED txns, ~Scan PROVE \A t \in Firm : t \in Firm'
  BY <1>7 DEF Next, vars, Initialize, Install, BeginInitialize, InitializeDocument,
     InitializeIntegrity, Begin, Load, Refuse, Replay, StartCommit, WriteCandidates,
     CreateManifest, WriteManifest, MarkManifest, CorruptSnapshot,
     Inspect, WriteTemp, Rename, WriteIntegrity, AppendAuditEvent, ReplaceAuditHead, Reply,
     Interrupt, ForwardStepFails, OtherAppendDies, EditOutOfBand, Throw, End, Goto,
     Audited, NextManifest
<1>8. QED
  BY <1>1, <1>2, <1>3, <1>4, <1>5, <1>6, <1>7 DEF Next, vars, Initialize, Install,
     BeginInitialize, InitializeDocument, InitializeIntegrity, Begin, Load, Refuse, Replay,
     StartCommit, Inspect, WriteTemp, Rename, WriteIntegrity, AppendAuditEvent,
     ReplaceAuditHead, Reply, Interrupt, ForwardStepFails, OtherAppendDies, EditOutOfBand

LEMMA KeyInvStep == TypeInv /\ KeyInv /\ [Next]_vars => KeyInv'
<1> SUFFICES ASSUME TypeInv, KeyInv, [Next]_vars PROVE KeyInv'
  OBVIOUS
<1>1. ASSUME NEW s, Sound(s)
      PROVE  UniqueKeys(s) /\ \A i \in 1..Len(s) : \E t \in Firm' : txns'[t].request = s[i]
  BY <1>1, SoundKept, FirmKept
<1>2. UniqueKeys(canon["business"]) /\ pc = "candidates" => UniqueKeys(Append(canon["business"], op))
  BY AppendUnique DEF KeyInv, TypeInv, ControlOK
<1>3. \A t \in Tx : txns'[t].status # "absent" =>
         Sound(txns[t].before)' /\ UniqueKeys(AfterImage(t))'
  <2>1. CASE WriteCandidates
    <3> DEFINE dir == [request |-> op, before |-> canon["business"], status |-> "candidates",
                       afterOk |-> TRUE, beforeOk |-> TRUE]
    <3>1. /\ txns' = [txns EXCEPT ![tx] = dir] /\ tx \in Tx
          /\ dir.request = op /\ dir.before = canon["business"]
      BY <2>1 DEF WriteCandidates, TypeInv, TypeOK, ControlOK, OpenSteps
    <3> HIDE DEF dir
    <3>2. txns'[tx] = dir /\ \A t \in Tx \ {tx} : txns'[t] = txns[t]
      BY <3>1 DEF TypeInv, TypeOK
    <3>3. Sound(canon["business"])
      BY <2>1 DEF WriteCandidates, KeyInv
    <3>4. UniqueKeys(Append(canon["business"], op))
      BY <2>1, <3>3, <1>2 DEF WriteCandidates, Sound
    <3>5. ASSUME NEW t \in Tx, txns'[t].status # "absent"
          PROVE  Sound(txns[t].before)' /\ UniqueKeys(AfterImage(t))'
      <4>1. /\ Sound(txns'[t].before)
            /\ UniqueKeys(Append(txns'[t].before, txns'[t].request))
        BY <3>1, <3>2, <3>3, <3>4, <3>5 DEF KeyInv, AfterImage
      <4>2. /\ UniqueKeys(txns'[t].before)
            /\ \A i \in 1..Len(txns'[t].before) : \E u \in Firm' : txns'[u].request = txns'[t].before[i]
        BY <1>1, <4>1
      <4>3. QED
        BY <4>1, <4>2 DEF Sound, Backed, UniqueKeys, AfterImage
    <3>6. QED
      BY <3>5
  <2>2. CASE ~WriteCandidates
    <3>1. \A t \in Tx : /\ txns'[t].status = "absent" <=> txns[t].status = "absent"
                        /\ txns'[t].request = txns[t].request
                        /\ txns'[t].before = txns[t].before
      BY <2>2, DirectoriesKept
    <3>2. ASSUME NEW t \in Tx, txns'[t].status # "absent"
          PROVE  Sound(txns[t].before)' /\ UniqueKeys(AfterImage(t))'
      <4>1. /\ Sound(txns'[t].before)
            /\ UniqueKeys(Append(txns'[t].before, txns'[t].request))
        BY <3>1, <3>2 DEF KeyInv, AfterImage
      <4>2. /\ UniqueKeys(txns'[t].before)
            /\ \A i \in 1..Len(txns'[t].before) : \E u \in Firm' : txns'[u].request = txns'[t].before[i]
        BY <1>1, <4>1
      <4>3. QED
        BY <4>1, <4>2 DEF Sound, Backed, UniqueKeys, AfterImage
    <3>3. QED
      BY <3>2
  <2>3. QED
    BY <2>1, <2>2
<1>4. (integrity # Missing /\ integrity.tx = NoTx => Sound(integrity.business))'
  <2>1. CASE InitializeIntegrity
    <3>1. integrity'.business = <<>>
      BY <2>1 DEF InitializeIntegrity
    <3>2. QED
      BY <1>1, <3>1, EmptySound DEF Sound, Backed, UniqueKeys
  <2>2. CASE WriteIntegrity
    <3>1. tx \in Tx /\ txns[tx].status # "absent" /\ tx # NoTx
      BY <2>2, CommitAssumption DEF WriteIntegrity, TypeInv, TypeOK, ControlOK, OpenSteps
    <3>2. integrity'.tx = NoTx => integrity'.business = txns[tx].before
      BY <2>2, <3>1 DEF WriteIntegrity, Image
    <3>3. Sound(txns[tx].before)
      BY <3>1 DEF KeyInv
    <3>4. /\ UniqueKeys(txns[tx].before)
          /\ \A i \in 1..Len(txns[tx].before) : \E t \in Firm' : txns'[t].request = txns[tx].before[i]
      BY <1>1, <3>3
    <3>5. QED
      BY <3>2, <3>4 DEF Sound, Backed, UniqueKeys
  <2>3. CASE UNCHANGED integrity
    BY <1>1, <2>3 DEF KeyInv, Sound, Backed, UniqueKeys
  <2>4. QED
    BY <2>1, <2>2, <2>3 DEF Next, vars, disk, Initialize, Install, BeginInitialize, InitializeDocument,
       Begin, Scan, Load, Refuse, Replay, StartCommit, WriteCandidates, CreateManifest,
       WriteManifest, Inspect, WriteTemp, Rename, MarkManifest, AppendAuditEvent,
       ReplaceAuditHead, Reply, Interrupt, ForwardStepFails, OtherAppendDies,
       CorruptSnapshot, EditOutOfBand
<1>5. CASE Load
  <2>1. ASSUME Loadable PROVE Sound(canon["business"])
    <3>1. integrity # Missing /\ integrity.business = canon["business"]
      BY <2>1 DEF Loadable
    <3>2. CASE integrity.tx = NoTx
      BY <3>1, <3>2 DEF KeyInv
    <3>3. CASE integrity.tx # NoTx
      <4> DEFINE u == integrity.tx
      <4>1. /\ u \in Tx /\ txns[u].status = "committed" /\ AfterImage(u) = canon["business"]
        BY <2>1, <3>1, <3>3 DEF Loadable, TypeInv, TypeOK, IntegrityRecord
      <4>2. phase = "none" /\ txns[u].request \in Request /\ txns[u].before \in Content
        BY <1>5, <4>1 DEF Load, TypeInv, TypeOK, ControlOK, OpenSteps, Directory
      <4>3. u \in Firm
        BY <4>1, <4>2 DEF Firm
      <4>4. Sound(txns[u].before) /\ UniqueKeys(AfterImage(u))
        BY <4>1 DEF KeyInv
      <4> HIDE DEF u
      <4>5. Backed(Append(txns[u].before, txns[u].request))
        BY <4>2, <4>3, <4>4 DEF Sound, Backed, Content
      <4>6. QED
        BY <4>1, <4>4, <4>5 DEF Sound, AfterImage
    <3>4. QED
      BY <3>2, <3>3
  <2>2. /\ pc' \in {"idle", "decide"} /\ UNCHANGED <<canon, txns>>
        /\ pc' = "decide" => Loadable
        /\ published' = published \/ (Loadable /\ published' = canon["business"])
    BY <1>5 DEF Load, End, Goto, disk
  <2>3. UniqueKeys(published)'
    BY <2>1, <2>2 DEF KeyInv, Sound, UniqueKeys
  <2>4. (pc \in {"decide", "candidates"} => Sound(canon["business"]))'
    <3>1. ASSUME Sound(canon["business"])
          PROVE  /\ UniqueKeys(canon["business"])
                 /\ \A i \in 1..Len(canon["business"]) :
                        \E t \in Firm' : txns'[t].request = canon["business"][i]
      BY <1>1, <3>1
    <3>2. canon' = canon /\ (pc' \in {"decide", "candidates"} => Sound(canon["business"]))
      BY <2>1, <2>2
    <3>3. QED
      BY <3>1, <3>2 DEF Sound, Backed, UniqueKeys
  <2>5. QED
    BY <1>3, <1>4, <2>2, <2>3, <2>4 DEF KeyInv
<1>6. CASE StartCommit
  <2>1. /\ pc = "decide" /\ pc' = "candidates" /\ UNCHANGED <<canon, txns, op, published>>
        /\ tx' \in Tx /\ txns[tx'].status = "absent" /\ phase = "none"
    BY <1>6 DEF StartCommit, WithStatus, disk, history, TypeInv, ControlOK, OpenSteps
  <2>2. \A t \in Firm : KeyOf[txns[t].request] # KeyOf[op]
    BY <1>6 DEF StartCommit, Receipts, WithStatus, Firm
  <2>3. Sound(canon["business"])
    BY <2>1 DEF KeyInv
  <2>4. \A i \in 1..Len(canon["business"]) : KeyOf[canon["business"][i]] # KeyOf[op]
    BY <2>2, <2>3 DEF Sound, Backed
  <2>5. (pc \in {"decide", "candidates"} => Sound(canon["business"]))'
    <3>1. /\ UniqueKeys(canon["business"])
          /\ \A i \in 1..Len(canon["business"]) :
                 \E t \in Firm' : txns'[t].request = canon["business"][i]
      BY <1>1, <2>3
    <3>2. canon' = canon
      BY <2>1
    <3>3. QED
      BY <3>1, <3>2 DEF Sound, Backed, UniqueKeys
  <2>6. UniqueKeys(published)'
    BY <2>1 DEF KeyInv, UniqueKeys
  <2>7. QED
    BY <1>3, <1>4, <2>1, <2>4, <2>5, <2>6 DEF KeyInv
<1>7. CASE Reply
  <2>1. tx \in Tx /\ txns[tx].status # "absent"
    BY <1>7 DEF Reply, TypeInv, TypeOK, ControlOK, OpenSteps
  <2>2. pc' = "idle" /\ published' = AfterImage(tx)
    BY <1>7 DEF Reply, End
  <2>3. UniqueKeys(published)'
    BY <2>1, <2>2 DEF KeyInv, UniqueKeys
  <2>4. QED
    BY <1>3, <1>4, <2>2, <2>3 DEF KeyInv
<1>8. ASSUME ~Load, ~StartCommit, ~Reply PROVE KeyInv'
  <2>1. /\ UNCHANGED published
        /\ pc' \in {"decide", "candidates"} => UNCHANGED <<pc, canon, op, tx, txns>>
        /\ pc' = "createManifest" => \/ WriteCandidates
                                     \/ UNCHANGED <<pc, tx, txns>>
        /\ pc' = "writeManifest" => \/ CreateManifest
                                    \/ UNCHANGED <<pc, tx, txns>>
    BY <1>8, CommitAssumption DEF Next, vars, disk, control, history, Initialize, Install, BeginInitialize,
       InitializeDocument, InitializeIntegrity,
       Begin, Scan, Refuse, Replay, WriteCandidates, CreateManifest,
       WriteManifest, Inspect, WriteTemp, Rename, WriteIntegrity, MarkManifest, AppendAuditEvent,
       ReplaceAuditHead, Interrupt, ForwardStepFails, OtherAppendDies,
       CorruptSnapshot, EditOutOfBand, Goto, End, NextManifest, Audited, Throw, Order
  <2>2. UniqueKeys(published)'
    BY <2>1 DEF KeyInv, UniqueKeys
  <2>3. (pc \in {"decide", "candidates"} => Sound(canon["business"]))'
    BY <1>1, <2>1 DEF KeyInv, Sound, Backed, UniqueKeys
  <2>4. (pc = "createManifest" => txns[tx].status = "candidates")'
    BY <2>1 DEF KeyInv, WriteCandidates, Goto, TypeInv, TypeOK, ControlOK, OpenSteps, Directory
  <2>5. (pc = "writeManifest" => txns[tx].status = "torn")'
    BY <2>1 DEF KeyInv, CreateManifest, Goto, TypeInv, TypeOK, ControlOK, OpenSteps, Directory
  <2>6. QED
    BY <1>3, <1>4, <2>1, <2>2, <2>3, <2>4, <2>5 DEF KeyInv
<1>9. QED
  BY <1>5, <1>6, <1>7, <1>8

\* Whatever was interrupted, rolled back and retried, no client is ever shown a
\* content in which two requests of one idempotency key took effect.
THEOREM EffectOncePerKey == Spec => []AtMostOncePerKey
<1>1. Init => KeyInv
  <2> SUFFICES ASSUME Init PROVE KeyInv
    OBVIOUS
  <2>1. \A t \in Tx : txns[t].status = "absent"
    BY DEF Init, NoDirectory
  <2>2. QED
    BY <2>1, EmptySound DEF Init, KeyInv, Sound
<1>2. KeyInv => AtMostOncePerKey
  BY DEF KeyInv, UniqueKeys, AtMostOncePerKey
<1>3. QED
  BY <1>1, <1>2, TypeInvInit, TypeInvStep, KeyInvStep, PTL DEF Spec

----------------------------------------------------------------------------

(***************************************************************************)
(* What clients were shown, and what the disk may show them next.          *)
(***************************************************************************)
In(r, s) == \E i \in 1..Len(s) : s[i] = r

InstallSteps == {"inspect", "tempBusiness", "renameBusiness", "tempSoftware", "renameSoftware",
                 "integrity", "manifest"}
MarkedSteps == {"auditEvent", "auditHead", "reply"}

\* How far the transaction of each phase got.
PhaseInv ==
    /\ pc \in InstallSteps /\ phase # "rollback" => txns[tx].status = "prepared"
    /\ pc \in MarkedSteps => phase # "rollback" /\ txns[tx].status = "committed"
    /\ phase = "rollback" => pc \in InstallSteps /\ txns[tx].status \in {"prepared", "committed"}
    /\ phase = "forward" => pc \in InstallSteps \cup MarkedSteps
    /\ phase # "none" => \A t \in Tx : Undecided(t) => t = tx

LEMMA PhaseInvStep == TypeInv /\ OneUndecided /\ PhaseInv /\ [Next]_vars => PhaseInv'
<1> SUFFICES ASSUME TypeInv, OneUndecided, PhaseInv, [Next]_vars PROVE PhaseInv'
  OBVIOUS
<1> USE CommitAssumption DEF TypeInv, TypeOK, ControlOK, OpenSteps, InitSteps, InstallSteps,
        MarkedSteps, PhaseInv, Undecided, disk, control, history
<1>1. CASE Initialize
  BY <1>1 DEF Initialize, BeginInitialize, InitializeDocument, InitializeIntegrity, Goto
<1>2. ASSUME NEW r \in Request \cup {NoRequest}, Begin(r) PROVE PhaseInv'
  BY <1>2 DEF Begin
<1>3. CASE Scan
  BY <1>3 DEF Scan, WithStatus, End, Goto, OneUndecided
<1>4. CASE Load \/ Refuse \/ Replay \/ StartCommit
  BY <1>4 DEF Load, Refuse, Replay, StartCommit, End, Goto, OneUndecided
<1>5. CASE WriteCandidates
  <2>1. tx \in Tx /\ \A t \in Tx \ {tx} : txns'[t] = txns[t]
    BY <1>5 DEF WriteCandidates
  <2>2. phase = "commit" /\ pc' = "createManifest" /\ phase' = "commit" /\ tx' = tx
    BY <1>5 DEF WriteCandidates, Goto
  <2>3. QED
    BY <1>5, <2>1, <2>2
<1>6. CASE CreateManifest \/ WriteManifest
  BY <1>6 DEF CreateManifest, WriteManifest, Goto, Directory
<1>7. CASE Inspect
  BY <1>7 DEF Inspect, Throw, End, Goto
<1>8. ASSUME NEW d \in Docs, NEW s \in {"tempBusiness", "tempSoftware"}, WriteTemp(d, s)
      PROVE PhaseInv'
  BY <1>8 DEF WriteTemp, Order, Goto, Throw, End
<1>9. ASSUME NEW d \in Docs, NEW s \in {"renameBusiness", "renameSoftware"}, Rename(d, s)
      PROVE PhaseInv'
  BY <1>9 DEF Rename, Order, Goto
<1>10. CASE WriteIntegrity
  BY <1>10 DEF WriteIntegrity, Order, Goto
<1>11. CASE MarkManifest
  BY <1>11 DEF MarkManifest, NextManifest, Goto, Directory
<1>12. CASE AppendAuditEvent \/ ReplaceAuditHead \/ Reply
  BY <1>12 DEF AppendAuditEvent, ReplaceAuditHead, Reply, Audited, NextManifest, Throw, End, Goto
<1>13. CASE Interrupt \/ ForwardStepFails \/ OtherAppendDies
  BY <1>13 DEF Interrupt, ForwardStepFails, OtherAppendDies, Throw, End
<1>14. ASSUME NEW t \in Tx, CorruptSnapshot(t) PROVE PhaseInv'
  BY <1>14 DEF CorruptSnapshot, Directory
<1>15. ASSUME NEW d \in Docs, EditOutOfBand(d) PROVE PhaseInv'
  BY <1>15 DEF EditOutOfBand
<1>16. CASE UNCHANGED vars
  BY <1>16 DEF vars
<1>17. QED
  BY <1>1, <1>2, <1>3, <1>4, <1>5, <1>6, <1>7, <1>8, <1>9, <1>10, <1>11, <1>12, <1>13,
     <1>14, <1>15, <1>16 DEF Next, Install, Docs

----------------------------------------------------------------------------

\* Until its initialization is complete a repository has shown nothing.
Fresh ==
    /\ canon["business"] = Missing \/ pc \in InitSteps => integrity = Missing /\ published = <<>>
    /\ pc \in {"initSoftware", "initIntegrity"} => canon["business"] = <<>>
    /\ pc = "initIntegrity" => canon["software"] = <<>>
    /\ pc \in InitSteps => \A t \in Tx : txns[t].status = "absent"

\* Whatever is being decided was built on what clients were shown last.
Based ==
    /\ \A t \in Tx : Undecided(t) => txns[t].before = published
    /\ pc \in {"decide", "candidates"} => canon["business"] = published
    /\ phase # "none" /\ pc # "candidates" => txns[tx].before = published
    /\ phase = "commit" /\ pc # "candidates" => txns[tx].request = op

\* The integrity record names what clients were shown last, or one request more.
Ahead ==
    /\ integrity # Missing =>
         \/ integrity.business = published
         \/ \E t \in Tx : /\ txns[t].status # "absent" /\ txns[t].before = published
                          /\ integrity.business = AfterImage(t)
    /\ pc \in {"manifest"} \cup MarkedSteps => integrity.business = Image

ShownInv == Fresh /\ Based /\ Ahead

\* What a directory would install or restore is settled when its candidates are written.
LEMMA ImagesKept ==
  ASSUME TypeInv, [Next]_vars, ~WriteCandidates
  PROVE  \A t \in Tx : /\ AfterImage(t)' = AfterImage(t)
                       /\ txns'[t].before = txns[t].before
                       /\ txns'[t].request = txns[t].request
                       /\ txns'[t].status = "absent" <=> txns[t].status = "absent"
BY DirectoriesKept DEF AfterImage

LEMMA FreshStep == TypeInv /\ OneUndecided /\ Fresh /\ [Next]_vars => Fresh'
<1> SUFFICES ASSUME TypeInv, OneUndecided, Fresh, [Next]_vars PROVE Fresh'
  OBVIOUS
<1>0. <<>> \in Content
  BY DEF Content
<1> USE <1>0, CommitAssumption DEF TypeInv, TypeOK, ControlOK, OpenSteps, InitSteps, Fresh, disk, control, history, Docs
<1>1. CASE Initialize
  BY <1>1 DEF Initialize, BeginInitialize, InitializeDocument, InitializeIntegrity, Goto, OneUndecided
<1>2. CASE Load
  BY <1>2 DEF Load, Loadable, End, Goto
<1>3. CASE Reply
  BY <1>3 DEF Reply, End, OneUndecided
<1>4. CASE WriteIntegrity
  BY <1>4 DEF WriteIntegrity, Order, Goto, OneUndecided
<1>5. ASSUME NEW d \in Docs, NEW s \in {"renameBusiness", "renameSoftware"}, Rename(d, s)
      PROVE Fresh'
  <2>1. Image # Missing /\ canon["business"] # Missing
    BY <1>5, ImageType DEF Rename, OneUndecided
  <2>2. QED
    BY <1>5, <2>1 DEF Rename, Order, Goto
<1>6. ASSUME NEW d \in Docs, EditOutOfBand(d) PROVE Fresh'
  BY <1>6 DEF EditOutOfBand
<1>7. CASE \/ UNCHANGED vars
           \/ \E r \in Request \cup {NoRequest} : Begin(r)
           \/ Scan \/ Refuse \/ Replay \/ StartCommit
           \/ WriteCandidates \/ CreateManifest \/ WriteManifest \/ Inspect
           \/ WriteTemp("business", "tempBusiness") \/ WriteTemp("software", "tempSoftware")
           \/ MarkManifest \/ AppendAuditEvent \/ ReplaceAuditHead
           \/ Interrupt \/ ForwardStepFails \/ OtherAppendDies
           \/ \E t \in Tx : CorruptSnapshot(t)
  <2>1. UNCHANGED <<canon, integrity, published>> /\ (pc' \in InitSteps => pc' = pc)
    BY <1>7 DEF vars, Begin, Scan, Refuse, Replay, StartCommit, WriteCandidates,
       CreateManifest, WriteManifest, Inspect, WriteTemp, MarkManifest, AppendAuditEvent, ReplaceAuditHead,
       Interrupt, ForwardStepFails, OtherAppendDies, CorruptSnapshot, End, Goto, NextManifest, Audited,
       Throw, Order
  <2>2. CASE WriteCandidates
    BY <2>1, <2>2 DEF WriteCandidates, Goto
  <2>3. CASE ~WriteCandidates
    BY <2>1, <2>3, DirectoriesKept
  <2>4. QED
    BY <2>2, <2>3
<1>8. QED
  BY <1>1, <1>2, <1>3, <1>4, <1>5, <1>6, <1>7 DEF Next, Install

LEMMA BasedStep ==
  TypeInv /\ OneUndecided /\ PhaseInv /\ Based /\ [Next]_vars => Based'
<1> SUFFICES ASSUME TypeInv, OneUndecided, PhaseInv, Based, [Next]_vars PROVE Based'
  OBVIOUS
<1> USE CommitAssumption DEF TypeInv, TypeOK, ControlOK, OpenSteps, InitSteps, InstallSteps,
        MarkedSteps, Based, Undecided, disk, control, history
<1>1. CASE WriteCandidates
  <2> DEFINE dir == [request |-> op, before |-> canon["business"], status |-> "candidates",
                     afterOk |-> TRUE, beforeOk |-> TRUE]
  <2>1. /\ txns' = [txns EXCEPT ![tx] = dir] /\ tx \in Tx
        /\ dir.request = op /\ dir.before = canon["business"] /\ dir.status = "candidates"
    BY <1>1 DEF WriteCandidates
  <2> HIDE DEF dir
  <2>2. txns'[tx] = dir /\ \A t \in Tx \ {tx} : txns'[t] = txns[t]
    BY <2>1
  <2>3. /\ pc = "candidates" /\ pc' = "createManifest" /\ phase' = "commit" /\ tx' = tx
        /\ op' = op /\ published' = published
    BY <1>1 DEF WriteCandidates, Goto
  <2>4. QED
    BY <2>1, <2>2, <2>3
<1>2. CASE ~WriteCandidates
  <2>0. \A t \in Tx : /\ txns'[t].before = txns[t].before
                      /\ txns'[t].request = txns[t].request
    BY <1>2, ImagesKept
  <2>1. CASE Initialize
    BY <2>1 DEF Initialize, BeginInitialize, InitializeDocument, InitializeIntegrity, Goto
  <2>2. ASSUME NEW r \in Request \cup {NoRequest}, Begin(r) PROVE Based'
    BY <2>2 DEF Begin
  <2>3. CASE Scan
    BY <2>3 DEF Scan, WithStatus, End, Goto
  <2>4. CASE Load
    BY <2>4 DEF Load, End, Goto, OneUndecided
  <2>5. CASE Refuse \/ Replay \/ StartCommit
    BY <2>5 DEF Refuse, Replay, StartCommit, End, Goto
  <2>6. CASE CreateManifest \/ WriteManifest
    <3>1. /\ pc' \in {"writeManifest", "tempBusiness"} /\ phase = "commit"
          /\ UNCHANGED <<phase, tx, op, published>>
          /\ \A t \in Tx \ {tx} : txns'[t] = txns[t]
          /\ pc # "candidates"
      BY <2>6 DEF CreateManifest, WriteManifest, Goto
    <3>2. QED
      BY <2>0, <3>1
  <2>7. CASE Inspect
    BY <2>7 DEF Inspect, Throw, End, Goto
  <2>8. ASSUME NEW d \in Docs, NEW s \in {"tempBusiness", "tempSoftware"}, WriteTemp(d, s)
        PROVE Based'
    BY <2>8 DEF WriteTemp, Order, Goto, Throw, End
  <2>9. ASSUME NEW d \in Docs, NEW s \in {"renameBusiness", "renameSoftware"}, Rename(d, s)
        PROVE Based'
    BY <2>9 DEF Rename, Order, Goto
  <2>10. CASE WriteIntegrity
    BY <2>10 DEF WriteIntegrity, Order, Goto
  <2>11. CASE MarkManifest
    <3>1. /\ pc' \in {"scan", "auditEvent"} /\ UNCHANGED <<op, published>>
          /\ pc # "candidates" /\ phase # "none"
          /\ phase' = "none" \/ UNCHANGED <<phase, tx>>
          /\ \A t \in Tx \ {tx} : txns'[t] = txns[t]
          /\ txns'[tx].status \in {"rolled-back", "committed"}
      BY <2>11 DEF MarkManifest, Goto, NextManifest, Directory
    <3>2. QED
      BY <2>0, <3>1
  <2>12. CASE AppendAuditEvent \/ ReplaceAuditHead
    BY <2>12 DEF AppendAuditEvent, ReplaceAuditHead, Audited, NextManifest, Throw, End, Goto
  <2>13. CASE Reply
    <3>1. \A t \in Tx : ~Undecided(t)
      BY <2>13 DEF Reply, PhaseInv
    <3>2. QED
      BY <2>13, <3>1 DEF Reply, End
  <2>14. CASE Interrupt \/ ForwardStepFails \/ OtherAppendDies
    BY <2>14 DEF Interrupt, ForwardStepFails, OtherAppendDies, Throw, End
  <2>15. ASSUME NEW t \in Tx, CorruptSnapshot(t) PROVE Based'
    <3>1. \A u \in Tx : txns'[u].status = txns[u].status
      BY <2>15 DEF CorruptSnapshot, Directory
    <3>2. UNCHANGED <<pc, phase, tx, op, canon, published>>
      BY <2>15 DEF CorruptSnapshot
    <3>3. QED
      BY <2>0, <3>1, <3>2
  <2>16. ASSUME NEW d \in Docs, EditOutOfBand(d) PROVE Based'
    BY <2>16 DEF EditOutOfBand
  <2>17. CASE UNCHANGED vars
    BY <2>17 DEF vars
  <2>18. QED
    BY <1>2, <2>1, <2>2, <2>3, <2>4, <2>5, <2>6, <2>7, <2>8, <2>9, <2>10, <2>11, <2>12, <2>13,
       <2>14, <2>15, <2>16, <2>17 DEF Next, Install, Docs
<1>3. QED
  BY <1>1, <1>2

LEMMA AheadStep ==
  TypeInv /\ OneUndecided /\ PhaseInv /\ KeyInv /\ ShownInv /\ [Next]_vars => Ahead'
<1> SUFFICES ASSUME TypeInv, OneUndecided, PhaseInv, KeyInv, ShownInv, [Next]_vars PROVE Ahead'
  OBVIOUS
<1> DEFINE OneMore(s) == \E t \in Tx : /\ txns[t].status # "absent" /\ txns[t].before = s
                                       /\ integrity.business = AfterImage(t)
<1>0. integrity # Missing => integrity.business = published \/ OneMore(published)
  BY DEF ShownInv, Ahead
<1> USE CommitAssumption DEF OpenSteps, MarkedSteps
<1>1. CASE WriteCandidates
  <2>1. /\ tx \in Tx /\ txns[tx].status = "absent" /\ \A t \in Tx \ {tx} : txns'[t] = txns[t]
        /\ UNCHANGED <<integrity, published>> /\ pc' = "createManifest"
    BY <1>1 DEF WriteCandidates, Goto, KeyInv, TypeInv, TypeOK, ControlOK, history
  <2>2. \A t \in Tx : txns[t].status # "absent" =>
           /\ AfterImage(t)' = AfterImage(t) /\ txns'[t].before = txns[t].before
           /\ txns'[t].status # "absent"
    BY <2>1 DEF AfterImage
  <2>3. integrity' # Missing => integrity'.business = published' \/ OneMore(published)'
    BY <1>0, <2>1, <2>2
  <2>4. QED
    BY <2>1, <2>3 DEF Ahead
<1>2. CASE InitializeIntegrity
  BY <1>2 DEF InitializeIntegrity, ShownInv, Fresh, InitSteps, Goto, Ahead, history
<1>3. CASE WriteIntegrity
  <2>1. /\ tx \in Tx /\ txns[tx].status # "absent" /\ txns[tx].before = published
        /\ UNCHANGED <<txns, published, phase, tx>> /\ integrity'.business = Image
    BY <1>3 DEF WriteIntegrity, Goto, history, TypeInv, TypeOK, ControlOK, ShownInv, Based
  <2>2. Image' = Image /\ AfterImage(tx)' = AfterImage(tx)
    BY <2>1 DEF Image, AfterImage
  <2>3. QED
    BY <2>1, <2>2 DEF Ahead, Image
<1>4. CASE Load
  <2>1. UNCHANGED <<integrity, txns>> /\ pc' \in {"idle", "decide"}
    BY <1>4 DEF Load, End, Goto, disk
  <2>2. \A t \in Tx : AfterImage(t)' = AfterImage(t)
    BY <2>1 DEF AfterImage
  <2>3. published' = published \/ integrity'.business = published'
    BY <1>4 DEF Load, Loadable, disk
  <2>4. integrity' # Missing => integrity'.business = published' \/ OneMore(published)'
    BY <1>0, <2>1, <2>2, <2>3
  <2>5. QED
    BY <2>1, <2>4 DEF Ahead
<1>5. CASE Reply
  <2>1. integrity'.business = published' /\ pc' = "idle"
    BY <1>5 DEF Reply, End, disk, ShownInv, Ahead, PhaseInv, Image
  <2>2. QED
    BY <2>1 DEF Ahead
<1>6. CASE ~(WriteCandidates \/ InitializeIntegrity \/ WriteIntegrity \/ Load \/ Reply)
  <2>1. UNCHANGED <<integrity, published>>
    BY <1>6 DEF Next, vars, disk, history, Initialize, Install, BeginInitialize, InitializeDocument,
       Begin, Scan, Refuse, Replay, StartCommit, CreateManifest, WriteManifest, Inspect, WriteTemp,
       Rename, MarkManifest, AppendAuditEvent, ReplaceAuditHead, Interrupt, ForwardStepFails,
       OtherAppendDies, CorruptSnapshot, EditOutOfBand
  <2>2. \A t \in Tx : /\ AfterImage(t)' = AfterImage(t) /\ txns'[t].before = txns[t].before
                      /\ txns'[t].status = "absent" <=> txns[t].status = "absent"
    BY <1>6, ImagesKept
  <2>3. integrity' # Missing => integrity'.business = published' \/ OneMore(published)'
    BY <1>0, <2>1, <2>2
  <2>4. ASSUME pc' \in {"manifest"} \cup MarkedSteps
        PROVE  pc \in {"manifest"} \cup MarkedSteps /\ phase' = phase /\ tx' = tx
    BY <1>6, <2>4 DEF Next, vars, disk, control, history, Initialize, Install, BeginInitialize,
       InitializeDocument, Begin, Scan, Refuse, Replay, StartCommit, CreateManifest, WriteManifest,
       Inspect, WriteTemp, Rename, MarkManifest, AppendAuditEvent, ReplaceAuditHead, Interrupt,
       ForwardStepFails, OtherAppendDies, CorruptSnapshot, EditOutOfBand, Goto, End, NextManifest,
       Audited, Throw, Order
  <2>5. pc' \in {"manifest"} \cup MarkedSteps => Image' = Image
    <3>1. pc \in {"manifest"} \cup MarkedSteps => tx \in Tx
      BY DEF TypeInv, TypeOK, ControlOK
    <3>2. QED
      BY <2>2, <2>4, <3>1 DEF Image
  <2>6. QED
    BY <2>1, <2>3, <2>4, <2>5 DEF Ahead, ShownInv
<1>7. QED
  BY <1>1, <1>2, <1>3, <1>4, <1>5, <1>6

\* The safety part of commit and recovery that needs no assumption on faults.
CommitInv == TypeInv /\ Matched /\ OneUndecided /\ PhaseInv /\ KeyInv /\ ShownInv

LEMMA CommitInvInit == Init => CommitInv
<1> SUFFICES ASSUME Init PROVE CommitInv
  OBVIOUS
<1>1. \A t \in Tx : txns[t].status = "absent"
  BY DEF Init, NoDirectory
<1>2. TypeInv
  BY TypeInvInit
<1>3. Matched /\ OneUndecided /\ PhaseInv
  BY <1>1 DEF Init, Matched, OneUndecided, Undecided, InitSteps, PhaseInv, InstallSteps, MarkedSteps
<1>4. KeyInv
  BY <1>1, EmptySound DEF Init, KeyInv, Sound
<1>5. ShownInv
  BY <1>1, CommitAssumption DEF Init, ShownInv, Fresh, Based, Ahead, Undecided, InitSteps, MarkedSteps
<1>6. QED
  BY <1>2, <1>3, <1>4, <1>5 DEF CommitInv

LEMMA CommitInvStep == CommitInv /\ [Next]_vars => CommitInv'
<1> SUFFICES ASSUME CommitInv, [Next]_vars PROVE CommitInv'
  OBVIOUS
<1> USE DEF CommitInv
<1>1. TypeInv' /\ Matched' /\ OneUndecided' /\ PhaseInv' /\ KeyInv'
  BY TypeInvStep, MatchedStep, OneUndecidedStep, PhaseInvStep, KeyInvStep
<1>2. Fresh' /\ Based' /\ Ahead'
  BY FreshStep, BasedStep, AheadStep DEF ShownInv
<1>3. QED
  BY <1>1, <1>2 DEF ShownInv

KeyFree(r) == \A i \in 1..Len(published) : KeyOf[published[i]] # KeyOf[r]

\* A content that a directory would add to what was shown has a new key.
LEMMA OneRequestMore ==
  ASSUME CommitInv, NEW t \in Tx, txns[t].status # "absent", txns[t].before = published
  PROVE  /\ txns[t].request \in Request
         /\ AfterImage(t) = Append(published, txns[t].request)
         /\ KeyFree(txns[t].request)
<1>1. txns[t].request \in Request /\ published \in Seq(Request) /\ UniqueKeys(AfterImage(t))
  BY DEF CommitInv, TypeInv, TypeOK, ControlOK, KeyInv, Content
<1>2. AfterImage(t) = Append(published, txns[t].request)
  BY DEF AfterImage
<1>3. ASSUME NEW i \in 1..Len(published) PROVE KeyOf[published[i]] # KeyOf[txns[t].request]
  <2>1. /\ AfterImage(t)[i] = published[i] /\ AfterImage(t)[Len(published) + 1] = txns[t].request
        /\ Len(AfterImage(t)) = Len(published) + 1
    BY <1>1, <1>2
  <2>2. QED
    BY <1>1, <2>1, SMT DEF UniqueKeys
<1>4. QED
  BY <1>1, <1>2, <1>3 DEF KeyFree

\* What clients see changes only by one request more, whose key is new to it.
LEMMA ShowsAtMostOneMore ==
  ASSUME CommitInv, [Next]_vars, published' # published
  PROVE  \/ /\ UNCHANGED acked
            /\ \E r \in Request : KeyFree(r) /\ published' = Append(published, r)
         \/ /\ op \in Request /\ KeyFree(op) /\ published' = Append(published, op)
            /\ acked' = acked \cup {op}
<1>1. CASE Load
  <2>1. /\ integrity # Missing /\ integrity.business = published' /\ UNCHANGED acked
    BY <1>1 DEF Load, Loadable
  <2>2. PICK t \in Tx : /\ txns[t].status # "absent" /\ txns[t].before = published
                        /\ integrity.business = AfterImage(t)
    BY <2>1 DEF CommitInv, ShownInv, Ahead
  <2>3. QED
    BY <2>1, <2>2, OneRequestMore
<1>2. CASE Reply
  <2>1. /\ tx \in Tx /\ txns[tx].status # "absent" /\ txns[tx].before = published
        /\ txns[tx].request = op
    BY <1>2 DEF Reply, CommitInv, TypeInv, TypeOK, ControlOK, OpenSteps, ShownInv, Based
  <2>2. QED
    BY <1>2, <2>1, OneRequestMore DEF Reply
<1>3. Load \/ Reply
  BY DEF Next, vars, disk, history, Initialize, Install, BeginInitialize, InitializeDocument,
     InitializeIntegrity, Begin, Scan, Refuse, Replay, StartCommit, WriteCandidates, CreateManifest,
     WriteManifest, Inspect, WriteTemp, Rename, WriteIntegrity, MarkManifest, AppendAuditEvent,
     ReplaceAuditHead, Interrupt, ForwardStepFails, OtherAppendDies, CorruptSnapshot, EditOutOfBand
<1>4. QED
  BY <1>1, <1>2, <1>3

\* Through all crashes, errors and damages: what clients were shown is never taken
\* back, and grows by one request at a time, whose key has not taken effect before.
THEOREM ShownIsKept ==
  Spec => [][\E r \in Request : KeyFree(r) /\ published' = Append(published, r)]_published
<1>1. CommitInv /\ [Next]_vars =>
         [\E r \in Request : KeyFree(r) /\ published' = Append(published, r)]_published
  BY ShowsAtMostOneMore
<1>2. QED
  BY <1>1, CommitInvInit, CommitInvStep, PTL DEF Spec

----------------------------------------------------------------------------

(***************************************************************************)
(* What is installed: each write of an installation is done when the next  *)
(* one starts.  A rollback of a transaction that recovery has marked       *)
(* committed finds its images in place, and leaves them there until the    *)
(* first document is replaced.                                             *)
(***************************************************************************)
BusinessInstalled == {"tempSoftware", "renameSoftware", "integrity", "manifest"} \cup MarkedSteps
SoftwareInstalled == {"integrity", "manifest"} \cup MarkedSteps

UndoesWhatItMarked == phase = "rollback" /\ txns[tx].status = "committed"

InstalledInv ==
    /\ pc \in BusinessInstalled => canon["business"] = Image
    /\ pc \in SoftwareInstalled => canon["software"] = Image
    /\ UndoesWhatItMarked /\ pc \notin BusinessInstalled =>
          integrity.business = AfterImage(tx) /\ \A d \in Docs : canon[d] = AfterImage(tx)

LEMMA InstalledInvStep == CommitInv /\ InstalledInv /\ [Next]_vars => InstalledInv'
<1> SUFFICES ASSUME CommitInv, InstalledInv, [Next]_vars PROVE InstalledInv'
  OBVIOUS
<1>0. TypeInv /\ TypeOK /\ ControlOK /\ PhaseInv /\ ShownInv
  BY DEF CommitInv, TypeInv
<1> USE DEF BusinessInstalled, SoftwareInstalled, MarkedSteps
<1>1. ASSUME ~WriteCandidates, UNCHANGED <<phase, tx>>, pc \notin OpenSteps \cup {"candidates"}
      PROVE  Image' = Image
  <2>1. tx \in Tx
    BY <1>0, <1>1 DEF TypeOK, ControlOK
  <2>2. QED
    BY <1>0, <1>1, <2>1, ImagesKept DEF Image
<1>2. ASSUME Rename("business", "renameBusiness")
      PROVE  pc' \in BusinessInstalled /\ pc' \notin SoftwareInstalled /\ canon'["business"] = Image'
  <2>1. canon' = [canon EXCEPT !["business"] = Image] /\ pc' = "tempSoftware" /\ Image' = Image
    BY <1>1, <1>2 DEF Rename, Goto, Order, OpenSteps, WriteCandidates
  <2>2. canon'["business"] = Image'
    BY <1>0, <2>1 DEF TypeOK, Docs
  <2>3. QED
    BY <2>1, <2>2
<1>3. ASSUME Rename("software", "renameSoftware")
      PROVE  pc' \in BusinessInstalled /\ canon'["business"] = Image' /\ canon'["software"] = Image'
  <2>1. /\ canon' = [canon EXCEPT !["software"] = Image] /\ pc' = "integrity" /\ Image' = Image
        /\ canon["business"] = Image
    BY <1>1, <1>3 DEF Rename, Goto, Order, OpenSteps, WriteCandidates, InstalledInv
  <2>2. canon'["software"] = Image' /\ canon'["business"] = Image'
    BY <1>0, <2>1 DEF TypeOK, Docs
  <2>3. QED
    BY <2>1, <2>2
<1>4. ASSUME ~Rename("business", "renameBusiness"), ~Rename("software", "renameSoftware"),
             pc' \in BusinessInstalled
      PROVE  /\ pc \in BusinessInstalled /\ UNCHANGED <<phase, tx, canon>> /\ ~WriteCandidates
             /\ pc' \in SoftwareInstalled => pc \in SoftwareInstalled
  BY <1>4 DEF Next, vars, disk, control, history, Initialize, Install, BeginInitialize, InitializeDocument,
     InitializeIntegrity, Begin, Scan, Load, Refuse, Replay, StartCommit, WriteCandidates, CreateManifest,
     WriteManifest, Inspect, WriteTemp, WriteIntegrity, MarkManifest, AppendAuditEvent, ReplaceAuditHead,
     Reply, Interrupt, ForwardStepFails, OtherAppendDies, CorruptSnapshot, EditOutOfBand, Goto, End,
     NextManifest, Audited, Throw, Order
<1>5. (/\ pc \in BusinessInstalled => canon["business"] = Image
       /\ pc \in SoftwareInstalled => canon["software"] = Image)'
  <2>1. CASE Rename("business", "renameBusiness")
    BY <1>2, <2>1
  <2>2. CASE Rename("software", "renameSoftware")
    BY <1>3, <2>2
  <2>3. CASE ~Rename("business", "renameBusiness") /\ ~Rename("software", "renameSoftware")
    BY <1>1, <1>4, <2>3 DEF InstalledInv, OpenSteps
  <2>4. QED
    BY <2>1, <2>2, <2>3
<1>6. ASSUME UndoesWhatItMarked', pc' \notin BusinessInstalled
      PROVE  (integrity.business = AfterImage(tx) /\ \A d \in Docs : canon[d] = AfterImage(tx))'
  <2>1. /\ UNCHANGED <<canon, integrity, txns, tx>> /\ phase \in {"forward", "rollback"}
        /\ phase = "rollback" => pc \notin BusinessInstalled
    BY <1>0, <1>6 DEF UndoesWhatItMarked, ControlOK, OpenSteps, Next, vars, disk, control, history, Initialize,
       Install, BeginInitialize, InitializeDocument, InitializeIntegrity, Begin, Scan, Load, Refuse, Replay,
       StartCommit, WriteCandidates, CreateManifest, WriteManifest, Inspect, WriteTemp, Rename, WriteIntegrity,
       MarkManifest, AppendAuditEvent, ReplaceAuditHead, Reply, Interrupt, ForwardStepFails, OtherAppendDies,
       CorruptSnapshot, EditOutOfBand, Goto, End, NextManifest, Audited, Throw, Order
  <2>2. txns[tx].status = "committed" /\ AfterImage(tx)' = AfterImage(tx)
    BY <1>6, <2>1 DEF UndoesWhatItMarked, AfterImage
  <2>3. CASE phase = "rollback"
    BY <2>1, <2>2, <2>3 DEF InstalledInv, UndoesWhatItMarked
  <2>4. CASE phase = "forward"
    <3>1. pc \in MarkedSteps /\ Image = AfterImage(tx)
      BY <1>0, <2>2, <2>4 DEF PhaseInv, Image
    <3>2. integrity.business = Image /\ canon["business"] = Image /\ canon["software"] = Image
      BY <1>0, <3>1 DEF InstalledInv, ShownInv, Ahead
    <3>3. QED
      BY <2>1, <2>2, <3>1, <3>2 DEF Docs
  <2>5. QED
    BY <2>1, <2>3, <2>4
<1>7. QED
  BY <1>5, <1>6 DEF InstalledInv

LEMMA InstalledInvInit == Init => InstalledInv
BY DEF Init, InstalledInv, BusinessInstalled, SoftwareInstalled, MarkedSteps, UndoesWhatItMarked

----------------------------------------------------------------------------

(***************************************************************************)
(* What is acknowledged.  Recovery writes the commit marker before it      *)
(* appends the audit event, and when that throws it undoes the transaction *)
(* it has marked.  If this in turn is interrupted, a manifest stays marked *)
(* committed over documents that no longer hold its request, and a retry   *)
(* is answered from its receipt.  Unless that happens, every committed     *)
(* request is or will be shown.                                            *)
(***************************************************************************)
\* Recovery that has begun to replace the documents of what it marked committed
\* does so to the end.
Entirely ==
    UndoesWhatItMarked /\ pc \in BusinessInstalled /\ phase' # "rollback" => txns'[tx].status = "rolled-back"

UndoneEntirely == [][Entirely]_vars

\* The integrity record already names a committed request that is not shown yet.
Recorded(t) ==
    /\ phase = "none" /\ integrity.business = AfterImage(t)
    /\ \A u \in Tx : ~Undecided(u)

AckInv ==
    /\ \A t \in WithStatus("committed") :
          In(txns[t].request, published) \/ (phase # "none" /\ t = tx) \/ Recorded(t)
    /\ pc = "decide" => \A t \in WithStatus("committed") : In(txns[t].request, published)
    /\ \A r \in acked : In(r, published)

LEMMA InAppend ==
  ASSUME NEW s \in Content, NEW r \in Request, NEW x
  PROVE  /\ In(x, s) => In(x, Append(s, r))
         /\ In(r, Append(s, r))
<1>1. /\ Len(Append(s, r)) = Len(s) + 1 /\ Append(s, r)[Len(s) + 1] = r
      /\ \A i \in 1..Len(s) : Append(s, r)[i] = s[i]
      /\ Len(s) \in Nat
  BY DEF Content
<1>2. QED
  BY <1>1 DEF In

\* What was shown stays in what is shown.
LEMMA InKept ==
  ASSUME CommitInv, [Next]_vars, NEW x, In(x, published)
  PROVE  In(x, published')
<1>1. published \in Content
  BY DEF CommitInv, TypeInv, TypeOK
<1>2. published' = published \/ \E r \in Request : published' = Append(published, r)
  BY ShowsAtMostOneMore
<1>3. QED
  BY <1>1, <1>2, InAppend

\* A request that becomes undecided does so over a record without unshown requests.
LEMMA AckInvStep == CommitInv /\ InstalledInv /\ AckInv /\ [Next]_vars /\ [Entirely]_vars => AckInv'
<1> SUFFICES ASSUME CommitInv, InstalledInv, AckInv, [Next]_vars, [Entirely]_vars PROVE AckInv'
  OBVIOUS
<1>0. TypeInv /\ OneUndecided /\ PhaseInv /\ ShownInv /\ TypeOK /\ ControlOK
  BY DEF CommitInv, TypeInv
<1>1. \A x : In(x, published) => In(x, published')
  BY InKept
<1> DEFINE Safe(t) == In(txns[t].request, published) \/ (phase # "none" /\ t = tx) \/ Recorded(t)
<1>2. CASE WriteCandidates
  <2>1. /\ pc = "candidates" /\ tx \in Tx /\ txns'[tx].status # "committed"
        /\ \A t \in Tx \ {tx} : txns'[t] = txns[t]
        /\ phase = "commit" /\ pc' = "createManifest" /\ UNCHANGED <<published, acked>>
    <3> DEFINE dir == [request |-> op, before |-> canon["business"], status |-> "candidates",
                       afterOk |-> TRUE, beforeOk |-> TRUE]
    <3>1. tx \in Tx /\ txns' = [txns EXCEPT ![tx] = dir] /\ dir.status = "candidates"
      BY <1>0, <1>2 DEF WriteCandidates, TypeOK, ControlOK, OpenSteps
    <3> HIDE DEF dir
    <3>2. txns'[tx] = dir /\ \A t \in Tx \ {tx} : txns'[t] = txns[t]
      BY <1>0, <3>1 DEF TypeOK
    <3>3. QED
      BY <1>0, <1>2, <3>1, <3>2 DEF WriteCandidates, Goto, history, ControlOK, OpenSteps
  <2>2. \A t \in WithStatus("committed")' : t # tx /\ t \in WithStatus("committed")
    BY <2>1 DEF WithStatus
  <2>3. \A t \in WithStatus("committed")' : In(txns'[t].request, published')
    BY <2>1, <2>2 DEF AckInv, Recorded, WithStatus
  <2>4. QED
    BY <2>1, <2>3 DEF AckInv
<1>3. CASE ~WriteCandidates
  <2>0. \A t \in Tx : AfterImage(t)' = AfterImage(t) /\ txns'[t].request = txns[t].request
    BY <1>0, <1>3, ImagesKept
  <2>1. CASE Load
    <3>1. /\ UNCHANGED <<integrity, txns, acked>> /\ phase = "none" /\ phase' = "none"
          /\ pc' \in {"idle", "decide"} /\ pc = "load"
      BY <2>1, <1>0 DEF Load, End, Goto, disk, ControlOK, OpenSteps
    <3>2. CASE ~Loadable
      BY <1>0, <2>1, <2>0, <3>1, <3>2 DEF Load, End, AckInv, WithStatus, Recorded, Undecided
    <3>3. CASE Loadable
      <4>1. published' = integrity.business
        BY <2>1, <3>3 DEF Load, Loadable
      <4>2. ASSUME NEW t \in WithStatus("committed") PROVE In(txns[t].request, published')
        <5>1. t \in Tx /\ txns[t].before \in Content /\ txns[t].request \in Request
          BY <1>0 DEF WithStatus, TypeOK, ControlOK, Directory
        <5>2. CASE In(txns[t].request, published)
          BY <1>1, <5>2
        <5>3. CASE Recorded(t)
          BY <4>1, <5>1, <5>3, InAppend DEF Recorded, AfterImage
        <5>4. QED
          BY <3>1, <5>2, <5>3 DEF AckInv
      <4>3. QED
        BY <1>1, <3>1, <4>2 DEF AckInv, WithStatus
    <3>4. QED
      BY <3>2, <3>3
  <2>2. CASE Scan
    <3>1. /\ UNCHANGED <<integrity, txns, published, acked>> /\ phase = "none"
          /\ pc' # "decide" /\ (phase' = "none" \/ \E t \in Tx : Undecided(t))
      BY <2>2, <1>0 DEF Scan, End, Goto, disk, history, WithStatus, ControlOK, OpenSteps, Undecided
    <3>2. ASSUME NEW t \in WithStatus("committed"), phase' # "none" PROVE In(txns[t].request, published)
      BY <3>1, <3>2 DEF AckInv, Recorded
    <3>3. QED
      BY <2>0, <3>1, <3>2 DEF AckInv, WithStatus, Recorded, Undecided
  <2>3. CASE StartCommit
    BY <2>3 DEF StartCommit, disk, history, AckInv, WithStatus
  <2>4. CASE Replay
    <3>1. /\ pc = "decide" /\ UNCHANGED <<integrity, txns, published>> /\ phase = "none" /\ phase' = "none"
          /\ pc' = "idle" /\ \A r \in acked' : r \in acked \/ \E t \in WithStatus("committed") : txns[t].request = r
      BY <2>4, <1>0 DEF Replay, End, disk, Receipts, ControlOK, OpenSteps
    <3>2. QED
      BY <2>0, <3>1 DEF AckInv, WithStatus, Recorded, Undecided
  <2>5. CASE MarkManifest
    <3>1. /\ tx \in Tx /\ phase # "none" /\ UNCHANGED <<integrity, published, acked>>
          /\ \A t \in Tx \ {tx} : txns'[t] = txns[t]
          /\ pc' # "decide"
          /\ \/ phase = "rollback" /\ txns'[tx].status = "rolled-back"
             \/ phase' = phase /\ tx' = tx
      BY <2>5, <1>0 DEF MarkManifest, NextManifest, Goto, history, TypeOK, ControlOK, OpenSteps, Directory
    <3>2. ASSUME NEW t \in WithStatus("committed")', t # tx PROVE In(txns'[t].request, published')
      BY <2>0, <3>1, <3>2 DEF AckInv, WithStatus, Recorded
    <3>3. QED
      BY <3>1, <3>2 DEF AckInv, WithStatus
  <2>6. CASE Reply
    <3>1. /\ tx \in Tx /\ op \in Request /\ published' = Append(txns[tx].before, op) /\ txns[tx].before \in Content
          /\ txns[tx].request = op /\ acked' = acked \cup {op} /\ UNCHANGED txns /\ pc' = "idle"
          /\ phase = "commit"
      BY <2>6, <1>0 DEF Reply, End, disk, AfterImage, TypeOK, ControlOK, OpenSteps, ShownInv, Based, Directory
    <3>2. In(op, published')
      BY <3>1, InAppend
    <3>3. \A t \in WithStatus("committed")' : In(txns'[t].request, published')
      BY <1>1, <3>1, <3>2 DEF AckInv, WithStatus, Recorded
    <3>4. QED
      BY <1>1, <3>1, <3>2, <3>3 DEF AckInv
  <2>7. CASE ~(Load \/ Scan \/ StartCommit \/ Replay \/ MarkManifest \/ Reply)
    <3>0. ASSUME NEW d \in Docs, NEW s \in {"tempBusiness", "tempSoftware", "renameBusiness", "renameSoftware"},
                 WriteTemp(d, s) \/ Rename(d, s)
          PROVE  UNCHANGED <<published, acked>> /\ pc' # "decide"
      BY <3>0 DEF WriteTemp, Rename, history, Goto, Throw, End, Order
    <3>1. UNCHANGED <<published, acked>> /\ (pc' = "decide" => pc = "decide")
      BY <1>3, <2>7, <3>0 DEF Next, vars, disk, control, history, Initialize, Install, BeginInitialize,
         InitializeDocument, InitializeIntegrity, Begin, Refuse, CreateManifest, WriteManifest, Inspect,
         WriteIntegrity, AppendAuditEvent, ReplaceAuditHead, Interrupt, ForwardStepFails, OtherAppendDies,
         CorruptSnapshot, EditOutOfBand, Goto, End, NextManifest, Audited, Throw, Order, Docs
    <3>2. \A t \in Tx : txns'[t].status = "committed" => txns[t].status = "committed"
      <4>1. CASE CreateManifest \/ WriteManifest
        <5>1. tx \in Tx /\ txns[tx] \in Directory
          BY <1>0, <4>1 DEF CreateManifest, WriteManifest, TypeOK, ControlOK, OpenSteps
        <5>2. txns'[tx].status \in {"torn", "prepared"} /\ \A t \in Tx \ {tx} : txns'[t] = txns[t]
          BY <1>0, <4>1, <5>1 DEF CreateManifest, WriteManifest, TypeOK, Directory
        <5>3. QED
          BY <5>2
      <4>2. ASSUME NEW t \in Tx, CorruptSnapshot(t)
            PROVE  \A u \in Tx : txns'[u].status = txns[u].status
        BY <1>0, <4>2 DEF CorruptSnapshot, TypeOK, Directory
      <4>3. CASE UNCHANGED txns
        BY <4>3
      <4>4. QED
        BY <1>3, <2>7, <4>1, <4>2, <4>3 DEF Next, vars, disk, Initialize, Install, BeginInitialize,
           InitializeDocument, InitializeIntegrity, Begin, Refuse, Inspect, WriteTemp, Rename, WriteIntegrity,
           AppendAuditEvent, ReplaceAuditHead, Interrupt, ForwardStepFails, OtherAppendDies, EditOutOfBand
    <3>3. CASE phase = "none"
      <4>1. CASE InitializeIntegrity
        <5>1. \A t \in Tx : txns'[t].status = "absent"
          BY <1>0, <4>1 DEF InitializeIntegrity, ShownInv, Fresh, InitSteps
        <5>2. QED
          BY <3>1, <5>1, <1>1 DEF AckInv, WithStatus
      <4>2. CASE ~InitializeIntegrity
        <5>1. /\ UNCHANGED integrity /\ phase' = "none"
              /\ \A t \in Tx : txns'[t].status = txns[t].status
          <6>1. ASSUME NEW t \in Tx, CorruptSnapshot(t)
                PROVE  \A u \in Tx : txns'[u].status = txns[u].status
            BY <1>0, <6>1 DEF CorruptSnapshot, TypeOK, Directory
          <6>2. /\ UNCHANGED <<integrity, phase>>
                /\ (\E t \in Tx : CorruptSnapshot(t)) \/ UNCHANGED txns
            BY <1>0, <1>3, <2>7, <3>3, <4>2 DEF Next, vars, disk, control, Initialize, Install, BeginInitialize,
               InitializeDocument, Begin, Refuse, CreateManifest, WriteManifest, Inspect, WriteTemp, Rename,
               WriteIntegrity, AppendAuditEvent, ReplaceAuditHead, Interrupt, ForwardStepFails, OtherAppendDies,
               CorruptSnapshot, EditOutOfBand, End, Goto, ControlOK, OpenSteps
          <6>3. QED
            BY <3>3, <6>1, <6>2
        <5>2. QED
          BY <2>0, <3>1, <3>3, <5>1 DEF AckInv, WithStatus, Recorded, Undecided
      <4>3. QED
        BY <4>1, <4>2
    <3>4. CASE phase # "none" /\ phase' # "none"
      <4>1. tx' = tx /\ pc' # "decide"
        BY <1>0, <1>3, <2>7, <3>4 DEF Next, vars, disk, control, Initialize, Install, BeginInitialize,
           InitializeDocument, InitializeIntegrity, Begin, Refuse, CreateManifest, WriteManifest, Inspect,
           WriteTemp, Rename, WriteIntegrity, AppendAuditEvent, ReplaceAuditHead, Interrupt, ForwardStepFails,
           OtherAppendDies, CorruptSnapshot, EditOutOfBand, End, Goto, NextManifest, Audited, Throw, ControlOK,
           OpenSteps, Order
      <4>2. QED
        BY <2>0, <3>1, <3>2, <3>4, <4>1 DEF AckInv, WithStatus, Recorded
    <3>5. CASE phase # "none" /\ phase' = "none"
      <4>1. UNCHANGED <<integrity, txns>> /\ pc' # "decide"
        BY <1>0, <1>3, <2>7, <3>5 DEF Next, vars, disk, control, Initialize, Install, BeginInitialize,
           InitializeDocument, InitializeIntegrity, Begin, Refuse, CreateManifest, WriteManifest, Inspect,
           WriteTemp, Rename, WriteIntegrity, AppendAuditEvent, ReplaceAuditHead, Interrupt, ForwardStepFails,
           OtherAppendDies, CorruptSnapshot, EditOutOfBand, End, Goto, NextManifest, Audited, Throw, ControlOK,
           OpenSteps, Order
      <4>2. ASSUME NEW t \in Tx, t # tx, txns[t].status = "committed" PROVE In(txns[t].request, published)
        BY <3>5, <4>2 DEF AckInv, WithStatus, Recorded
      <4>3. ASSUME NEW t \in Tx, t = tx, txns[t].status = "committed" PROVE Recorded(t)'
        <5>1. ASSUME phase = "rollback" PROVE integrity.business = AfterImage(tx)
          BY <3>5, <4>1, <4>3, <5>1 DEF Entirely, UndoesWhatItMarked, InstalledInv, vars, control
        <5>2. ASSUME phase # "rollback" PROVE integrity.business = AfterImage(tx)
          <6>1. pc \in MarkedSteps
            BY <1>0, <3>5, <4>3, <5>2 DEF PhaseInv, MarkedSteps, InstallSteps, CommitInv, KeyInv, TypeOK, ControlOK,
               OpenSteps, Steps
          <6>2. QED
            BY <1>0, <4>3, <5>2, <6>1 DEF ShownInv, Ahead, Image
        <5>3. integrity.business = AfterImage(tx) /\ \A u \in Tx : ~Undecided(u)
          BY <1>0, <3>5, <4>3, <5>1, <5>2 DEF PhaseInv, Undecided
        <5>4. QED
          BY <2>0, <3>5, <4>1, <4>3, <5>3 DEF Recorded, Undecided
      <4>4. QED
        BY <2>0, <3>1, <4>1, <4>2, <4>3 DEF AckInv, WithStatus, Recorded
    <3>6. QED
      BY <3>3, <3>4, <3>5
  <2>8. QED
    BY <2>1, <2>2, <2>3, <2>4, <2>5, <2>6, <2>7
<1>4. QED
  BY <1>2, <1>3

LEMMA AckInvInit == Init => AckInv
<1> SUFFICES ASSUME Init PROVE AckInv
  OBVIOUS
<1>1. WithStatus("committed") = {} /\ acked = {}
  BY DEF Init, NoDirectory, WithStatus
<1>2. QED
  BY <1>1 DEF AckInv

\* What loads contains everything that was shown.
LEMMA ShownInLoaded ==
  ASSUME CommitInv, Loadable, NEW x, In(x, published)
  PROVE  In(x, canon["business"])
<1>1. integrity # Missing /\ integrity.business = canon["business"] /\ published \in Content
  BY DEF Loadable, CommitInv, TypeInv, TypeOK
<1>2. CASE integrity.business = published
  BY <1>1, <1>2
<1>3. ASSUME NEW t \in Tx, txns[t].status # "absent", txns[t].before = published,
             integrity.business = AfterImage(t)
      PROVE  In(x, canon["business"])
  BY <1>1, <1>3, OneRequestMore, InAppend
<1>4. QED
  BY <1>1, <1>2, <1>3 DEF CommitInv, ShownInv, Ahead

\* Unless an undoing of a marked transaction is itself cut short, a request that was
\* answered as committed or replayed is in whatever is loaded, for any number of
\* crashes, errors and damages.
THEOREM AcknowledgedStays == Spec /\ UndoneEntirely => []AckedIsDurable
<1>1. CommitInv /\ AckInv => AckedIsDurable
  <2> SUFFICES ASSUME CommitInv, AckInv, Loadable, NEW r \in acked
               PROVE  In(r, canon["business"])
    BY DEF AckedIsDurable, In
  <2>1. QED
    BY ShownInLoaded DEF AckInv
<1>2. QED
  BY <1>1, CommitInvInit, CommitInvStep, InstalledInvInit, InstalledInvStep, AckInvInit,
     AckInvStep, PTL DEF Spec, UndoneEntirely

\* Under the same proviso the protocol implements the atomic register: a load that
\* shows one request more, or the reply, is where a request takes effect, and a
\* replay acknowledges one that did.
THEOREM Refinement == Spec /\ UndoneEntirely => ImplementsAtomicRepository
<1>1. Init => Abstract!AInit
  BY DEF Init, Abstract!AInit
<1>2. CommitInv /\ AckInv /\ [Next]_vars => [Abstract!ANext]_(Abstract!avars)
  <2> SUFFICES ASSUME CommitInv, AckInv, [Next]_vars, ~(UNCHANGED <<published, acked>>)
               PROVE  Abstract!ANext
    BY DEF Abstract!avars
  <2>1. ASSUME NEW r \in Request, KeyFree(r) PROVE ~Abstract!KeyUsed(KeyOf[r])
    BY <2>1 DEF KeyFree, Abstract!KeyUsed
  <2>2. CASE published' # published
    <3>1. CASE /\ UNCHANGED acked
               /\ \E r \in Request : KeyFree(r) /\ published' = Append(published, r)
      BY <2>1, <3>1 DEF Abstract!ANext, Abstract!TakeEffect
    <3>2. CASE /\ op \in Request /\ KeyFree(op) /\ published' = Append(published, op)
               /\ acked' = acked \cup {op}
      BY <2>1, <3>2 DEF Abstract!ANext, Abstract!TakeEffect
    <3>3. QED
      BY <2>2, <3>1, <3>2, ShowsAtMostOneMore
  <2>3. CASE published' = published
    <3>1. Replay \/ Reply
      BY <2>3 DEF Next, vars, disk, history, Initialize, Install, BeginInitialize, InitializeDocument,
         InitializeIntegrity, Begin, Scan, Load, Refuse, StartCommit, WriteCandidates, CreateManifest,
         WriteManifest, Inspect, WriteTemp, Rename, WriteIntegrity, MarkManifest, AppendAuditEvent,
         ReplaceAuditHead, Interrupt, ForwardStepFails, OtherAppendDies, CorruptSnapshot, EditOutOfBand
    <3>2. ASSUME Reply PROVE In(op, published')
      <4>1. /\ tx \in Tx /\ txns[tx].status # "absent" /\ txns[tx].before = published
            /\ txns[tx].request = op /\ published \in Content /\ op \in Request
        BY <3>2 DEF Reply, CommitInv, TypeInv, TypeOK, ControlOK, OpenSteps, ShownInv, Based
      <4>2. published' = Append(published, op)
        BY <3>2, <4>1, OneRequestMore DEF Reply
      <4>3. QED
        BY <4>1, <4>2, InAppend
    <3>3. op \in Request /\ acked' = acked \cup {op} /\ In(op, published)
      <4>1. CASE Replay
        <5>1. PICK t \in Receipts(KeyOf[op]) :
                 acked' = IF txns[t].request = op THEN acked \cup {op} ELSE acked
          BY <4>1 DEF Replay
        <5>2. acked' # acked
          BY <2>3
        <5>3. txns[t].request = op /\ acked' = acked \cup {op}
          BY <5>1, <5>2
        <5>4. In(txns[t].request, published) /\ op \in Request
          BY <4>1 DEF Replay, AckInv, Receipts, CommitInv, TypeInv, ControlOK
        <5>5. QED
          BY <5>3, <5>4
      <4>2. CASE Reply
        BY <2>3, <3>2, <4>2 DEF Reply, CommitInv, TypeInv, ControlOK
      <4>3. QED
        BY <3>1, <4>1, <4>2
    <3>4. Abstract!InContent(op)
      BY <3>3 DEF In, Abstract!InContent
    <3>5. QED
      BY <2>3, <3>3, <3>4 DEF Abstract!ANext, Abstract!Acknowledge
  <2>4. QED
    BY <2>2, <2>3
<1>3. QED
  BY <1>1, <1>2, CommitInvInit, CommitInvStep, InstalledInvInit, InstalledInvStep, AckInvInit, AckInvStep,
     PTL DEF Spec, UndoneEntirely, ImplementsAtomicRepository, Abstract!ASpec

----------------------------------------------------------------------------

(***************************************************************************)
(* What recovery leaves.  The record names a transaction that is prepared  *)
(* or committed, and when nothing is prepared the documents agree with the *)
(* record or were edited by somebody else.                                 *)
(***************************************************************************)
RecordInv ==
    /\ integrity # Missing /\ integrity.tx # NoTx =>
          /\ txns[integrity.tx].status \in {"prepared", "committed"}
          /\ integrity.business = AfterImage(integrity.tx)
    /\ phase = "rollback" /\ pc = "manifest" => integrity.tx = NoTx

AtRest == integrity # Missing /\ WithStatus("prepared") = {} /\ phase # "rollback"

RestInv == AtRest => \A d \in Docs : canon[d] \in {Foreign, integrity.business}

SettleInv == RecordInv /\ RestInv

LEMMA RecordInvStep == CommitInv /\ RecordInv /\ [Next]_vars => RecordInv'
<1> SUFFICES ASSUME CommitInv, RecordInv, [Next]_vars PROVE RecordInv'
  OBVIOUS
<1>0. TypeInv /\ PhaseInv /\ KeyInv /\ TypeOK /\ ControlOK
  BY DEF CommitInv, TypeInv
<1> DEFINE u == integrity.tx
<1>1. ASSUME integrity # Missing PROVE u \in Tx \cup {NoTx}
  BY <1>0, <1>1 DEF TypeOK, IntegrityRecord
<1>2. CASE WriteIntegrity
  <2>1. /\ tx \in Tx /\ tx # NoTx /\ pc = "integrity" /\ UNCHANGED <<txns, phase, tx>>
        /\ integrity'.business = Image /\ integrity'.tx = IF phase = "rollback" THEN NoTx ELSE tx
    BY <1>0, <1>2, CommitAssumption DEF WriteIntegrity, Goto, TypeOK, ControlOK, OpenSteps
  <2>2. phase # "rollback" => txns[tx].status = "prepared" /\ Image = AfterImage(tx)
    BY <1>0, <2>1 DEF PhaseInv, InstallSteps, Image
  <2>3. AfterImage(tx)' = AfterImage(tx)
    BY <2>1 DEF AfterImage
  <2>4. integrity'.tx # NoTx =>
           /\ txns'[integrity'.tx].status \in {"prepared", "committed"}
           /\ integrity'.business = Append(txns'[integrity'.tx].before, txns'[integrity'.tx].request)
    BY <2>1, <2>2, <2>3 DEF AfterImage
  <2>5. QED
    BY <2>1, <2>4 DEF RecordInv, AfterImage
<1>3. CASE InitializeIntegrity
  BY <1>3 DEF InitializeIntegrity, Goto, RecordInv
<1>4. CASE WriteCandidates
  <2>1. /\ tx \in Tx /\ txns[tx].status = "absent" /\ pc' = "createManifest" /\ UNCHANGED integrity
        /\ \A t \in Tx \ {tx} : txns'[t] = txns[t]
    BY <1>0, <1>4 DEF WriteCandidates, Goto, TypeOK, ControlOK, OpenSteps, KeyInv
  <2>2. QED
    BY <1>1, <2>1 DEF RecordInv, AfterImage
<1>5. CASE ~WriteIntegrity /\ ~InitializeIntegrity /\ ~WriteCandidates
  <2>1. UNCHANGED integrity
    BY <1>5 DEF Next, vars, disk, Initialize, Install, BeginInitialize, InitializeDocument,
       Begin, Scan, Load, Refuse, Replay, StartCommit, CreateManifest, WriteManifest,
       Inspect, WriteTemp, Rename, MarkManifest, AppendAuditEvent, ReplaceAuditHead, Reply, Interrupt,
       ForwardStepFails, OtherAppendDies, CorruptSnapshot, EditOutOfBand
  <2>2. \A t \in Tx : AfterImage(t)' = AfterImage(t)
    BY <1>0, <1>5, ImagesKept
  <2>3. (phase = "rollback" /\ pc = "manifest" => integrity.tx = NoTx)'
    <3>1. ASSUME phase' = "rollback", pc' = "manifest" PROVE phase = "rollback" /\ pc = "manifest"
      BY <1>5, <3>1 DEF Next, vars, disk, control, Initialize, Install, BeginInitialize, InitializeDocument,
         Begin, Scan, Load, Refuse, Replay, StartCommit, CreateManifest, WriteManifest,
         Inspect, WriteTemp, Rename, MarkManifest, AppendAuditEvent, ReplaceAuditHead, Reply, Interrupt,
         ForwardStepFails, OtherAppendDies, CorruptSnapshot, EditOutOfBand, Goto, End, NextManifest, Audited,
         Throw, Order
    <3>2. QED
      BY <2>1, <3>1 DEF RecordInv
  <2>4. ASSUME integrity # Missing, u # NoTx, txns[u].status \in {"prepared", "committed"}
        PROVE  txns'[u].status \in {"prepared", "committed"}
    <3>1. u \in Tx
      BY <1>1, <2>4
    <3>2. CASE CreateManifest \/ WriteManifest
      BY <1>0, <2>4, <3>1, <3>2 DEF CreateManifest, WriteManifest, Goto, TypeOK, ControlOK, OpenSteps, KeyInv, Directory
    <3>3. CASE MarkManifest
      <4>1. phase = "rollback" => u = NoTx
        BY <3>3 DEF MarkManifest, RecordInv
      <4>2. QED
        BY <1>0, <2>4, <3>1, <3>3, <4>1 DEF MarkManifest, Goto, TypeOK, ControlOK, OpenSteps, Directory
    <3>4. ASSUME NEW t \in Tx, CorruptSnapshot(t) PROVE \A v \in Tx : txns'[v].status = txns[v].status
      BY <1>0, <3>4 DEF CorruptSnapshot, TypeOK, Directory
    <3>5. CASE UNCHANGED txns
      BY <2>4, <3>5
    <3>6. QED
      BY <1>5, <2>4, <3>1, <3>2, <3>3, <3>4, <3>5 DEF Next, vars, disk, Initialize, Install, BeginInitialize,
         InitializeDocument, Begin, Scan, Load, Refuse, Replay, StartCommit, Inspect, WriteTemp, Rename,
         AppendAuditEvent, ReplaceAuditHead, Reply, Interrupt, ForwardStepFails, OtherAppendDies, EditOutOfBand
  <2>5. integrity # Missing /\ u # NoTx =>
           Append(txns'[u].before, txns'[u].request) = Append(txns[u].before, txns[u].request)
    BY <1>1, <2>2 DEF AfterImage
  <2>6. QED
    BY <2>1, <2>3, <2>4, <2>5 DEF RecordInv, AfterImage
<1>6. QED
  BY <1>2, <1>3, <1>4, <1>5

LEMMA RestInvStep == CommitInv /\ InstalledInv /\ RestInv /\ [Next]_vars /\ [Entirely]_vars => RestInv'
<1> SUFFICES ASSUME CommitInv, InstalledInv, RestInv, [Next]_vars, [Entirely]_vars, AtRest'
             PROVE  \A d \in Docs : canon'[d] \in {Foreign, integrity'.business}
  BY DEF RestInv
<1>0. TypeInv /\ PhaseInv /\ ShownInv /\ TypeOK /\ ControlOK
  BY DEF CommitInv, TypeInv
<1>1. CASE InitializeIntegrity
  BY <1>1 DEF InitializeIntegrity, ShownInv, CommitInv, Fresh, Docs
<1>2. CASE WriteIntegrity \/ Rename("business", "renameBusiness") \/ Rename("software", "renameSoftware")
  <2>1. tx \in Tx /\ UNCHANGED <<txns, phase>> /\ pc \in InstallSteps
    BY <1>0, <1>2 DEF WriteIntegrity, Rename, Goto, TypeOK, ControlOK, OpenSteps, InstallSteps
  <2>2. QED
    BY <1>0, <2>1 DEF AtRest, WithStatus, PhaseInv
<1>3. CASE MarkManifest
  <2>1. /\ UNCHANGED <<canon, integrity>> /\ canon["business"] = Image /\ canon["software"] = Image
        /\ integrity.business = Image
    BY <1>0, <1>3 DEF MarkManifest, InstalledInv, BusinessInstalled, SoftwareInstalled, ShownInv, Ahead
  <2>2. QED
    BY <2>1 DEF Docs
<1>4. CASE InitializeDocument("business", "initBusiness", "initSoftware")
           \/ InitializeDocument("software", "initSoftware", "initIntegrity")
  BY <1>0, <1>4 DEF InitializeDocument, ShownInv, Fresh, InitSteps, AtRest
<1>5. ASSUME NEW d \in Docs, EditOutOfBand(d)
      PROVE  \A e \in Docs : canon'[e] \in {Foreign, integrity'.business}
  <2>1. AtRest /\ UNCHANGED integrity /\ canon' = [canon EXCEPT ![d] = Foreign]
    BY <1>5 DEF EditOutOfBand, AtRest, control, WithStatus
  <2>2. QED
    BY <1>0, <2>1 DEF RestInv, TypeOK
<1>6. ASSUME ~InitializeIntegrity, ~WriteIntegrity, ~Rename("business", "renameBusiness"),
             ~Rename("software", "renameSoftware"), ~MarkManifest,
             ~InitializeDocument("business", "initBusiness", "initSoftware"),
             ~InitializeDocument("software", "initSoftware", "initIntegrity"),
             \A d \in Docs : ~EditOutOfBand(d)
      PROVE  \A d \in Docs : canon'[d] \in {Foreign, integrity'.business}
  <2>1. UNCHANGED <<canon, integrity>>
    BY <1>6 DEF Next, vars, disk, Initialize, Install, BeginInitialize,
       Begin, Scan, Load, Refuse, Replay, StartCommit, WriteCandidates, CreateManifest, WriteManifest,
       Inspect, WriteTemp, AppendAuditEvent, ReplaceAuditHead, Reply, Interrupt,
       ForwardStepFails, OtherAppendDies, CorruptSnapshot, EditOutOfBand
  <2>2. WithStatus("prepared") = {}
    <3>1. ASSUME NEW t \in Tx, txns[t].status = "prepared" PROVE txns'[t].status = "prepared"
      <4>1. CASE WriteCandidates
        BY <1>0, <3>1, <4>1 DEF WriteCandidates, CommitInv, KeyInv, TypeOK, ControlOK, OpenSteps
      <4>2. CASE CreateManifest \/ WriteManifest
        BY <1>0, <3>1, <4>2 DEF CreateManifest, WriteManifest, CommitInv, KeyInv, TypeOK, ControlOK, OpenSteps, Directory
      <4>3. ASSUME NEW u \in Tx, CorruptSnapshot(u) PROVE txns'[t].status = txns[t].status
        BY <1>0, <4>3 DEF CorruptSnapshot, TypeOK, Directory
      <4>4. CASE UNCHANGED txns
        BY <3>1, <4>4
      <4>5. QED
        BY <1>6, <3>1, <4>1, <4>2, <4>3, <4>4 DEF Next, vars, disk, Initialize, Install, BeginInitialize,
           Begin, Scan, Load, Refuse, Replay, StartCommit, Inspect, WriteTemp, AppendAuditEvent,
           ReplaceAuditHead, Reply, Interrupt, ForwardStepFails, OtherAppendDies, EditOutOfBand
    <3>2. QED
      BY <3>1 DEF AtRest, WithStatus
  <2>3. CASE phase # "rollback"
    BY <2>1, <2>2, <2>3 DEF AtRest, RestInv
  <2>4. CASE phase = "rollback"
    <3>1. tx \in Tx /\ txns[tx].status = "committed" /\ pc \in InstallSteps
      BY <1>0, <2>2, <2>4 DEF PhaseInv, WithStatus, ControlOK
    <3>2. phase' # "rollback"
      BY DEF AtRest
    <3>3. txns' = txns
      BY <1>6, <3>1 DEF Next, vars, disk, Initialize, Install, BeginInitialize, InstallSteps,
         Begin, Scan, Load, Refuse, Replay, StartCommit, WriteCandidates, CreateManifest, WriteManifest,
         Inspect, WriteTemp, AppendAuditEvent, ReplaceAuditHead, Reply, Interrupt, ForwardStepFails,
         OtherAppendDies, CorruptSnapshot, EditOutOfBand
    <3>4. pc \notin BusinessInstalled
      BY <2>4, <3>1, <3>2, <3>3 DEF Entirely, UndoesWhatItMarked, vars, control
    <3>5. QED
      BY <2>1, <2>4, <3>1, <3>4 DEF InstalledInv, UndoesWhatItMarked
  <2>5. QED
    BY <2>3, <2>4
<1>7. QED
  BY <1>1, <1>2, <1>3, <1>4, <1>5, <1>6

\* Under the same proviso recovery is complete when nothing is left prepared: the
\* documents of a repository nobody edited load, whatever was interrupted.
THEOREM RecoverySettles == Spec /\ UndoneEntirely => []SettledMeansLoadable
<1>1. Init => SettleInv
  <2> SUFFICES ASSUME Init PROVE SettleInv
    OBVIOUS
  <2>1. QED
    BY DEF Init, SettleInv, RecordInv, RestInv, AtRest
<1>2. CommitInv /\ InstalledInv /\ SettleInv /\ [Next]_vars /\ [Entirely]_vars => SettleInv'
  BY RecordInvStep, RestInvStep DEF SettleInv
<1>3. CommitInv /\ SettleInv => SettledMeansLoadable
  <2> SUFFICES ASSUME CommitInv, SettleInv, pc = "idle", integrity # Missing,
                      Foreign \notin {canon[d] : d \in Docs}, WithStatus("prepared") = {}
               PROVE  Loadable
    BY DEF SettledMeansLoadable
  <2>1. phase = "none" /\ integrity \in IntegrityRecord
    BY DEF CommitInv, TypeInv, TypeOK, ControlOK, OpenSteps
  <2>2. integrity.business \in Content /\ integrity.tx \in Tx \cup {NoTx}
    BY <2>1 DEF IntegrityRecord
  <2>3. \A d \in Docs : canon[d] = integrity.business
    BY <2>1 DEF SettleInv, RestInv, AtRest
  <2>4. \A d \in Docs : canon[d] \notin {Missing, Foreign}
    BY <2>2, <2>3, CommitAssumption
  <2>5. integrity.software = integrity.business
    BY DEF CommitInv, Matched
  <2>6. integrity.tx # NoTx => /\ txns[integrity.tx].status = "committed"
                               /\ AfterImage(integrity.tx) = integrity.business
    BY <2>2 DEF SettleInv, RecordInv, WithStatus
  <2>7. QED
    BY <2>3, <2>4, <2>5, <2>6 DEF Loadable, Docs
<1>4. QED
  BY <1>1, <1>2, <1>3, CommitInvInit, CommitInvStep, InstalledInvInit, InstalledInvStep, PTL DEF Spec, UndoneEntirely

----------------------------------------------------------------------------

(***************************************************************************)
(* Two faults are not enough to cut such an undoing short.  One must leave *)
(* a prepared manifest, for a commit can fail on nothing that its own step *)
(* left behind; one must make recovery throw after its marker, either that *)
(* step itself or an audit append that another caller left incomplete.     *)
(* Nothing is left to interrupt the undoing, and what would refuse it, a   *)
(* temporary file of an earlier undoing, costs a fault of its own.         *)
(***************************************************************************)
TwoFaults == \A f \in FaultScenarios : f["crash"] + f["error"] <= 2

Left == faults["crash"] + faults["error"]

\* Something is prepared that no running commit will finish.
Stuck == phase \in {"forward", "rollback"} \/ (phase = "none" /\ WithStatus("prepared") # {})

\* An audit event without its head, which no running operation will complete.
OpenTail == auditTail /\ pc # "auditHead"

RenameStep == [business |-> "renameBusiness", software |-> "renameSoftware"]

Budget ==
    /\ Left <= 2
    /\ Stuck \/ OpenTail => Left <= 1
    /\ Stuck /\ OpenTail => Left = 0

\* Temporary files of commits are never met again, those of rollbacks by nobody
\* who could still be interrupted.
Leftovers ==
    /\ \A t \in Tx, d \in Docs : <<t, "commit", d>> \in temps =>
          txns[t].status # "absent" /\ (phase = "commit" /\ tx = t => pc = RenameStep[d])
    /\ \A t \in Tx, d \in Docs : <<t, "rollback", d>> \in temps =>
          (phase = "rollback" /\ tx = t /\ pc = RenameStep[d]) \/ (Left = 0 /\ ~OpenTail)

Undisturbed ==
    /\ phase = "commit" => pc # "inspect"
    /\ UndoesWhatItMarked => Left = 0 /\ \A d \in Docs : <<tx, "rollback", d>> \in temps => pc = RenameStep[d]

FaultInv == Budget /\ Leftovers /\ Undisturbed

\* Only the three faults change what is left to happen.
LEMMA LeftStep ==
  ASSUME TypeInv, [Next]_vars
  PROVE  /\ Left \in Nat /\ Left' \in Nat
         /\ Interrupt \/ ForwardStepFails \/ OtherAppendDies => Left' = Left - 1
         /\ ~(Interrupt \/ ForwardStepFails \/ OtherAppendDies) => Left' = Left
<1> USE DEF TypeInv, TypeOK, FaultKinds, Left
<1>1. CASE Interrupt \/ ForwardStepFails \/ OtherAppendDies
  BY <1>1 DEF Interrupt, ForwardStepFails, OtherAppendDies, Spend
<1>2. CASE (\E t \in Tx : CorruptSnapshot(t)) \/ (\E d \in Docs : EditOutOfBand(d))
  <2>1. faults["corrupt"] > 0 /\ faults' = [faults EXCEPT !["corrupt"] = @ - 1] /\ pc = "idle" /\ UNCHANGED pc
    BY <1>2 DEF CorruptSnapshot, EditOutOfBand, Spend, control
  <2>2. ~Interrupt
    BY <2>1 DEF Interrupt
  <2>3. Left' = Left
    BY <2>1
  <2>4. ~ForwardStepFails /\ ~OtherAppendDies
    BY <2>1, <2>3 DEF ForwardStepFails, OtherAppendDies, Spend
  <2>5. QED
    BY <2>2, <2>3, <2>4
<1>3. CASE UNCHANGED faults
  BY <1>3 DEF Interrupt, ForwardStepFails, OtherAppendDies, Spend
<1>4. QED
  BY <1>1, <1>2, <1>3 DEF Next, vars, disk, history, Initialize, Install, BeginInitialize,
     InitializeDocument, InitializeIntegrity, Begin, Scan, Load, Refuse, Replay, StartCommit,
     WriteCandidates, CreateManifest, WriteManifest, Inspect, WriteTemp, Rename, WriteIntegrity,
     MarkManifest, AppendAuditEvent, ReplaceAuditHead, Reply

LEMMA RenameSteps ==
  ASSUME NEW d \in Docs PROVE RenameStep[d] = IF d = "business" THEN "renameBusiness" ELSE "renameSoftware"
BY DEF RenameStep, Docs

\* A commit meets a temporary file of its own only where it is about to rename it.
LEMMA NoOwnTemp ==
  ASSUME FaultInv, phase = "commit", NEW d \in Docs, tx \in Tx, pc # RenameStep[d]
  PROVE  <<tx, "commit", d>> \notin temps
BY DEF FaultInv, Leftovers

Faulty == Interrupt \/ ForwardStepFails \/ OtherAppendDies

\* A step that is not a fault leaves no manifest and no audit event behind.
LEMMA NothingLeftBehind ==
  ASSUME CommitInv, FaultInv, [Next]_vars, ~Faulty
  PROVE  (Stuck' => Stuck) /\ (OpenTail' => OpenTail)
<1>0. TypeInv /\ TypeOK /\ ControlOK /\ PhaseInv /\ KeyInv
  BY DEF CommitInv, TypeInv
<1> USE <1>0 DEF TypeOK, ControlOK, OpenSteps, disk, control, history, Faulty
<1>1. OpenTail' => OpenTail
  BY DEF OpenTail, Next, vars, Initialize, Install, BeginInitialize, InitializeDocument, InitializeIntegrity,
     Begin, Scan, Load, Refuse, Replay, StartCommit, WriteCandidates, CreateManifest, WriteManifest, Inspect,
     WriteTemp, Rename, WriteIntegrity, MarkManifest, AppendAuditEvent, ReplaceAuditHead, Reply,
     CorruptSnapshot, EditOutOfBand, Goto
<1>2. ASSUME Stuck' PROVE Stuck
  <2>1. CASE phase = "none"
    <3>1. ASSUME NEW t \in Tx, CorruptSnapshot(t) PROVE phase' = "none" /\ \A u \in Tx : txns'[u].status = txns[u].status
      BY <2>1, <3>1 DEF CorruptSnapshot, Directory
    <3>2. \/ Initialize \/ Scan \/ Load \/ Refuse \/ Replay \/ StartCommit \/ UNCHANGED vars
          \/ \E r \in Request \cup {NoRequest} : Begin(r)
          \/ \E t \in Tx : CorruptSnapshot(t)
          \/ \E d \in Docs : EditOutOfBand(d)
      <4>1. pc \in OpenSteps
        BY <2>1
      <4>2. QED
        BY <4>1 DEF Next, WriteCandidates, CreateManifest, WriteManifest, Inspect, Install, WriteTemp, Rename,
           WriteIntegrity, MarkManifest, AppendAuditEvent, ReplaceAuditHead, Reply
    <3>4. (phase' = "none" /\ \A t \in Tx : txns'[t].status = txns[t].status) \/ Scan \/ StartCommit
      BY <2>1, <3>1, <3>2 DEF vars, Initialize, BeginInitialize, InitializeDocument, InitializeIntegrity,
         Begin, Load, Refuse, Replay, EditOutOfBand, Goto, End
    <3>5. QED
      BY <1>2, <2>1, <3>4 DEF Stuck, WithStatus, Scan, StartCommit, Goto, End
  <2>2. CASE phase = "commit"
    <3>1. tx \in Tx /\ (pc \in MarkedSteps => \A t \in Tx : txns[t].status # "prepared")
      BY <2>2 DEF PhaseInv, MarkedSteps, Undecided
    <3>2. ASSUME NEW d \in Docs, NEW s \in {"tempBusiness", "tempSoftware"}, WriteTemp(d, s) PROVE FALSE
      <4>1. <<tx, "commit", d>> \notin temps
        <5>1. pc # RenameStep[d]
          BY <3>2, RenameSteps DEF WriteTemp
        <5>2. QED
          BY <2>2, <3>1, <3>2, <5>1, NoOwnTemp
      <4>2. phase' = "commit"
        BY <2>2, <3>2, <4>1 DEF WriteTemp, Goto
      <4>3. QED
        BY <1>2, <4>2 DEF Stuck
    <3>3. ASSUME pc \notin {"tempBusiness", "tempSoftware"}
          PROVE  phase' = "commit" \/ (phase' = "none" /\ UNCHANGED txns /\ pc \in MarkedSteps)
      BY <2>2, <3>3 DEF FaultInv, Undisturbed, MarkedSteps, Next, vars, Initialize, Install, BeginInitialize,
         InitializeDocument, InitializeIntegrity, Begin, Scan, Load, Refuse, Replay, StartCommit, WriteCandidates,
         CreateManifest, WriteManifest, Inspect, WriteTemp, Rename, WriteIntegrity, MarkManifest,
         AppendAuditEvent, ReplaceAuditHead, Reply, CorruptSnapshot, EditOutOfBand, Goto, End, Throw, Audited
    <3>4. ASSUME pc \in {"tempBusiness", "tempSoftware"} PROVE phase' = "commit"
      BY <2>2, <3>2, <3>4 DEF Next, vars, Initialize, Install, BeginInitialize, InitializeDocument,
         InitializeIntegrity, Begin, Scan, Load, Refuse, Replay, StartCommit, WriteCandidates, CreateManifest,
         WriteManifest, Inspect, Rename, WriteIntegrity, MarkManifest, AppendAuditEvent, ReplaceAuditHead,
         Reply, CorruptSnapshot, EditOutOfBand, Docs
    <3>5. QED
      BY <1>2, <3>1, <3>3, <3>4 DEF Stuck, WithStatus
  <2>3. QED
    BY <2>1, <2>2 DEF Stuck, Phases
<1>3. QED
  BY <1>1, <1>2

LEMMA BudgetStep ==
  ASSUME CommitInv, FaultInv, [Next]_vars PROVE Budget'
<1>0. /\ TypeInv /\ TypeOK /\ ControlOK /\ PhaseInv /\ Left \in Nat /\ Left' \in Nat
      /\ Faulty => Left' = Left - 1
      /\ ~Faulty => Left' = Left
  BY LeftStep DEF CommitInv, TypeInv, Faulty
<1>1. ASSUME Stuck \/ OpenTail, Faulty PROVE Budget'
  BY <1>0, <1>1 DEF FaultInv, Budget
<1>2. ASSUME ~Stuck, ~OpenTail, Faulty PROVE ~(Stuck' /\ OpenTail')
  <2>1. CASE Interrupt
    <3>1. ASSUME OpenTail' PROVE pc = "auditHead"
      BY <1>2, <2>1, <3>1 DEF OpenTail, Interrupt, disk
    <3>2. ASSUME pc = "auditHead" PROVE \A t \in Tx : txns[t].status # "prepared"
      BY <1>0, <3>2 DEF ControlOK, OpenSteps, PhaseInv, MarkedSteps, Undecided
    <3>3. phase' = "none" /\ UNCHANGED txns
      BY <2>1 DEF Interrupt, End, disk
    <3>4. QED
      BY <3>1, <3>2, <3>3 DEF Stuck, WithStatus
  <2>2. CASE ForwardStepFails
    BY <1>2, <2>2 DEF ForwardStepFails, Stuck
  <2>3. CASE OtherAppendDies
    BY <1>2, <2>3 DEF OtherAppendDies, Stuck, WithStatus, control
  <2>4. QED
    BY <1>2, <2>1, <2>2, <2>3 DEF Faulty
<1>3. ASSUME ~Stuck, ~OpenTail, Faulty PROVE Budget'
  BY <1>0, <1>2, <1>3 DEF FaultInv, Budget
<1>4. CASE ~Faulty
  BY <1>0, <1>4, NothingLeftBehind DEF FaultInv, Budget
<1>5. QED
  BY <1>1, <1>3, <1>4

TempStep == [business |-> "tempBusiness", software |-> "tempSoftware"]

LEMMA TempSteps ==
  ASSUME NEW d \in Docs
  PROVE  /\ TempStep[d] = IF d = "business" THEN "tempBusiness" ELSE "tempSoftware"
         /\ Order[TempStep[d]] = RenameStep[d]
         /\ \A e \in Docs : RenameStep[d] # TempStep[e] /\ (RenameStep[d] = RenameStep[e] => d = e)
BY DEF TempStep, RenameStep, Order, Docs

\* Temporary files come and go by these two steps, and nothing else leaves a rename.
LEMMA TempsChange ==
  ASSUME [Next]_vars
  PROVE  /\ \/ \E d \in Docs : WriteTemp(d, TempStep[d]) \/ Rename(d, RenameStep[d])
            \/ UNCHANGED temps
         /\ \A d \in Docs : pc = RenameStep[d] =>
               Faulty \/ Rename(d, RenameStep[d]) \/ UNCHANGED vars
<1> USE DEF disk, control, history
<1>1. CASE Install
  <2>1. "business" \in Docs /\ "software" \in Docs
    BY DEF Docs
  <2>2. /\ TempStep["business"] = "tempBusiness" /\ TempStep["software"] = "tempSoftware"
        /\ RenameStep["business"] = "renameBusiness" /\ RenameStep["software"] = "renameSoftware"
    BY DEF TempStep, RenameStep
  <2>3. \A d \in Docs, e \in Docs : WriteTemp(e, TempStep[e]) => pc # RenameStep[d]
    BY TempSteps DEF WriteTemp
  <2>4. ASSUME NEW d \in Docs, NEW e \in Docs, Rename(e, RenameStep[e]), pc = RenameStep[d] PROVE d = e
    <3>1. pc = RenameStep[e]
      BY <2>4 DEF Rename
    <3>2. QED
      BY <2>4, <3>1, TempSteps
  <2>5. \E d \in Docs : WriteTemp(d, TempStep[d]) \/ Rename(d, RenameStep[d])
    BY <1>1, <2>1, <2>2 DEF Install
  <2>6. QED
    BY <2>3, <2>4, <2>5
<1>2. CASE ~Install
  <2>1. UNCHANGED temps
    BY <1>2 DEF Next, vars, Initialize, BeginInitialize, InitializeDocument, InitializeIntegrity,
       Begin, Scan, Load, Refuse, Replay, StartCommit, WriteCandidates, CreateManifest, WriteManifest, Inspect,
       WriteIntegrity, MarkManifest, AppendAuditEvent, ReplaceAuditHead, Reply, Interrupt,
       ForwardStepFails, OtherAppendDies, CorruptSnapshot, EditOutOfBand
  <2>2. ASSUME pc \in {"renameBusiness", "renameSoftware"} PROVE Faulty \/ UNCHANGED vars
    BY <1>2, <2>2 DEF Next, Faulty, Initialize, BeginInitialize, InitializeDocument, InitializeIntegrity,
       Begin, Scan, Load, Refuse, Replay, StartCommit, WriteCandidates, CreateManifest, WriteManifest, Inspect,
       WriteIntegrity, MarkManifest, AppendAuditEvent, ReplaceAuditHead, Reply, CorruptSnapshot, EditOutOfBand
  <2>3. QED
    BY <2>1, <2>2, RenameSteps
<1>3. QED
  BY <1>1, <1>2

LEMMA CommitLeftovers ==
  ASSUME CommitInv, FaultInv, [Next]_vars, NEW t \in Tx, NEW d \in Docs, <<t, "commit", d>> \in temps'
  PROVE  txns'[t].status # "absent" /\ (phase' = "commit" /\ tx' = t => pc' = RenameStep[d])
<1>0. TypeInv /\ TypeOK /\ ControlOK /\ KeyInv
  BY DEF CommitInv, TypeInv
<1>1. <<t, "commit", d>> \in temps =>
         txns[t].status # "absent" /\ (phase = "commit" /\ tx = t => pc = RenameStep[d])
  BY DEF FaultInv, Leftovers
<1>2. CASE WriteCandidates
  <2>1. <<t, "commit", d>> \in temps /\ tx \in Tx /\ tx' = tx /\ txns[tx].status = "absent"
    BY <1>0, <1>2 DEF WriteCandidates, Goto, ControlOK, OpenSteps, KeyInv
  <2>2. t # tx /\ txns'[t] = txns[t]
    BY <1>1, <1>2, <2>1 DEF WriteCandidates
  <2>3. QED
    BY <1>1, <2>1, <2>2
<1>3. ASSUME NEW e \in Docs, WriteTemp(e, TempStep[e])
      PROVE  txns'[t].status # "absent" /\ (phase' = "commit" /\ tx' = t => pc' = RenameStep[d])
  <2>1. /\ pc = TempStep[e] /\ UNCHANGED txns /\ \A c \in Docs : pc # RenameStep[c]
        /\ temps' = temps \/ temps' = temps \cup {<<tx, phase, e>>}
    BY <1>3, TempSteps DEF WriteTemp
  <2>2. phase' = "commit" => phase = "commit" /\ tx' = tx /\ pc' = RenameStep[e]
    BY <1>3, TempSteps, <2>1 DEF WriteTemp, Throw, Goto, End
  <2>3. CASE <<t, "commit", d>> \in temps
    BY <1>1, <2>1, <2>2, <2>3
  <2>4. CASE <<t, "commit", d>> \notin temps
    <3>1. t = tx /\ d = e
      BY <2>1, <2>4
    <3>2. txns[tx].status # "absent"
      BY <1>0, <2>1, TempSteps DEF ControlOK, OpenSteps
    <3>3. QED
      BY <2>1, <2>2, <3>1, <3>2
  <2>5. QED
    BY <2>3, <2>4
<1>4. ASSUME NEW e \in Docs, Rename(e, RenameStep[e])
      PROVE  txns'[t].status # "absent" /\ (phase' = "commit" /\ tx' = t => pc' = RenameStep[d])
  <2>1. /\ pc = RenameStep[e] /\ UNCHANGED <<txns, phase, tx>> /\ temps' = temps \ {<<tx, phase, e>>}
    BY <1>4 DEF Rename, Goto
  <2>2. QED
    BY <1>1, <2>1, TempSteps
<1>5. CASE StartCommit
  <2>1. txns[tx'].status = "absent" /\ UNCHANGED <<txns, temps>>
    BY <1>5 DEF StartCommit, WithStatus, disk
  <2>2. QED
    BY <1>1, <2>1
<1>6. CASE /\ ~WriteCandidates /\ ~StartCommit
           /\ \A e \in Docs : ~WriteTemp(e, TempStep[e]) /\ ~Rename(e, RenameStep[e])
  <2>1. UNCHANGED temps
    BY <1>6, TempsChange
  <2>2. txns'[t].status # "absent"
    BY <1>0, <1>1, <1>6, <2>1, DirectoriesKept
  <2>3. phase' = "commit" /\ tx' = t => phase = "commit" /\ tx = t
    BY <1>6 DEF Next, vars, disk, control, Initialize, Install, BeginInitialize, InitializeDocument,
       InitializeIntegrity, Begin, Scan, Load, Refuse, Replay, CreateManifest, WriteManifest, Inspect,
       WriteTemp, Rename, WriteIntegrity, MarkManifest, AppendAuditEvent, ReplaceAuditHead, Reply, Interrupt,
       ForwardStepFails, OtherAppendDies, CorruptSnapshot, EditOutOfBand, Goto, End, NextManifest, Audited,
       Throw
  <2>4. pc = RenameStep[d] => Faulty \/ UNCHANGED vars
    BY <1>6, TempsChange
  <2>5. Faulty => phase' # "commit" \/ UNCHANGED pc
    BY DEF Faulty, Interrupt, ForwardStepFails, OtherAppendDies, End, Throw, control
  <2>6. QED
    BY <1>1, <2>1, <2>2, <2>3, <2>4, <2>5 DEF vars, control
<1>7. QED
  BY <1>2, <1>3, <1>4, <1>5, <1>6

LEMMA RollbackLeftovers ==
  ASSUME CommitInv, FaultInv, [Next]_vars, NEW t \in Tx, NEW d \in Docs, <<t, "rollback", d>> \in temps'
  PROVE  (phase' = "rollback" /\ tx' = t /\ pc' = RenameStep[d]) \/ (Left' = 0 /\ ~OpenTail')
<1>1. <<t, "rollback", d>> \in temps =>
         (phase = "rollback" /\ tx = t /\ pc = RenameStep[d]) \/ (Left = 0 /\ ~OpenTail)
  BY DEF FaultInv, Leftovers
<1>2. Left \in Nat /\ Left' \in Nat /\ (Faulty => Left' = Left - 1) /\ (~Faulty => Left' = Left)
  BY LeftStep DEF CommitInv, Faulty
<1>3. CASE Faulty
  <2>1. UNCHANGED temps
    BY <1>3 DEF Faulty, Interrupt, ForwardStepFails, OtherAppendDies, disk
  <2>2. phase = "rollback" /\ tx = t /\ pc = RenameStep[d]
    BY <1>1, <1>2, <1>3, <2>1
  <2>3. CASE OtherAppendDies
    BY <2>2, <2>3 DEF OtherAppendDies, control
  <2>4. CASE Interrupt
    <3>1. Stuck /\ ~OpenTail /\ Left' = 0
      BY <1>2, <1>3, <2>2 DEF FaultInv, Budget, Stuck
    <3>2. UNCHANGED auditTail /\ pc # "auditHead"
      BY <2>2, <2>4, RenameSteps DEF Interrupt, disk
    <3>3. QED
      BY <3>1, <3>2 DEF OpenTail
  <2>5. QED
    BY <1>3, <2>2, <2>3, <2>4 DEF Faulty, ForwardStepFails
<1>4. CASE ~Faulty
  <2>1. Left' = Left /\ (OpenTail' => OpenTail)
    BY <1>2, <1>4, NothingLeftBehind
  <2>2. ASSUME NEW e \in Docs, WriteTemp(e, TempStep[e])
        PROVE  (phase' = "rollback" /\ tx' = t /\ pc' = RenameStep[d]) \/ (Left' = 0 /\ ~OpenTail')
    <3>1. pc = TempStep[e] /\ \A c \in Docs : pc # RenameStep[c]
      BY <2>2, TempSteps DEF WriteTemp
    <3>2. CASE <<t, "rollback", d>> \in temps
      BY <1>1, <2>1, <3>1, <3>2
    <3>3. CASE <<t, "rollback", d>> \notin temps
      <4>1. temps' = temps \cup {<<tx, phase, e>>} /\ Goto(Order[pc])
        BY <2>2, <3>3 DEF WriteTemp
      <4>2. t = tx /\ phase = "rollback" /\ d = e
        BY <3>3, <4>1
      <4>3. QED
        BY <3>1, <4>1, <4>2, TempSteps DEF Goto
    <3>4. QED
      BY <3>2, <3>3
  <2>3. ASSUME NEW e \in Docs, Rename(e, RenameStep[e])
        PROVE  (phase' = "rollback" /\ tx' = t /\ pc' = RenameStep[d]) \/ (Left' = 0 /\ ~OpenTail')
    <3>1. pc = RenameStep[e] /\ temps' = temps \ {<<tx, phase, e>>}
      BY <2>3 DEF Rename
    <3>2. ~(phase = "rollback" /\ tx = t /\ pc = RenameStep[d])
      BY <3>1, TempSteps
    <3>3. QED
      BY <1>1, <2>1, <3>1, <3>2
  <2>4. CASE \A e \in Docs : ~WriteTemp(e, TempStep[e]) /\ ~Rename(e, RenameStep[e])
    BY <1>1, <1>4, <2>1, <2>4, TempsChange DEF vars, control
  <2>5. QED
    BY <2>2, <2>3, <2>4
<1>5. QED
  BY <1>3, <1>4

LEMMA UndisturbedStep ==
  ASSUME CommitInv, FaultInv, [Next]_vars PROVE Undisturbed'
<1>0. TypeInv /\ TypeOK /\ ControlOK /\ PhaseInv
  BY DEF CommitInv, TypeInv
<1>1. Left \in Nat /\ Left' \in Nat /\ (Faulty => Left' = Left - 1) /\ (~Faulty => Left' = Left)
  BY <1>0, LeftStep DEF Faulty
<1>2. phase' = "commit" => pc' # "inspect"
  BY DEF FaultInv, Undisturbed, Next, vars, disk, control, Initialize, Install, BeginInitialize, InitializeDocument,
     InitializeIntegrity, Begin, Scan, Load, Refuse, Replay, StartCommit, WriteCandidates, CreateManifest,
     WriteManifest, Inspect, WriteTemp, Rename, WriteIntegrity, MarkManifest, AppendAuditEvent,
     ReplaceAuditHead, Reply, Interrupt, ForwardStepFails, OtherAppendDies, CorruptSnapshot, EditOutOfBand,
     Goto, End, NextManifest, Audited, Throw, Order
<1>3. ASSUME UndoesWhatItMarked'
      PROVE  Left' = 0 /\ \A d \in Docs : <<tx', "rollback", d>> \in temps' => pc' = RenameStep[d]
  <2>1. phase' = "rollback" /\ txns'[tx'].status = "committed"
    BY <1>3 DEF UndoesWhatItMarked
  <2>2. /\ tx' = tx /\ phase \in {"forward", "rollback"} /\ UNCHANGED txns
        /\ phase = "forward" /\ ~ForwardStepFails => pc \in InstallSteps \/ (AppendAuditEvent /\ auditTail)
    <3>1. ~Initialize /\ ~Load /\ ~Refuse /\ ~Replay /\ ~StartCommit /\ ~WriteCandidates /\ ~CreateManifest
          /\ ~WriteManifest /\ ~MarkManifest /\ ~ReplaceAuditHead /\ ~Reply /\ ~Interrupt
          /\ (\A r \in Request \cup {NoRequest} : ~Begin(r)) /\ ~Scan
          /\ (\A t \in Tx : ~CorruptSnapshot(t)) /\ (\A d \in Docs : ~EditOutOfBand(d))
      BY <1>0, <2>1 DEF ControlOK, OpenSteps, PhaseInv, InstallSteps, MarkedSteps, Initialize, BeginInitialize,
         InitializeDocument, InitializeIntegrity, Begin, Scan, Load, Refuse, Replay, StartCommit, WriteCandidates,
         CreateManifest, WriteManifest, MarkManifest, ReplaceAuditHead, Reply, Interrupt, CorruptSnapshot,
         EditOutOfBand, Goto, End, NextManifest, Audited, control
    <3>2. CASE Inspect \/ Install \/ WriteIntegrity
      BY <2>1, <3>2 DEF Inspect, Install, WriteTemp, Rename, WriteIntegrity, Goto, Throw, End, InstallSteps, disk
    <3>3. CASE AppendAuditEvent
      BY <1>0, <2>1, <3>3 DEF AppendAuditEvent, PhaseInv, MarkedSteps, Audited, NextManifest, Goto, Throw, End
    <3>4. CASE ForwardStepFails \/ OtherAppendDies \/ UNCHANGED vars
      BY <1>0, <2>1, <3>4 DEF ForwardStepFails, OtherAppendDies, Throw, vars, disk, control, PhaseInv, UndoesWhatItMarked
    <3>5. QED
      BY <3>1, <3>2, <3>3, <3>4 DEF Next
  <2>3. tx \in Tx /\ txns[tx].status = "committed" /\ Stuck
    BY <1>0, <2>1, <2>2 DEF ControlOK, OpenSteps, Stuck
  <2>4. CASE phase = "rollback"
    <3>1. /\ Left = 0 /\ Left' = 0 /\ ~Faulty
          /\ \A d \in Docs : <<tx, "rollback", d>> \in temps => pc = RenameStep[d]
      BY <1>1, <2>3, <2>4 DEF FaultInv, Undisturbed, UndoesWhatItMarked
    <3>2. ASSUME NEW d \in Docs, <<tx, "rollback", d>> \in temps' PROVE pc' = RenameStep[d]
      <4>1. ASSUME NEW e \in Docs, WriteTemp(e, TempStep[e]) PROVE pc' = RenameStep[d]
        <5>1. pc = TempStep[e] /\ \A c \in Docs : pc # RenameStep[c]
          BY <4>1, TempSteps DEF WriteTemp
        <5>2. <<tx, "rollback", d>> \notin temps /\ <<tx, "rollback", e>> \notin temps
          BY <3>1, <5>1
        <5>3. temps' = temps \cup {<<tx, phase, e>>} /\ Goto(Order[pc])
          BY <2>4, <4>1, <5>2 DEF WriteTemp
        <5>4. d = e
          BY <3>2, <5>2, <5>3
        <5>5. QED
          BY <5>1, <5>3, <5>4, TempSteps DEF Goto
      <4>2. ASSUME NEW e \in Docs, Rename(e, RenameStep[e]) PROVE FALSE
        <5>1. pc = RenameStep[e] /\ temps' = temps \ {<<tx, "rollback", e>>}
          BY <2>4, <4>2 DEF Rename
        <5>2. QED
          BY <3>1, <3>2, <5>1, TempSteps
      <4>3. CASE \A e \in Docs : ~WriteTemp(e, TempStep[e]) /\ ~Rename(e, RenameStep[e])
        BY <3>1, <3>2, <4>3, TempsChange DEF vars, control
      <4>4. QED
        BY <4>1, <4>2, <4>3
    <3>3. QED
      BY <2>2, <3>1, <3>2
  <2>5. CASE phase = "forward"
    <3>1. CASE ForwardStepFails
      <4>1. Left = 1 /\ Left' = 0 /\ UNCHANGED temps
        BY <1>1, <2>3, <3>1 DEF Faulty, FaultInv, Budget, ForwardStepFails, disk
      <4>2. \A d \in Docs : <<tx, "rollback", d>> \notin temps
        BY <2>3, <2>5, <4>1 DEF FaultInv, Leftovers
      <4>3. QED
        BY <2>2, <4>1, <4>2
    <3>2. CASE AppendAuditEvent /\ auditTail /\ ~ForwardStepFails
      <4>1. OpenTail /\ ~Faulty /\ UNCHANGED temps
        BY <2>1, <2>5, <3>2 DEF OpenTail, AppendAuditEvent, Faulty, Interrupt, OtherAppendDies, End, control
      <4>2. Left = 0 /\ Left' = 0
        BY <1>1, <2>3, <4>1 DEF FaultInv, Budget
      <4>3. \A d \in Docs : <<tx, "rollback", d>> \notin temps
        BY <2>3, <2>5, <4>1 DEF FaultInv, Leftovers
      <4>4. QED
        BY <2>2, <4>1, <4>2, <4>3
    <3>3. CASE pc \in InstallSteps /\ ~ForwardStepFails
      BY <1>0, <2>3, <2>5, <3>3 DEF PhaseInv
    <3>4. QED
      BY <2>5, <2>2, <3>1, <3>2, <3>3
  <2>6. QED
    BY <2>4, <2>5, <2>2
<1>4. QED
  BY <1>2, <1>3 DEF Undisturbed

LEMMA FaultInvStep ==
  ASSUME CommitInv, FaultInv, [Next]_vars PROVE FaultInv'
<1>1. Leftovers'
  BY CommitLeftovers, RollbackLeftovers DEF Leftovers
<1>2. QED
  BY <1>1, BudgetStep, UndisturbedStep DEF FaultInv

LEMMA FaultInvInit == ASSUME TwoFaults, Init PROVE FaultInv
<1>1. Left <= 2
  BY DEF TwoFaults, Init, Left
<1>2. WithStatus("prepared") = {}
  BY DEF Init, NoDirectory, WithStatus
<1>3. QED
  BY <1>1, <1>2 DEF Init, FaultInv, Budget, Stuck, OpenTail, Leftovers, Undisturbed, UndoesWhatItMarked

\* Nothing stops an undoing that has begun to replace documents.
LEMMA EntirelyStep == ASSUME CommitInv, FaultInv, [Next]_vars PROVE [Entirely]_vars
<1> SUFFICES ASSUME UndoesWhatItMarked, pc \in BusinessInstalled, phase' # "rollback"
             PROVE  txns'[tx].status = "rolled-back"
  BY DEF Entirely
<1>1. /\ TypeOK /\ tx \in Tx /\ phase = "rollback" /\ pc \in InstallSteps
      /\ Left = 0 /\ \A d \in Docs : <<tx, "rollback", d>> \in temps => pc = RenameStep[d]
  BY DEF CommitInv, TypeInv, ControlOK, PhaseInv, FaultInv, Undisturbed, UndoesWhatItMarked
<1>2. ~Faulty
  BY <1>1, LeftStep DEF CommitInv, Faulty
<1>3. ASSUME NEW d \in Docs, WriteTemp(d, TempStep[d]) PROVE FALSE
  <2>1. <<tx, "rollback", d>> \notin temps
    BY <1>1, <1>3, TempSteps DEF WriteTemp
  <2>2. QED
    BY <1>1, <1>3, <2>1 DEF WriteTemp, Goto
<1>4. CASE MarkManifest
  BY <1>1, <1>4 DEF MarkManifest, TypeOK, Directory
<1>5. CASE ~MarkManifest
  <2>1. ~Install
    <3>1. ~WriteTemp("business", "tempBusiness") /\ ~WriteTemp("software", "tempSoftware")
      BY <1>3 DEF TempStep, Docs
    <3>2. QED
      BY <1>1, <3>1 DEF Install, Rename, Goto
  <2>2. QED
    BY <1>1, <1>2, <1>5, <2>1 DEF Faulty, BusinessInstalled, MarkedSteps, InstallSteps, Next, vars, disk, control,
       Initialize, BeginInitialize, InitializeDocument, InitializeIntegrity, Begin, Scan, Load, Refuse, Replay,
       StartCommit, WriteCandidates, CreateManifest, WriteManifest, Inspect, WriteIntegrity, AppendAuditEvent,
       ReplaceAuditHead, Reply, CorruptSnapshot, EditOutOfBand, Goto
<1>6. QED
  BY <1>4, <1>5

\* With at most two crashes and errors in all, and any number of damages, recovery
\* undoes what it has marked committed entirely or not at all.
THEOREM TwoFaultsAreUndone == ASSUME TwoFaults PROVE Spec => UndoneEntirely
<1>1. Init => FaultInv
  BY FaultInvInit
<1>2. CommitInv /\ FaultInv /\ [Next]_vars => FaultInv' /\ [Entirely]_vars
  BY FaultInvStep, EntirelyStep
<1>3. QED
  BY <1>1, <1>2, CommitInvInit, CommitInvStep, PTL DEF Spec, UndoneEntirely

\* So with at most two of them, acknowledged requests are durable without a proviso.
THEOREM TwoFaultsLoseNothing == ASSUME TwoFaults PROVE Spec => []AckedIsDurable
BY AcknowledgedStays, TwoFaultsAreUndone, PTL

\* With at most two of them the protocol implements the atomic register.
THEOREM TwoFaultsRefine == ASSUME TwoFaults PROVE Spec => ImplementsAtomicRepository
BY Refinement, TwoFaultsAreUndone, PTL

\* With at most two of them a repository in which nothing is left prepared loads.
THEOREM TwoFaultsSettle == ASSUME TwoFaults PROVE Spec => []SettledMeansLoadable
BY RecoverySettles, TwoFaultsAreUndone, PTL
=============================================================================
