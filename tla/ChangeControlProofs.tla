------------------------ MODULE ChangeControlProofs ------------------------
(***************************************************************************)
(* Proofs of ChangeControl: its type invariant and its five safety         *)
(* invariants, for any policy, contents, scenarios and files.              *)
(*                                                                         *)
(* A command composes operations on documents, so the argument is about    *)
(* documents first.  Sound(d, ch, assessment, S) is what the invariants    *)
(* say, at any point inside a command that implements change ch: links     *)
(* outside S are being reassessed.  A step from d to e keeps it when it is *)
(*   - still: no command changed what is relied on, and no trust is asked  *)
(*     for that d did not have or the present does not justify, or         *)
(*   - told: what a command changed is marked suspect, stale or            *)
(*     source-changed wherever something relies on it, and what is         *)
(*     protected was changed as the change proposed.                       *)
(* Sequences of operations are followed by induction over their length     *)
(* (LeastMember, Reaches).  Commands commit one sound result; a commit of  *)
(* a preview is sound because a preview of the current revision was made   *)
(* from the current documents (PreviewInv).                                *)
(***************************************************************************)
EXTENDS ChangeControl, WellFoundedInduction, TLAPS

\* Versions are only added.
Extends(d, e) ==
    /\ Ids(d) \subseteq Ids(e)
    /\ \A id \in Ids(d) :
         /\ Version(d, id) <= Version(e, id)
         /\ \A v \in 1..Version(d, id) : e.requirements[id].log[v] = d.requirements[id].log[v]
    /\ \A id \in Ids(e) \ Ids(d) : Version(e, id) = 1

\* No command changed this part of a requirement since d.
Unchanged(d, e, part) ==
    \A id \in Ids(d) : \A v \in Version(d, id) + 1 .. Version(e, id) : ~ChangedByCommand(e, part, id, v)

\* A step of a command, from documents d to e, that asks for no new trust.  S holds
\* the links whose assessment stands.
LogsKept(d, e) == Extends(d, e) /\ Unchanged(d, e, Material) /\ Unchanged(d, e, Evidential)

LinksKept(d, e, S) ==
    \A n \in S :
        /\ n \in DOMAIN e.relationships
        /\ e.relationships[n].source = d.relationships[n].source
        /\ e.relationships[n].target = d.relationships[n].target
        /\ Active(e.relationships[n]) /\ ~e.relationships[n].suspect =>
             Active(d.relationships[n]) /\ ~d.relationships[n].suspect

EvidenceKept(d, e) ==
    \A x \in e.evidence : x.stale \/ x \in d.evidence \/ x.recordedAt = Version(e, x.requirement)

\* A use whose record asks for trust.
Current(reuse) == reuse # NoReuse /\ reuse.state = "current" /\ reuse.version <= reuse.since

\* A reuse record written on the documents d.
Written(d, reuse) ==
    reuse # NoReuse /\ reuse.since > 0 => reuse.origin \in Ids(d) /\ reuse.since = Version(d, reuse.origin)

UsesKept(d, e) ==
    \A use \in Ids(e) : LET reuse == e.requirements[use].reuse IN
        Current(reuse) => \/ use \in Ids(d) /\ d.requirements[use].reuse = reuse
                          \/ UnchangedSince(e, Material, reuse.origin, reuse.since)

Quiet(d, e, S) ==
    /\ LogsKept(d, e) /\ LinksKept(d, e, S) /\ EvidenceKept(d, e) /\ UsesKept(d, e)
    /\ e.memberships = d.memberships /\ e.changes = d.changes

\* What holds of the documents at every step of a command: ch is the change that is
\* being implemented, 0 if none is; assessment is assessed before the command.
GovernedBut(d, ch) ==
    \A id \in Ids(d) : \A v \in 2..Version(d, id) :
        ChangedByCommand(d, Material, id, v) /\ Protected(d, id, v - 1)
        => \E c \in DOMAIN d.changes : (Implemented(d, c) \/ c = ch) /\ Proposed(d, c, id, v)

Trusted(d, assessment, S) ==
    \A n \in S : LET link == d.relationships[n] IN
        Active(link) /\ ~link.suspect =>
            /\ UnchangedSince(d, Material, link.source, assessment[n].source)
            /\ UnchangedSince(d, Material, link.target, assessment[n].target)

Assessment(assessment, S) ==
    \A n \in S : assessment[n].source \in Nat \ {0} /\ assessment[n].target \in Nat \ {0}

Sound(d, ch, assessment, S) ==
    /\ Typed(d) /\ S \subseteq DOMAIN d.relationships
    /\ GovernedBut(d, ch)
    /\ Trusted(d, assessment, S)
    /\ EvidenceRecordedSince(d)
    /\ UsesFollowSource(d)
    /\ AsApproved(d)

----------------------------------------------------------------------------
(* Logs.                                                                   *)

LEMMA LogType ==
  ASSUME NEW d, Typed(d), NEW id \in Ids(d)
  PROVE  /\ d.requirements[id] \in RequirementRecord
         /\ d.requirements[id].log \in Seq(VersionEntry) /\ Version(d, id) \in Nat \ {0}
         /\ Item(d, id) = d.requirements[id].log[Version(d, id)] /\ Item(d, id) \in VersionEntry
         /\ \A v \in 1..Version(d, id) : d.requirements[id].log[v] \in VersionEntry
<1>1. d.requirements[id] \in RequirementRecord
  BY DEF Typed, Ids
<1>2. d.requirements[id].log \in Seq(VersionEntry)
  BY <1>1 DEF RequirementRecord
<1>3. Version(d, id) \in Nat \ {0}
  BY <1>2 DEF Typed, Version
<1>4. QED
  BY <1>1, <1>2, <1>3 DEF Item, Version, Last

LEMMA ReuseType ==
  ASSUME NEW reuse \in ReuseRecord, reuse # NoReuse
  PROVE  reuse.origin \in Nat /\ reuse.version \in Nat \ {0} /\ reuse.since \in Nat
BY DEF ReuseRecord

LEMMA CurrentUse ==
  ASSUME NEW d, Typed(d), NEW use \in Ids(d), Current(d.requirements[use].reuse)
  PROVE  LET reuse == d.requirements[use].reuse IN
         /\ reuse # NoReuse /\ reuse.state = "current" /\ reuse.version <= reuse.since
         /\ reuse.version \in Nat /\ reuse.since \in Nat \ {0}
         /\ reuse.origin \in Ids(d) /\ reuse.since \in 1..Version(d, reuse.origin)
<1> DEFINE reuse == d.requirements[use].reuse
<1>1. reuse \in ReuseRecord /\ reuse # NoReuse /\ reuse.state = "current" /\ reuse.version <= reuse.since
  BY LogType DEF RequirementRecord, Current
<1>2. reuse.version \in Nat \ {0} /\ reuse.since \in Nat
  BY <1>1, ReuseType
<1>3. reuse.since > 0
  BY <1>1, <1>2
<1>4. reuse.origin \in Ids(d) /\ reuse.since \in 1..Version(d, reuse.origin)
  BY <1>1, <1>3 DEF Typed
<1>5. QED
  BY <1>1, <1>2, <1>3, <1>4

\* What was written stays written.
LEMMA ChangedSame ==
  ASSUME NEW d, NEW e, Typed(d), Extends(d, e), NEW part, NEW id \in Ids(d), NEW v \in 2..Version(d, id)
  PROVE  /\ ChangedByCommand(e, part, id, v) <=> ChangedByCommand(d, part, id, v)
         /\ e.requirements[id].log[v] = d.requirements[id].log[v]
         /\ e.requirements[id].log[v - 1] = d.requirements[id].log[v - 1]
<1>1. Version(d, id) \in Nat /\ v \in 1..Version(d, id) /\ v - 1 \in 1..Version(d, id)
  BY LogType
<1>2. /\ e.requirements[id].log[v] = d.requirements[id].log[v]
      /\ e.requirements[id].log[v - 1] = d.requirements[id].log[v - 1]
  BY <1>1 DEF Extends
<1>3. QED
  BY <1>2 DEF ChangedByCommand

LEMMA SinceKept ==
  ASSUME NEW d, NEW e, Typed(d), Typed(e), Extends(d, e), NEW part, NEW id \in Ids(d),
         NEW version \in Nat \ {0}, UnchangedSince(d, part, id, version),
         \A v \in Version(d, id) + 1 .. Version(e, id) : ~ChangedByCommand(e, part, id, v)
  PROVE  UnchangedSince(e, part, id, version)
<1>1. Version(d, id) \in Nat /\ Version(e, id) \in Nat /\ id \in Ids(e)
  BY LogType DEF Extends
<1>2. SUFFICES ASSUME NEW v \in version + 1 .. Version(e, id) PROVE ~ChangedByCommand(e, part, id, v)
  BY DEF UnchangedSince
<1>3. CASE v > Version(d, id)
  BY <1>1, <1>3
<1>4. CASE v <= Version(d, id)
  <2>1. v \in 2..Version(d, id) /\ v \in version + 1 .. Version(d, id)
    BY <1>1, <1>4
  <2>2. QED
    BY <2>1, ChangedSame DEF UnchangedSince
<1>5. QED
  BY <1>1, <1>3, <1>4

LEMMA SinceNow ==
  ASSUME NEW d, Typed(d), NEW part, NEW id \in Ids(d)
  PROVE  UnchangedSince(d, part, id, Version(d, id))
<1>1. Version(d, id) \in Nat
  BY LogType
<1>2. QED
  BY <1>1 DEF UnchangedSince

----------------------------------------------------------------------------
(* A quiet step keeps the documents sound.                                 *)

LEMMA DoneKept ==
  ASSUME NEW d, NEW e, Typed(d), Typed(e), Extends(d, e), NEW p, p.expectedVersion \in Nat, Done(d, p)
  PROVE  Done(e, p)
<1> DEFINE id == p.id  v == p.expectedVersion  old == d.requirements[id].log  new == e.requirements[id].log
<1>1. id \in Ids(d) /\ id \in Ids(e)
  BY DEF Done, Extends
<1>2. old \in Seq(VersionEntry) /\ new \in Seq(VersionEntry)
  BY <1>1, LogType
<1>3. Len(old) <= Len(new) /\ \A k \in 1..Len(old) : new[k] = old[k]
  BY <1>1 DEF Extends, Version
<1>4. v \in 1..Len(old) /\ v \in DOMAIN new /\ Len(old) \in Nat /\ Len(new) \in Nat
  <2>1. v \in DOMAIN old
    BY DEF Done
  <2> HIDE DEF old, new, v
  <2>2. QED
    BY <1>2, <1>3, <2>1
<1>5. CASE p.op = "update" /\ old[v].content = p.patch
  BY <1>1, <1>3, <1>4, <1>5 DEF Done
<1>6. CASE ~(p.op = "update" /\ old[v].content = p.patch)
  <2>1. Len(old) > v
    BY <1>6 DEF Done
  <2>2. v + 1 \in 1..Len(old) /\ Len(new) > v
    <3> HIDE DEF old, new, v
    <3>1. QED
      BY <1>3, <1>4, <2>1
  <2>3. new[v + 1] = old[v + 1]
    BY <1>3, <2>2
  <2>4. QED
    BY <1>1, <1>4, <1>6, <2>2, <2>3 DEF Done
<1>7. QED
  BY <1>5, <1>6

LEMMA GovernedKept ==
  ASSUME NEW d, NEW e, Typed(d), Typed(e), Extends(d, e), NEW ch, GovernedBut(d, ch),
         e.memberships = d.memberships, e.changes = d.changes,
         \A id \in Ids(d) : \A v \in Version(d, id) + 1 .. Version(e, id) :
             ChangedByCommand(e, Material, id, v) /\ Protected(e, id, v - 1)
             => \E c \in DOMAIN e.changes : (Implemented(e, c) \/ c = ch) /\ Proposed(e, c, id, v)
  PROVE  GovernedBut(e, ch)
<1> SUFFICES ASSUME NEW id \in Ids(e), NEW v \in 2..Version(e, id),
                    ChangedByCommand(e, Material, id, v), Protected(e, id, v - 1)
             PROVE  \E c \in DOMAIN e.changes : (Implemented(e, c) \/ c = ch) /\ Proposed(e, c, id, v)
  BY DEF GovernedBut
<1>1. id \in Ids(d)
  <2>1. Version(e, id) # 1
    BY LogType
  <2>2. QED
    BY <2>1 DEF Extends
<1>2. Version(d, id) \in Nat /\ Version(e, id) \in Nat
  BY <1>1, LogType
<1>3. CASE v > Version(d, id)
  BY <1>1, <1>2, <1>3
<1>4. CASE v <= Version(d, id)
  <2>1. v \in 2..Version(d, id)
    BY <1>2, <1>4
  <2>2. /\ ChangedByCommand(d, Material, id, v)
        /\ e.requirements[id].log[v] = d.requirements[id].log[v]
        /\ e.requirements[id].log[v - 1] = d.requirements[id].log[v - 1]
    BY <1>1, <2>1, ChangedSame
  <2>3. Protected(d, id, v - 1)
    BY <2>2 DEF Protected, BaselineMemberships
  <2>4. PICK c \in DOMAIN d.changes : (Implemented(d, c) \/ c = ch) /\ Proposed(d, c, id, v)
    BY <1>1, <2>1, <2>2, <2>3 DEF GovernedBut
  <2>5. QED
    BY <2>2, <2>4 DEF Implemented, Proposed
<1>5. QED
  BY <1>2, <1>3, <1>4

LEMMA ApprovedKept ==
  ASSUME NEW d, NEW e, Typed(d), Typed(e), Extends(d, e), AsApproved(d), e.changes = d.changes
  PROVE  AsApproved(e)
<1> SUFFICES ASSUME NEW ch \in DOMAIN e.changes, Implemented(e, ch),
                    NEW n \in Targeted(e.changes[ch].proposals)
             PROVE  Done(e, e.changes[ch].proposals[n])
  BY DEF AsApproved
<1>1. ch \in DOMAIN d.changes /\ Implemented(d, ch) /\ n \in Targeted(d.changes[ch].proposals)
  BY DEF Implemented
<1>2. Done(d, d.changes[ch].proposals[n])
  BY <1>1 DEF AsApproved
<1>3. d.changes[ch].proposals \in Seq(Operation)
  BY <1>1 DEF Typed
<1>4. d.changes[ch].proposals[n] \in Operation /\ d.changes[ch].proposals[n].op # "create"
  BY <1>1, <1>3 DEF Targeted
<1>5. d.changes[ch].proposals[n].expectedVersion \in Nat
  BY <1>4 DEF Operation
<1>6. QED
  BY <1>2, <1>5, DoneKept

LEMMA QuietSound ==
  ASSUME NEW d, NEW e, NEW ch, NEW assessment, NEW S,
         Sound(d, ch, assessment, S), Assessment(assessment, S), Typed(e), Quiet(d, e, S)
  PROVE  Sound(e, ch, assessment, S)
<1> USE DEF Quiet, LogsKept
<1>1. Typed(d) /\ S \subseteq DOMAIN d.relationships
  BY DEF Sound
<1>2. GovernedBut(e, ch)
  BY <1>1, GovernedKept DEF Sound, Unchanged
<1>3. AsApproved(e)
  BY <1>1, ApprovedKept DEF Sound
<1>4. Trusted(e, assessment, S)
  <2> SUFFICES ASSUME NEW n \in S, Active(e.relationships[n]), ~e.relationships[n].suspect
               PROVE  /\ UnchangedSince(e, Material, e.relationships[n].source, assessment[n].source)
                      /\ UnchangedSince(e, Material, e.relationships[n].target, assessment[n].target)
    BY DEF Trusted
  <2> DEFINE source == d.relationships[n].source  target == d.relationships[n].target
  <2>1. /\ e.relationships[n].source = source /\ e.relationships[n].target = target
        /\ Active(d.relationships[n]) /\ ~d.relationships[n].suspect
    BY DEF LinksKept
  <2>2. source \in Ids(d) /\ target \in Ids(d)
    BY <1>1 DEF Typed
  <2>3. assessment[n].source \in Nat \ {0} /\ assessment[n].target \in Nat \ {0}
    BY DEF Assessment
  <2>4. /\ UnchangedSince(d, Material, source, assessment[n].source)
        /\ UnchangedSince(d, Material, target, assessment[n].target)
    BY <2>1 DEF Sound, Trusted
  <2>5. QED
    BY <1>1, <2>1, <2>2, <2>3, <2>4, SinceKept DEF Unchanged
<1>5. EvidenceRecordedSince(e)
  <2> SUFFICES ASSUME NEW x \in e.evidence, ~x.stale
               PROVE  UnchangedSince(e, Evidential, x.requirement, x.recordedAt)
    BY DEF EvidenceRecordedSince
  <2>1. CASE x \in d.evidence
    <3>1. x.requirement \in Ids(d) /\ x.recordedAt \in Nat \ {0}
      BY <1>1, <2>1, LogType DEF Typed
    <3>2. UnchangedSince(d, Evidential, x.requirement, x.recordedAt)
      BY <2>1 DEF Sound, EvidenceRecordedSince
    <3>3. QED
      BY <1>1, <3>1, <3>2, SinceKept DEF Unchanged
  <2>2. CASE x.recordedAt = Version(e, x.requirement)
    <3>1. x.requirement \in Ids(e)
      BY DEF Typed
    <3>2. QED
      BY <2>2, <3>1, SinceNow
  <2>3. QED
    BY <2>1, <2>2 DEF EvidenceKept
<1>6. UsesFollowSource(e)
  <2> SUFFICES ASSUME NEW use \in Ids(e), Current(e.requirements[use].reuse)
               PROVE  UnchangedSince(e, Material, e.requirements[use].reuse.origin, e.requirements[use].reuse.since)
    BY DEF UsesFollowSource, Current
  <2> DEFINE reuse == e.requirements[use].reuse
  <2>1. CASE use \in Ids(d) /\ d.requirements[use].reuse = reuse
    <3>1. reuse.origin \in Ids(d) /\ reuse.since \in Nat \ {0}
      BY <1>1, <2>1, CurrentUse
    <3>2. UnchangedSince(d, Material, reuse.origin, reuse.since)
      BY <2>1 DEF Sound, UsesFollowSource, Current
    <3>3. QED
      BY <1>1, <3>1, <3>2, SinceKept DEF Unchanged
  <2>2. QED
    BY <2>1 DEF UsesKept
<1>7. S \subseteq DOMAIN e.relationships
  BY DEF LinksKept
<1>8. QED
  BY <1>2, <1>3, <1>4, <1>5, <1>6, <1>7 DEF Sound

----------------------------------------------------------------------------
(* The operations on documents.                                            *)

Entry(content, status, by) == [content |-> content, status |-> status, by |-> by]

LEMMA EntryType ==
  ASSUME NEW content \in Contents, NEW status \in Statuses, NEW by \in {"command", "import", "propagation"}
  PROVE  LET x == Entry(content, status, by) IN
         x \in VersionEntry /\ x.content = content /\ x.status = status /\ x.by = by
BY DEF Entry, VersionEntry

Bumped(d, e, id, x) ==
    /\ DOMAIN e = DOMAIN d
    /\ e.relationships = d.relationships /\ e.evidence = d.evidence
    /\ e.memberships = d.memberships /\ e.changes = d.changes
    /\ e.requirements \in Seq(RequirementRecord) /\ Ids(e) = Ids(d)
    /\ \A i \in Ids(d) \ {id} : e.requirements[i] = d.requirements[i]
    /\ e.requirements[id].log = Append(d.requirements[id].log, x)
    /\ e.requirements[id].reuse = d.requirements[id].reuse /\ e.requirements[id].ai = d.requirements[id].ai

LEMMA BumpEffect ==
  ASSUME NEW d, Typed(d), NEW id \in Ids(d), NEW content \in Contents, NEW status \in Statuses,
         NEW by \in {"command", "import", "propagation"}, NEW e, e = Bump(d, id, content, status, by)
  PROVE  Bumped(d, e, id, Entry(content, status, by))
<1> DEFINE new == Entry(content, status, by)
           r == [d.requirements[id] EXCEPT !.log = Append(@, new)]
<1>1. new \in VersionEntry
  BY EntryType
<1>2. /\ r \in RequirementRecord /\ r.log = Append(d.requirements[id].log, new)
      /\ r.reuse = d.requirements[id].reuse /\ r.ai = d.requirements[id].ai
  <2> HIDE DEF new
  <2>1. Append(d.requirements[id].log, new) \in Seq(VersionEntry)
    BY <1>1, LogType
  <2>2. d.requirements[id] \in RequirementRecord
    BY LogType
  <2>3. QED
    BY <2>1, <2>2 DEF RequirementRecord
<1> HIDE DEF r
<1>3. e = [d EXCEPT !.requirements = [@ EXCEPT ![id] = r]]
  BY DEF Bump, Entry, r
<1>4. /\ DOMAIN e = DOMAIN d
      /\ e.relationships = d.relationships /\ e.evidence = d.evidence
      /\ e.memberships = d.memberships /\ e.changes = d.changes
      /\ e.requirements = [d.requirements EXCEPT ![id] = r]
  BY <1>3 DEF Typed
<1>5. d.requirements \in Seq(RequirementRecord) /\ id \in DOMAIN d.requirements
  BY DEF Typed, Ids
<1>6. /\ e.requirements \in Seq(RequirementRecord) /\ Ids(e) = Ids(d)
      /\ \A i \in Ids(d) \ {id} : e.requirements[i] = d.requirements[i]
      /\ e.requirements[id] = r
  BY <1>2, <1>4, <1>5 DEF Ids
<1>7. QED
  BY <1>2, <1>4, <1>6 DEF Bumped

\* A log that grows by at most one version.
Longer(d, e, id, x) ==
    \/ e.requirements[id].log = d.requirements[id].log
    \/ e.requirements[id].log = Append(d.requirements[id].log, x)

LEMMA LogGrows ==
  ASSUME NEW d, NEW e, Typed(d), NEW id \in Ids(d), NEW x \in VersionEntry, Longer(d, e, id, x)
  PROVE  /\ Version(d, id) <= Version(e, id)
         /\ \A v \in 1..Version(d, id) : e.requirements[id].log[v] = d.requirements[id].log[v]
<1> DEFINE old == d.requirements[id].log  new == e.requirements[id].log
<1>1. old \in Seq(VersionEntry) /\ Len(old) \in Nat \ {0} /\ Item(d, id) = old[Len(old)]
  BY LogType DEF Version
<1>2. new = old \/ new = Append(old, x)
  BY DEF Longer
<1>3. Len(old) <= Len(new) /\ \A v \in 1..Len(old) : new[v] = old[v]
  <2> HIDE DEF old, new
  <2>1. QED
    BY <1>1, <1>2
<1>4. QED
  BY <1>1, <1>3 DEF Version

LEMMA NewVersion ==
  ASSUME NEW d, NEW e, Typed(d), NEW id \in Ids(d), NEW x \in VersionEntry, Longer(d, e, id, x),
         NEW v \in Version(d, id) + 1 .. Version(e, id)
  PROVE  /\ v = Version(d, id) + 1 /\ v \in 2..Version(e, id)
         /\ e.requirements[id].log[v] = x /\ e.requirements[id].log[v - 1] = Item(d, id)
<1> DEFINE old == d.requirements[id].log  new == e.requirements[id].log
<1>1. old \in Seq(VersionEntry) /\ Len(old) \in Nat \ {0} /\ Item(d, id) = old[Len(old)]
  BY LogType DEF Version
<1>2. new = old \/ new = Append(old, x)
  BY DEF Longer
<1>3. \A n \in Len(old) + 1 .. Len(new) :
        n = Len(old) + 1 /\ n \in 2..Len(new) /\ new[n] = x /\ new[n - 1] = old[Len(old)]
  <2> HIDE DEF old, new
  <2>1. QED
    BY <1>1, <1>2
<1>4. QED
  BY <1>1, <1>3 DEF Version

LEMMA LogQuiet ==
  ASSUME NEW d, NEW e, Typed(d), NEW id \in Ids(d), NEW x \in VersionEntry, Longer(d, e, id, x),
         x.by # "command" \/ x.content = Item(d, id).content
  PROVE  \A part : \A v \in Version(d, id) + 1 .. Version(e, id) : ~ChangedByCommand(e, part, id, v)
<1> SUFFICES ASSUME NEW part, NEW v \in Version(d, id) + 1 .. Version(e, id)
             PROVE  ~ChangedByCommand(e, part, id, v)
  OBVIOUS
<1>1. e.requirements[id].log[v] = x /\ e.requirements[id].log[v - 1] = Item(d, id)
  BY NewVersion
<1>2. QED
  BY <1>1 DEF ChangedByCommand

\* Logs that grow by what no command changed.
Grown(d, e) ==
    /\ Ids(e) = Ids(d)
    /\ \A id \in Ids(d) : \E x \in VersionEntry :
         Longer(d, e, id, x) /\ (x.by # "command" \/ x.content = Item(d, id).content)

LEMMA GrownLogs ==
  ASSUME NEW d, NEW e, Typed(d), Grown(d, e)
  PROVE  LogsKept(d, e)
<1>1. ASSUME NEW id \in Ids(d)
      PROVE  /\ Version(d, id) <= Version(e, id)
             /\ \A v \in 1..Version(d, id) : e.requirements[id].log[v] = d.requirements[id].log[v]
             /\ \A part \in {Material, Evidential} : \A v \in Version(d, id) + 1 .. Version(e, id) : ~ChangedByCommand(e, part, id, v)
  <2>1. PICK x \in VersionEntry :
          Longer(d, e, id, x) /\ (x.by # "command" \/ x.content = Item(d, id).content)
    BY <1>1 DEF Grown
  <2>2. /\ Version(d, id) <= Version(e, id)
        /\ \A v \in 1..Version(d, id) : e.requirements[id].log[v] = d.requirements[id].log[v]
    BY <2>1, LogGrows
  <2>3. \A part : \A v \in Version(d, id) + 1 .. Version(e, id) : ~ChangedByCommand(e, part, id, v)
    BY <2>1, LogQuiet
  <2>4. QED
    BY <2>2, <2>3
<1>2. QED
  BY <1>1 DEF Grown, LogsKept, Extends, Unchanged

\* Documents of which only the requirements differ.
OtherwiseSame(d, e) ==
    /\ DOMAIN e = DOMAIN d
    /\ e.relationships = d.relationships /\ e.evidence = d.evidence
    /\ e.memberships = d.memberships /\ e.changes = d.changes

ReusesTyped(d, e) ==
    \A use \in Ids(e) : LET reuse == e.requirements[use].reuse IN
        reuse # NoReuse /\ reuse.since > 0 =>
            \/ reuse.origin \in Ids(e) /\ reuse.since \in 1..Version(e, reuse.origin)
            \/ /\ use \in Ids(d) /\ d.requirements[use].reuse # NoReuse
               /\ reuse.origin = d.requirements[use].reuse.origin
               /\ reuse.since = d.requirements[use].reuse.since

LEMMA RequirementsTyped ==
  ASSUME NEW d, NEW e, Typed(d), Extends(d, e), OtherwiseSame(d, e), e.requirements \in Seq(RequirementRecord),
         ReusesTyped(d, e)
  PROVE  Typed(e)
<1>1. \A id \in Ids(d) : id \in Ids(e) /\ Version(d, id) \in Nat \ {0} /\ Version(d, id) <= Version(e, id)
  BY LogType DEF Extends
<1>2. \A id \in Ids(e) : Version(e, id) \in Nat
  <2>1. \A id \in Ids(e) : e.requirements[id] \in RequirementRecord
    BY DEF Ids
  <2>2. \A id \in Ids(e) : e.requirements[id].log \in Seq(VersionEntry)
    BY <2>1 DEF RequirementRecord
  <2>3. QED
    BY <2>2 DEF Version
<1>3. \A id \in Ids(e) : Version(e, id) > 0
  BY <1>1, <1>2 DEF Extends
<1>4. ASSUME NEW id \in Ids(d), NEW v \in 1..Version(d, id) PROVE id \in Ids(e) /\ v \in 1..Version(e, id)
  BY <1>1, <1>2, <1>4
<1>5. ASSUME NEW use \in Ids(e), e.requirements[use].reuse # NoReuse, e.requirements[use].reuse.since > 0
      PROVE  LET reuse == e.requirements[use].reuse IN
             reuse.origin \in Ids(e) /\ reuse.since \in 1..Version(e, reuse.origin)
  <2>1. CASE /\ use \in Ids(d) /\ d.requirements[use].reuse # NoReuse
             /\ e.requirements[use].reuse.origin = d.requirements[use].reuse.origin
             /\ e.requirements[use].reuse.since = d.requirements[use].reuse.since
    BY <1>4, <1>5, <2>1 DEF Typed
  <2>2. QED
    BY <1>5, <2>1 DEF ReusesTyped
<1>6. \A n \in DOMAIN e.relationships : LET link == e.relationships[n] IN
        {link.source, link.target} \subseteq Ids(e) /\ link.suspect = (link.status = "suspect")
  BY <1>1 DEF OtherwiseSame, Typed
<1>7. \A x \in e.evidence : x.requirement \in Ids(e) /\ x.recordedAt \in 1..Version(e, x.requirement)
  BY <1>4 DEF OtherwiseSame, Typed
<1>8. /\ DOMAIN e = {"requirements", "relationships", "evidence", "memberships", "changes"}
      /\ e.relationships \in Seq(LinkRecord) /\ e.evidence \subseteq EvidenceRecord
      /\ e.changes \in Seq(Range(e.changes))
      /\ \A ch \in DOMAIN e.changes : LET change == e.changes[ch] IN
           /\ DOMAIN change = {"status", "proposals", "impacts"}
           /\ change.status \in ChangeStatuses /\ change.proposals \in Seq(Operation)
  BY DEF OtherwiseSame, Typed
<1>9. QED
  BY <1>3, <1>5, <1>6, <1>7, <1>8 DEF Typed

\* Only requirements differ, and of them what no command changed.
LEMMA RequirementsQuiet ==
  ASSUME NEW d, NEW e, Typed(d), OtherwiseSame(d, e), LogsKept(d, e),
         e.requirements \in Seq(RequirementRecord), UsesKept(d, e),
         ReusesTyped(d, e)
  PROVE  Typed(e) /\ \A S \in SUBSET DOMAIN d.relationships : Quiet(d, e, S)
<1>1. Typed(e)
  BY RequirementsTyped DEF LogsKept
<1>2. QED
  BY <1>1 DEF Quiet, OtherwiseSame, LinksKept, EvidenceKept

\* A step that is quiet whichever links are looked at.
Still(d, e) == Typed(e) /\ \A S \in SUBSET DOMAIN d.relationships : Quiet(d, e, S)

LEMMA NewRequirementStill ==
  ASSUME NEW d, Typed(d), NEW content \in Contents, NEW status \in Statuses, NEW reuse \in ReuseRecord,
         NEW ai \in {"none", "proposed", "accepted"}, NEW by \in {"command", "import", "propagation"},
         Written(d, reuse),
         NEW e, e = NewRequirement(d, content, status, reuse, ai, by)
  PROVE  Still(d, e) /\ OtherwiseSame(d, e)
<1> DEFINE x == [content |-> content, status |-> status, by |-> by]
           r == [log |-> <<x>>, reuse |-> reuse, ai |-> ai]
<1>1. r \in RequirementRecord /\ Len(r.log) = 1 /\ r.reuse = reuse
  <2>1. x \in VersionEntry
    BY DEF VersionEntry
  <2> HIDE DEF x
  <2>2. <<x>> \in Seq(VersionEntry) /\ Len(<<x>>) = 1
    BY <2>1
  <2>3. QED
    BY <2>2 DEF RequirementRecord
<1> HIDE DEF r
<1>2. e = [d EXCEPT !.requirements = Append(@, r)]
  BY DEF NewRequirement, r
<1>3. OtherwiseSame(d, e) /\ e.requirements = Append(d.requirements, r)
  BY <1>2 DEF OtherwiseSame, Typed
<1>4. d.requirements \in Seq(RequirementRecord) /\ Ids(d) = 1..Len(d.requirements) /\ Len(d.requirements) \in Nat
  BY DEF Typed, Ids
<1>5. /\ e.requirements \in Seq(RequirementRecord) /\ Ids(e) = 1..Len(d.requirements) + 1
      /\ \A id \in Ids(d) : id \in Ids(e) /\ e.requirements[id] = d.requirements[id]
      /\ \A id \in Ids(e) \ Ids(d) : e.requirements[id] = r
  BY <1>1, <1>3, <1>4 DEF Ids
<1>6. LogsKept(d, e)
  <2>1. \A id \in Ids(d) : Version(e, id) = Version(d, id) /\ Version(d, id) \in Nat
    BY <1>5, LogType DEF Version
  <2>2. \A id \in Ids(e) \ Ids(d) : Version(e, id) = 1
    BY <1>1, <1>5 DEF Version
  <2>3. QED
    BY <1>5, <2>1, <2>2 DEF LogsKept, Extends, Unchanged
<1>7. reuse # NoReuse /\ reuse.since > 0 =>
        /\ reuse.origin \in Ids(e) /\ reuse.since \in 1..Version(e, reuse.origin)
        /\ UnchangedSince(e, Material, reuse.origin, reuse.since)
  <2> SUFFICES ASSUME reuse # NoReuse, reuse.since > 0
               PROVE /\ reuse.origin \in Ids(e) /\ reuse.since \in 1..Version(e, reuse.origin)
                     /\ UnchangedSince(e, Material, reuse.origin, reuse.since)
    OBVIOUS
  <2>1. reuse.origin \in Ids(d) /\ reuse.since = Version(d, reuse.origin)
    BY DEF Written
  <2>2. reuse.since \in Nat \ {0} /\ reuse.origin \in Ids(e)
    BY <1>5, <2>1, LogType
  <2>3. Version(e, reuse.origin) = reuse.since
    BY <1>5, <2>1 DEF Version
  <2>4. QED
    BY <2>2, <2>3 DEF UnchangedSince
<1>8. UsesKept(d, e)
  <2>1. Current(reuse) => reuse.since > 0
    BY ReuseType DEF Current
  <2>2. Current(reuse) => UnchangedSince(e, Material, reuse.origin, reuse.since)
    BY <1>7, <2>1 DEF Current
  <2>3. QED
    BY <1>1, <1>5, <2>2 DEF UsesKept
<1>9. ReusesTyped(d, e)
  BY <1>1, <1>5, <1>7 DEF ReusesTyped
<1>10. QED
  BY <1>3, <1>5, <1>6, <1>8, <1>9, RequirementsQuiet DEF Still

WellLinked(d, link) == {link.source, link.target} \subseteq Ids(d) /\ link.suspect = (link.status = "suspect")

\* Documents of which only the links differ.
LEMMA LinksStill ==
  ASSUME NEW d, NEW e, Typed(d), DOMAIN e = DOMAIN d, e.requirements = d.requirements, e.evidence = d.evidence,
         e.memberships = d.memberships, e.changes = d.changes,
         e.relationships \in Seq(LinkRecord),
         \A n \in DOMAIN e.relationships : WellLinked(d, e.relationships[n])
  PROVE  /\ Typed(e) /\ Ids(e) = Ids(d) /\ \A id \in Ids(d) : Version(e, id) = Version(d, id)
         /\ \A S : LinksKept(d, e, S) => Quiet(d, e, S)
<1>1. Ids(e) = Ids(d) /\ \A id \in Ids(d) : Version(e, id) = Version(d, id) /\ Version(d, id) \in Nat
  BY LogType DEF Ids, Version
<1>2. Typed(e)
  BY <1>1 DEF Typed, WellLinked
<1>3. LogsKept(d, e)
  BY <1>1 DEF LogsKept, Extends, Unchanged
<1>4. EvidenceKept(d, e) /\ UsesKept(d, e)
  BY <1>1 DEF EvidenceKept, UsesKept
<1>5. QED
  BY <1>1, <1>2, <1>3, <1>4 DEF Quiet

LEMMA NewLinkStill ==
  ASSUME NEW d, Typed(d), NEW type \in Types, NEW source \in Ids(d), NEW target \in Ids(d),
         NEW e, e = NewLink(d, type, source, target)
  PROVE  /\ Still(d, e)
         /\ e.requirements = d.requirements /\ e.evidence = d.evidence
         /\ e.memberships = d.memberships /\ e.changes = d.changes
<1> DEFINE link == [type |-> type, source |-> source, target |-> target,
                    status |-> "valid", suspect |-> FALSE, retired |-> FALSE, version |-> 1]
<1>1. link \in LinkRecord /\ link.source = source /\ link.target = target /\ link.suspect = (link.status = "suspect")
  <2>1. source \in Nat /\ target \in Nat
    BY DEF Typed, Ids
  <2>2. QED
    BY <2>1 DEF LinkRecord
<1> HIDE DEF link
<1>2. e = [d EXCEPT !.relationships = Append(@, link)]
  BY DEF NewLink, link
<1>3. /\ DOMAIN e = DOMAIN d /\ e.requirements = d.requirements /\ e.evidence = d.evidence
      /\ e.memberships = d.memberships /\ e.changes = d.changes /\ e.relationships = Append(d.relationships, link)
  BY <1>2 DEF Typed
<1>4. d.relationships \in Seq(LinkRecord)
  BY DEF Typed
<1>5. /\ e.relationships \in Seq(LinkRecord)
      /\ \A n \in DOMAIN d.relationships : n \in DOMAIN e.relationships /\ e.relationships[n] = d.relationships[n]
      /\ \A n \in DOMAIN e.relationships \ DOMAIN d.relationships : e.relationships[n] = link
  BY <1>1, <1>3, <1>4
<1>6. \A n \in DOMAIN e.relationships : WellLinked(d, e.relationships[n])
  <2>1. \A n \in DOMAIN d.relationships : WellLinked(d, d.relationships[n])
    BY DEF Typed, WellLinked
  <2>2. WellLinked(d, link)
    BY <1>1 DEF WellLinked
  <2>3. QED
    BY <1>5, <2>1, <2>2
<1>7. \A S \in SUBSET DOMAIN d.relationships : LinksKept(d, e, S)
  BY <1>5 DEF LinksKept
<1>8. QED
  BY <1>3, <1>5, <1>6, <1>7, LinksStill DEF Still

LEMMA SuspectLink ==
  ASSUME NEW old \in LinkRecord
  PROVE  LET new == MadeSuspect(old) IN
         /\ new \in LinkRecord /\ new.status = "suspect" /\ new.suspect = TRUE
         /\ new.source = old.source /\ new.target = old.target /\ new.retired = old.retired
<1> DEFINE one == [old EXCEPT !.status = "suspect"]
           two == [one EXCEPT !.suspect = TRUE]
           three == [two EXCEPT !.version = @ + 1]
<1>1. MadeSuspect(old) = three
  BY DEF MadeSuspect, LinkRecord
<1>2. one \in LinkRecord /\ one.status = "suspect"
      /\ one.source = old.source /\ one.target = old.target /\ one.retired = old.retired
  BY DEF LinkRecord
<1> HIDE DEF one
<1>3. two \in LinkRecord /\ two.status = "suspect" /\ two.suspect = TRUE
      /\ two.source = old.source /\ two.target = old.target /\ two.retired = old.retired
  BY <1>2 DEF LinkRecord
<1> HIDE DEF two
<1>4. three \in LinkRecord /\ three.status = "suspect" /\ three.suspect = TRUE
      /\ three.source = old.source /\ three.target = old.target /\ three.retired = old.retired
  BY <1>3 DEF LinkRecord
<1>5. QED
  BY <1>1, <1>4

Suspected(d, e, id, trigger) ==
    /\ DOMAIN e.relationships = DOMAIN d.relationships
    /\ \A n \in DOMAIN d.relationships : LET old == d.relationships[n]  new == e.relationships[n] IN
         /\ new.source = old.source /\ new.target = old.target
         /\ ~new.suspect => new = old /\ ~(Active(old) /\ Touches(old, id) /\ Triggered(old, id, trigger))

LEMMA MarkedLinksStill ==
  ASSUME NEW d, Typed(d), NEW id, NEW trigger, NEW e, e = MarkRelationshipsSuspect(d, id, trigger)
  PROVE  /\ Still(d, e) /\ DOMAIN e = DOMAIN d
         /\ e.requirements = d.requirements /\ e.evidence = d.evidence
         /\ e.memberships = d.memberships /\ e.changes = d.changes
         /\ Suspected(d, e, id, trigger)
<1> DEFINE Marked(l) == Active(l) /\ Touches(l, id) /\ Triggered(l, id, trigger)
           links == [n \in DOMAIN d.relationships |->
                      IF Marked(d.relationships[n]) THEN MadeSuspect(d.relationships[n]) ELSE d.relationships[n]]
<1>1. /\ DOMAIN e = DOMAIN d /\ e.requirements = d.requirements /\ e.evidence = d.evidence
      /\ e.memberships = d.memberships /\ e.changes = d.changes /\ e.relationships = links
  <2>1. e = [d EXCEPT !.relationships = links]
    BY Zenon DEF MarkRelationshipsSuspect
  <2> HIDE DEF links
  <2>2. QED
    BY <2>1 DEF Typed
<1>2. ASSUME NEW n \in DOMAIN d.relationships
      PROVE  /\ links[n] \in LinkRecord
             /\ links[n].source = d.relationships[n].source /\ links[n].target = d.relationships[n].target
             /\ links[n].suspect = (links[n].status = "suspect")
             /\ ~links[n].suspect => links[n] = d.relationships[n] /\ ~Marked(d.relationships[n])
             /\ links[n].retired = d.relationships[n].retired
  <2> DEFINE old == d.relationships[n]
             new == MadeSuspect(old)
  <2>1. old \in LinkRecord /\ old.suspect = (old.status = "suspect")
    BY DEF Typed
  <2>2. /\ new \in LinkRecord /\ new.status = "suspect" /\ new.suspect = TRUE
        /\ new.source = old.source /\ new.target = old.target /\ new.retired = old.retired
    BY <2>1, SuspectLink
  <2>3. links[n] = IF Marked(old) THEN new ELSE old
    OBVIOUS
  <2> HIDE DEF new, old, links, Marked
  <2>6. CASE Marked(old)
    <3>1. links[n] = new
      BY <2>3, <2>6
    <3>2. QED
      BY <2>2, <2>6, <3>1 DEF old
  <2>7. CASE ~Marked(old)
    <3>1. links[n] = old
      BY <2>3, <2>7
    <3>2. QED
      BY <2>1, <2>7, <3>1 DEF old
  <2>8. QED
    BY <2>6, <2>7
<1>3. DOMAIN links = DOMAIN d.relationships
  OBVIOUS
<1>4. links \in Seq(LinkRecord)
  <2>1. Len(d.relationships) \in Nat /\ DOMAIN d.relationships = 1..Len(d.relationships)
    BY DEF Typed
  <2>2. links \in [DOMAIN d.relationships -> LinkRecord]
    <3>1. links = [n \in DOMAIN d.relationships |-> links[n]]
      OBVIOUS
    <3> HIDE DEF links
    <3>2. QED
      BY <1>2, <3>1
  <2> HIDE DEF links
  <2>3. QED
    BY <2>1, <2>2
<1> HIDE DEF links
<1>5. \A n \in DOMAIN e.relationships : WellLinked(d, e.relationships[n])
  BY <1>1, <1>2, <1>3 DEF Typed, WellLinked
<1>6. \A S \in SUBSET DOMAIN d.relationships : LinksKept(d, e, S)
  BY <1>1, <1>2, <1>3 DEF LinksKept, Active
<1>7. Still(d, e)
  BY <1>1, <1>4, <1>5, <1>6, LinksStill DEF Still
<1>8. Suspected(d, e, id, trigger)
  BY <1>1, <1>2, <1>3 DEF Suspected
<1>9. QED
  BY <1>1, <1>7, <1>8

\* One link replaced.
LEMMA LinkReplacedStill ==
  ASSUME NEW d, Typed(d), NEW n \in DOMAIN d.relationships, NEW link \in LinkRecord,
         link.source = d.relationships[n].source, link.target = d.relationships[n].target,
         link.suspect = (link.status = "suspect"),
         NEW e, e = [d EXCEPT !.relationships = [@ EXCEPT ![n] = link]]
  PROVE  /\ Typed(e)
         /\ \A S \in SUBSET (DOMAIN d.relationships \ {n}) : Quiet(d, e, S)
         /\ link.retired => Still(d, e)
<1>1. /\ DOMAIN e = DOMAIN d /\ e.requirements = d.requirements /\ e.evidence = d.evidence
      /\ e.memberships = d.memberships /\ e.changes = d.changes
      /\ e.relationships = [d.relationships EXCEPT ![n] = link]
  BY DEF Typed
<1>2. d.relationships \in Seq(LinkRecord)
  BY DEF Typed
<1>3. /\ e.relationships \in Seq(LinkRecord) /\ DOMAIN e.relationships = DOMAIN d.relationships
      /\ e.relationships[n] = link
      /\ \A m \in DOMAIN d.relationships \ {n} : e.relationships[m] = d.relationships[m]
  BY <1>1, <1>2
<1>4. \A m \in DOMAIN e.relationships : WellLinked(d, e.relationships[m])
  <2>1. \A m \in DOMAIN d.relationships : WellLinked(d, d.relationships[m])
    BY DEF Typed, WellLinked
  <2>2. WellLinked(d, link)
    BY <2>1 DEF WellLinked
  <2>3. QED
    BY <1>3, <2>1, <2>2
<1>5. \A S \in SUBSET (DOMAIN d.relationships \ {n}) : LinksKept(d, e, S)
  BY <1>3 DEF LinksKept
<1>6. link.retired => \A S \in SUBSET DOMAIN d.relationships : LinksKept(d, e, S)
  BY <1>3 DEF LinksKept, Active
<1>7. QED
  <2>1. Typed(e) /\ \A S : LinksKept(d, e, S) => Quiet(d, e, S)
    BY <1>1, <1>3, <1>4, LinksStill
  <2>2. QED
    BY <1>5, <1>6, <2>1 DEF Still

LEMMA MarkedEvidenceStill ==
  ASSUME NEW d, Typed(d), NEW id, NEW e, e = MarkEvidencePotentiallyStale(d, id)
  PROVE  /\ Still(d, e) /\ DOMAIN e = DOMAIN d
         /\ e.requirements = d.requirements /\ e.relationships = d.relationships
         /\ e.memberships = d.memberships /\ e.changes = d.changes
         /\ \A x \in e.evidence : ~x.stale => x \in d.evidence /\ x.requirement # id
<1> DEFINE mark(x) == IF x.requirement = id THEN [x EXCEPT !.stale = TRUE] ELSE x
<1>1. /\ DOMAIN e = DOMAIN d /\ e.requirements = d.requirements /\ e.relationships = d.relationships
      /\ e.memberships = d.memberships /\ e.changes = d.changes
      /\ e.evidence = {mark(x) : x \in d.evidence}
  BY DEF Typed, MarkEvidencePotentiallyStale
<1>2. ASSUME NEW x \in d.evidence
      PROVE  /\ mark(x) \in EvidenceRecord
             /\ mark(x).requirement = x.requirement /\ mark(x).recordedAt = x.recordedAt
             /\ ~mark(x).stale => mark(x) = x /\ x.requirement # id
  <2>1. x \in EvidenceRecord
    BY <1>2 DEF Typed
  <2>2. QED
    BY <2>1 DEF EvidenceRecord
<1> HIDE DEF mark
<1>3. Ids(e) = Ids(d) /\ \A i \in Ids(d) : Version(e, i) = Version(d, i) /\ Version(d, i) \in Nat
  BY <1>1, LogType DEF Ids, Version
<1>4. \A x \in e.evidence : x \in EvidenceRecord /\ x.requirement \in Ids(e) /\ x.recordedAt \in 1..Version(e, x.requirement)
  BY <1>1, <1>2, <1>3 DEF Typed
<1>5. Typed(e)
  BY <1>1, <1>3, <1>4 DEF Typed
<1>6. \A x \in e.evidence : ~x.stale => x \in d.evidence /\ x.requirement # id
  BY <1>1, <1>2
<1>7. LogsKept(d, e)
  BY <1>3, <1>1 DEF LogsKept, Extends, Unchanged
<1>8. UsesKept(d, e) /\ EvidenceKept(d, e) /\ \A S \in SUBSET DOMAIN d.relationships : LinksKept(d, e, S)
  BY <1>1, <1>3, <1>6 DEF UsesKept, EvidenceKept, LinksKept
<1>9. QED
  BY <1>1, <1>5, <1>6, <1>7, <1>8 DEF Still, Quiet

\* A version added with the content there was, or not by a command.
LEMMA BumpStill ==
  ASSUME NEW d, Typed(d), NEW id \in Ids(d), NEW content \in Contents, NEW status \in Statuses,
         NEW by \in {"command", "import", "propagation"}, NEW e, e = Bump(d, id, content, status, by),
         by # "command" \/ content = Item(d, id).content
  PROVE  Still(d, e)
<1> DEFINE x == Entry(content, status, by)
<1>1. x \in VersionEntry /\ (x.by # "command" \/ x.content = Item(d, id).content)
  BY EntryType
<1>2. /\ OtherwiseSame(d, e) /\ e.requirements \in Seq(RequirementRecord) /\ Ids(e) = Ids(d)
      /\ \A i \in Ids(d) \ {id} : e.requirements[i] = d.requirements[i]
      /\ e.requirements[id].log = Append(d.requirements[id].log, x)
      /\ e.requirements[id].reuse = d.requirements[id].reuse
  <2>1. Bumped(d, e, id, x)
    BY BumpEffect
  <2> HIDE DEF x
  <2>2. QED
    BY <2>1 DEF Bumped, OtherwiseSame
<1> HIDE DEF x
<1>3. Grown(d, e)
  <2>1. ASSUME NEW i \in Ids(d)
        PROVE  \E y \in VersionEntry :
                  Longer(d, e, i, y) /\ (y.by # "command" \/ y.content = Item(d, i).content)
    <3>1. CASE i = id
      <4>1. Longer(d, e, i, x)
        BY <1>2, <3>1 DEF Longer
      <4>2. QED
        BY <1>1, <3>1, <4>1
    <3>2. CASE i # id
      <4>1. Longer(d, e, i, [Item(d, i) EXCEPT !.by = "import"])
        BY <1>2, <3>2 DEF Longer
      <4>2. QED
        BY <4>1, LogType DEF VersionEntry
    <3>3. QED
      BY <3>1, <3>2
  <2>2. QED
    BY <1>2, <2>1 DEF Grown
<1>4. \A use \in Ids(e) : use \in Ids(d) /\ e.requirements[use].reuse = d.requirements[use].reuse
  BY <1>2
<1>5. UsesKept(d, e) /\ ReusesTyped(d, e)
  BY <1>4 DEF UsesKept, ReusesTyped
<1>6. QED
  BY <1>2, <1>3, <1>5, GrownLogs, RequirementsQuiet DEF Still

LEMMA SameLogs ==
  ASSUME NEW d, NEW e, Typed(d), Ids(e) = Ids(d),
         \A i \in Ids(d) : e.requirements[i].log = d.requirements[i].log
  PROVE  LogsKept(d, e)
<1>1. \A i \in Ids(d) : Version(e, i) = Version(d, i) /\ Version(d, i) \in Nat
  BY LogType DEF Version
<1>2. Extends(d, e)
  BY <1>1 DEF Extends
<1>3. ASSUME NEW part PROVE Unchanged(d, e, part)
  BY <1>1 DEF Unchanged
<1>4. QED
  BY <1>2, <1>3 DEF LogsKept

\* A requirement whose log stays, and whose reuse record stays, goes or is written anew.
LEMMA RequirementStill ==
  ASSUME NEW d, Typed(d), NEW id \in Ids(d), NEW r \in RequirementRecord,
         r.log = d.requirements[id].log, r.reuse = d.requirements[id].reuse \/ Written(d, r.reuse),
         NEW e, e = [d EXCEPT !.requirements = [@ EXCEPT ![id] = r]]
  PROVE  Still(d, e) /\ OtherwiseSame(d, e)
<1>1. OtherwiseSame(d, e) /\ e.requirements = [d.requirements EXCEPT ![id] = r]
  BY DEF OtherwiseSame, Typed
<1>2. d.requirements \in Seq(RequirementRecord) /\ id \in DOMAIN d.requirements
  BY DEF Typed, Ids
<1>3. /\ e.requirements \in Seq(RequirementRecord) /\ Ids(e) = Ids(d)
      /\ \A i \in Ids(d) \ {id} : e.requirements[i] = d.requirements[i]
      /\ e.requirements[id] = r
  BY <1>1, <1>2 DEF Ids
<1>4. \A i \in Ids(d) : e.requirements[i].log = d.requirements[i].log
  BY <1>3
<1>5. LogsKept(d, e)
  BY <1>3, <1>4, SameLogs
<1>6. \A i \in Ids(d) : Version(e, i) = Version(d, i) /\ Version(d, i) \in Nat \ {0}
  BY <1>4, LogType DEF Version
<1>7. ASSUME NEW use \in Ids(e), e.requirements[use].reuse # d.requirements[use].reuse,
             e.requirements[use].reuse # NoReuse, e.requirements[use].reuse.since > 0
      PROVE  LET reuse == e.requirements[use].reuse IN
             /\ reuse.origin \in Ids(e) /\ reuse.since \in 1..Version(e, reuse.origin)
             /\ UnchangedSince(e, Material, reuse.origin, reuse.since)
  <2>1. use = id /\ e.requirements[use].reuse = r.reuse
    BY <1>3, <1>7
  <2>2. r.reuse.origin \in Ids(d) /\ r.reuse.since = Version(d, r.reuse.origin)
    BY <1>3, <1>7, <2>1 DEF Written
  <2>3. Version(e, r.reuse.origin) = r.reuse.since /\ r.reuse.since \in Nat \ {0}
    BY <1>6, <2>2
  <2>4. UnchangedSince(e, Material, r.reuse.origin, r.reuse.since)
    <3> SUFFICES ASSUME NEW v \in (r.reuse.since + 1)..Version(e, r.reuse.origin)
                 PROVE  FALSE
      BY DEF UnchangedSince
    <3>1. QED
      BY <2>3
  <2>5. QED
    BY <1>3, <2>1, <2>2, <2>3, <2>4
<1>8. UsesKept(d, e)
  <2>1. SUFFICES ASSUME NEW use \in Ids(e), Current(e.requirements[use].reuse),
                        e.requirements[use].reuse # d.requirements[use].reuse
                 PROVE  UnchangedSince(e, Material, e.requirements[use].reuse.origin, e.requirements[use].reuse.since)
    BY <1>3 DEF UsesKept
  <2>2. use = id /\ e.requirements[use].reuse = r.reuse
    BY <1>3, <2>1
  <2>3. r.reuse \in ReuseRecord /\ r.reuse # NoReuse
    BY <2>1, <2>2 DEF RequirementRecord, Current
  <2>4. r.reuse.since > 0
    BY <2>1, <2>2, <2>3, ReuseType DEF Current
  <2>5. QED
    BY <1>7, <2>1, <2>2, <2>3, <2>4
<1>9. ReusesTyped(d, e)
  BY <1>3, <1>7 DEF ReusesTyped
<1>10. QED
  BY <1>1, <1>3, <1>5, <1>8, <1>9, RequirementsQuiet DEF Still

\* What SourceChanged makes of a use.
LEMMA SourceChangedUse ==
  ASSUME NEW old \in RequirementRecord, Len(old.log) > 0, old.reuse # NoReuse
  PROVE  LET new == SourceChanged(old) IN
         /\ new \in RequirementRecord
         /\ \E x \in VersionEntry : new.log = Append(old.log, x) /\ x.content = Last(old.log).content
         /\ new.reuse # NoReuse /\ new.reuse.state = "source-changed"
         /\ new.reuse.origin = old.reuse.origin /\ new.reuse.since = old.reuse.since
<1> DEFINE x == [Last(old.log) EXCEPT !.by = "command"]
           reuse == [old.reuse EXCEPT !.state = "source-changed"]
           one == [old EXCEPT !.reuse = reuse]
           two == [one EXCEPT !.log = Append(@, x)]
<1>1. SourceChanged(old) = two
  <2>1. SourceChanged(old) = [[old EXCEPT !.reuse = reuse] EXCEPT !.log = Append(@, [Last(@) EXCEPT !.by = "command"])]
    BY DEF SourceChanged
  <2>2. one.log = old.log
    BY DEF RequirementRecord
  <2>3. two = [one EXCEPT !.log = Append(one.log, x)]
    OBVIOUS
  <2>4. QED
    BY <2>1, <2>2, <2>3
<1>2. x \in VersionEntry /\ x.content = Last(old.log).content
  <2>1. old.log \in Seq(VersionEntry) /\ Len(old.log) \in 1..Len(old.log)
    BY DEF RequirementRecord
  <2>2. Last(old.log) \in VersionEntry
    BY <2>1 DEF Last
  <2>3. QED
    BY <2>2 DEF VersionEntry
<1>3. /\ reuse \in ReuseRecord /\ reuse # NoReuse /\ reuse.state = "source-changed"
      /\ reuse.origin = old.reuse.origin /\ reuse.since = old.reuse.since
  <2> DEFINE Reused == [mode : {"governed-reference", "controlled-clone"}, origin : Nat, version : Nat \ {0},
                        state : {"current", "source-changed", "intentional-divergence"}, since : Nat]
  <2>1. old.reuse \in Reused
    BY DEF RequirementRecord, ReuseRecord
  <2>2. /\ reuse \in Reused /\ reuse.state = "source-changed"
        /\ reuse.origin = old.reuse.origin /\ reuse.since = old.reuse.since
    BY <2>1
  <2> HIDE DEF reuse
  <2>3. reuse # NoReuse
    <3>1. reuse.mode # "none"
      BY <2>2
    <3>2. NoReuse.mode = "none"
      BY DEF NoReuse
    <3>3. QED
      BY <3>1, <3>2
  <2>4. QED
    BY <2>2, <2>3 DEF ReuseRecord
<1> HIDE DEF x, reuse
<1>4. one \in RequirementRecord /\ one.log = old.log /\ one.reuse = reuse
  BY <1>3 DEF RequirementRecord
<1> HIDE DEF one
<1>5. two \in RequirementRecord /\ two.log = Append(old.log, x) /\ two.reuse = reuse
  <2>1. Append(one.log, x) \in Seq(VersionEntry)
    BY <1>2, <1>4 DEF RequirementRecord
  <2>2. QED
    BY <1>4, <2>1 DEF RequirementRecord
<1>6. QED
  BY <1>1, <1>2, <1>3, <1>5

LEMMA MarkedReuseStill ==
  ASSUME NEW d, Typed(d), NEW id, NEW e, e = MarkReuseSourceChanged(d, id)
  PROVE  /\ Still(d, e) /\ OtherwiseSame(d, e) /\ Ids(e) = Ids(d)
         /\ \A use \in Ids(d) : /\ e.requirements[use].reuse = NoReuse <=> d.requirements[use].reuse = NoReuse
                                /\ Current(e.requirements[use].reuse) =>
                                     /\ use \notin UsesBehind(d, id)
                                     /\ e.requirements[use] = d.requirements[use]
<1> DEFINE rs == [use \in DOMAIN d.requirements |->
                    IF use \in UsesBehind(d, id) THEN SourceChanged(d.requirements[use]) ELSE d.requirements[use]]
<1>1. e = [d EXCEPT !.requirements = rs]
  BY DEF MarkReuseSourceChanged
<1>2. DOMAIN rs = DOMAIN d.requirements
  OBVIOUS
<1>3. ASSUME NEW use \in Ids(d), use \in UsesBehind(d, id)
      PROVE  /\ rs[use] \in RequirementRecord
             /\ \E x \in VersionEntry : /\ rs[use].log = Append(d.requirements[use].log, x)
                                        /\ x.content = Item(d, use).content
             /\ rs[use].reuse # NoReuse /\ rs[use].reuse.state = "source-changed"
             /\ rs[use].reuse.origin = d.requirements[use].reuse.origin
             /\ rs[use].reuse.since = d.requirements[use].reuse.since
             /\ d.requirements[use].reuse # NoReuse
  <2>1. rs[use] = SourceChanged(d.requirements[use])
    BY <1>3 DEF Ids
  <2>2. d.requirements[use].reuse # NoReuse
    BY <1>3 DEF UsesBehind
  <2>3. d.requirements[use] \in RequirementRecord /\ Len(d.requirements[use].log) > 0
    BY LogType DEF Version
  <2> HIDE DEF rs
  <2>4. QED
    BY <2>1, <2>2, <2>3, SourceChangedUse DEF Item
<1>4. ASSUME NEW use \in Ids(d), use \notin UsesBehind(d, id)
      PROVE  rs[use] = d.requirements[use]
  BY <1>4 DEF Ids
<1>5. ASSUME NEW use \in Ids(d) PROVE rs[use] \in RequirementRecord
  BY <1>3, <1>4, LogType
<1>6. rs \in Seq(RequirementRecord)
  <2>1. Len(d.requirements) \in Nat /\ Ids(d) = 1..Len(d.requirements)
    BY DEF Typed, Ids
  <2>2. rs \in [Ids(d) -> RequirementRecord]
    <3>1. rs = [use \in Ids(d) |-> rs[use]]
      BY DEF Ids
    <3> HIDE DEF rs
    <3>2. QED
      BY <1>5, <3>1
  <2> HIDE DEF rs
  <2>3. QED
    BY <2>1, <2>2
<1> HIDE DEF rs
<1>7. OtherwiseSame(d, e) /\ e.requirements = rs /\ Ids(e) = Ids(d)
  BY <1>1, <1>2 DEF OtherwiseSame, Typed, Ids
<1>8. Grown(d, e)
  <2>1. ASSUME NEW i \in Ids(d)
        PROVE  \E y \in VersionEntry :
                  Longer(d, e, i, y) /\ (y.by # "command" \/ y.content = Item(d, i).content)
    <3>1. CASE i \in UsesBehind(d, id)
      BY <1>3, <1>7, <3>1 DEF Longer
    <3>2. CASE i \notin UsesBehind(d, id)
      BY <1>4, <1>7, <3>2, LogType DEF Longer
    <3>3. QED
      BY <3>1, <3>2
  <2>2. QED
    BY <1>7, <2>1 DEF Grown
<1>9. ASSUME NEW use \in Ids(d)
      PROVE  /\ e.requirements[use].reuse = NoReuse <=> d.requirements[use].reuse = NoReuse
             /\ Current(e.requirements[use].reuse) =>
                  use \notin UsesBehind(d, id) /\ e.requirements[use] = d.requirements[use]
             /\ e.requirements[use].reuse # NoReuse =>
                  /\ e.requirements[use].reuse.origin = d.requirements[use].reuse.origin
                  /\ e.requirements[use].reuse.since = d.requirements[use].reuse.since
  <2>1. CASE use \in UsesBehind(d, id)
    BY <1>3, <1>7, <2>1 DEF Current
  <2>2. CASE use \notin UsesBehind(d, id)
    BY <1>4, <1>7, <2>2 DEF Current
  <2>3. QED
    BY <2>1, <2>2
<1>10. UsesKept(d, e) /\ ReusesTyped(d, e)
  BY <1>7, <1>9 DEF UsesKept, ReusesTyped
<1>11. QED
  BY <1>6, <1>7, <1>8, <1>9, <1>10, GrownLogs, RequirementsQuiet DEF Still

----------------------------------------------------------------------------
(* Steps that follow one another in a command.                             *)

Keeps(d, e) ==
    /\ e.changes = d.changes
    /\ \A p : p.expectedVersion \in Nat /\ Done(d, p) => Done(e, p)

LEMMA StillFollows ==
  ASSUME NEW d, NEW e, NEW ch, NEW assessment, NEW S,
         Sound(d, ch, assessment, S), Assessment(assessment, S), Still(d, e)
  PROVE  Sound(e, ch, assessment, S) /\ Keeps(d, e) /\ Typed(e)
<1>1. Typed(d) /\ S \in SUBSET DOMAIN d.relationships
  BY DEF Sound
<1>2. Typed(e) /\ Quiet(d, e, S)
  BY <1>1 DEF Still
<1>3. Extends(d, e) /\ e.changes = d.changes
  BY <1>2 DEF Quiet, LogsKept
<1>4. Keeps(d, e)
  BY <1>1, <1>2, <1>3, DoneKept DEF Keeps
<1>5. QED
  BY <1>2, <1>4, QuietSound

\* A step that may change requirements, and tells everyone who relies on what changes.
Told(d, e, S) ==
    LET edited(part, i) == \E v \in Version(d, i) + 1 .. Version(e, i) : ChangedByCommand(e, part, i, v) IN
    /\ Extends(d, e) /\ Ids(e) = Ids(d)
    /\ e.memberships = d.memberships /\ e.changes = d.changes
    /\ \A n \in S :
         /\ n \in DOMAIN e.relationships
         /\ e.relationships[n].source = d.relationships[n].source
         /\ e.relationships[n].target = d.relationships[n].target
         /\ Active(e.relationships[n]) /\ ~e.relationships[n].suspect =>
              /\ Active(d.relationships[n]) /\ ~d.relationships[n].suspect
              /\ ~edited(Material, d.relationships[n].source)
              /\ ~edited(Material, d.relationships[n].target)
    /\ \A x \in e.evidence : ~x.stale => x \in d.evidence /\ ~edited(Evidential, x.requirement)
    /\ \A use \in Ids(e) : LET reuse == e.requirements[use].reuse IN
         Current(reuse) => d.requirements[use].reuse = reuse /\ ~edited(Material, reuse.origin)

LEMMA ToldSound ==
  ASSUME NEW d, NEW e, NEW ch, NEW assessment, NEW S,
         Sound(d, ch, assessment, S), Assessment(assessment, S), Typed(e), Told(d, e, S),
         \A i \in Ids(d) : \A v \in Version(d, i) + 1 .. Version(e, i) :
             ChangedByCommand(e, Material, i, v) /\ Protected(e, i, v - 1)
             => \E c \in DOMAIN e.changes : (Implemented(e, c) \/ c = ch) /\ Proposed(e, c, i, v)
  PROVE  Sound(e, ch, assessment, S) /\ Keeps(d, e)
<1>1. Typed(d) /\ S \subseteq DOMAIN d.relationships
  BY DEF Sound
<1>2. Extends(d, e) /\ Ids(e) = Ids(d) /\ e.memberships = d.memberships /\ e.changes = d.changes
  BY DEF Told
<1>3. GovernedBut(e, ch)
  BY <1>1, <1>2, GovernedKept DEF Sound
<1>4. AsApproved(e)
  BY <1>1, <1>2, ApprovedKept DEF Sound
<1>5. Trusted(e, assessment, S)
  <2> SUFFICES ASSUME NEW n \in S, Active(e.relationships[n]), ~e.relationships[n].suspect
               PROVE  /\ UnchangedSince(e, Material, e.relationships[n].source, assessment[n].source)
                      /\ UnchangedSince(e, Material, e.relationships[n].target, assessment[n].target)
    BY DEF Trusted
  <2> DEFINE source == d.relationships[n].source  target == d.relationships[n].target
  <2>1. /\ e.relationships[n].source = source /\ e.relationships[n].target = target
        /\ Active(d.relationships[n]) /\ ~d.relationships[n].suspect
        /\ \A v \in Version(d, source) + 1 .. Version(e, source) : ~ChangedByCommand(e, Material, source, v)
        /\ \A v \in Version(d, target) + 1 .. Version(e, target) : ~ChangedByCommand(e, Material, target, v)
    BY DEF Told
  <2>2. source \in Ids(d) /\ target \in Ids(d)
    BY <1>1 DEF Typed
  <2>3. assessment[n].source \in Nat \ {0} /\ assessment[n].target \in Nat \ {0}
    BY DEF Assessment
  <2>4. /\ UnchangedSince(d, Material, source, assessment[n].source)
        /\ UnchangedSince(d, Material, target, assessment[n].target)
    BY <2>1 DEF Sound, Trusted
  <2>5. QED
    BY <1>1, <1>2, <2>1, <2>2, <2>3, <2>4, SinceKept
<1>6. EvidenceRecordedSince(e)
  <2> SUFFICES ASSUME NEW x \in e.evidence, ~x.stale
               PROVE  UnchangedSince(e, Evidential, x.requirement, x.recordedAt)
    BY DEF EvidenceRecordedSince
  <2>1. /\ x \in d.evidence
        /\ \A v \in Version(d, x.requirement) + 1 .. Version(e, x.requirement) :
              ~ChangedByCommand(e, Evidential, x.requirement, v)
    BY DEF Told
  <2>2. x.requirement \in Ids(d) /\ x.recordedAt \in Nat \ {0}
    BY <1>1, <2>1, LogType DEF Typed
  <2>3. UnchangedSince(d, Evidential, x.requirement, x.recordedAt)
    BY <2>1 DEF Sound, EvidenceRecordedSince
  <2>4. QED
    BY <1>1, <1>2, <2>1, <2>2, <2>3, SinceKept
<1>7. UsesFollowSource(e)
  <2> SUFFICES ASSUME NEW use \in Ids(e), Current(e.requirements[use].reuse)
               PROVE  UnchangedSince(e, Material, e.requirements[use].reuse.origin, e.requirements[use].reuse.since)
    BY DEF UsesFollowSource, Current
  <2> DEFINE reuse == e.requirements[use].reuse
  <2>1. /\ use \in Ids(d) /\ d.requirements[use].reuse = reuse
        /\ \A v \in Version(d, reuse.origin) + 1 .. Version(e, reuse.origin) :
              ~ChangedByCommand(e, Material, reuse.origin, v)
    BY <1>2 DEF Told
  <2>2. reuse.origin \in Ids(d) /\ reuse.since \in Nat \ {0}
    BY <1>1, <2>1, CurrentUse
  <2>3. UnchangedSince(d, Material, reuse.origin, reuse.since)
    BY <2>1 DEF Sound, UsesFollowSource, Current
  <2>4. QED
    BY <1>1, <1>2, <2>1, <2>2, <2>3, SinceKept
<1>8. S \subseteq DOMAIN e.relationships
  BY DEF Told
<1>9. Keeps(d, e)
  BY <1>1, <1>2, DoneKept DEF Keeps
<1>10. QED
  BY <1>3, <1>4, <1>5, <1>6, <1>7, <1>8, <1>9 DEF Sound

LEMMA SameRequirements ==
  ASSUME NEW d, NEW e, NEW f, e.requirements = d.requirements, LogsKept(e, f)
  PROVE  LogsKept(d, f)
<1>1. Ids(e) = Ids(d) /\ \A i : Version(e, i) = Version(d, i)
  BY DEF Ids, Version
<1>2. Extends(d, f)
  BY <1>1 DEF LogsKept, Extends
<1>3. \A part \in {Material, Evidential} : Unchanged(d, f, part)
  BY <1>1 DEF LogsKept, Unchanged
<1>4. QED
  BY <1>2, <1>3 DEF LogsKept

LEMMA ExtendsChain ==
  ASSUME NEW d, NEW e, NEW f, Typed(d), Typed(e), Typed(f), Extends(d, e), Extends(e, f),
         Ids(e) = Ids(d), Ids(f) = Ids(d)
  PROVE  Extends(d, f)
<1>1. \A i \in Ids(d) : Version(d, i) \in Nat /\ Version(e, i) \in Nat /\ Version(f, i) \in Nat
  BY LogType
<1>2. ASSUME NEW i \in Ids(d)
      PROVE  /\ Version(d, i) <= Version(f, i)
             /\ \A v \in 1..Version(d, i) : f.requirements[i].log[v] = d.requirements[i].log[v]
  <2>1. Version(d, i) <= Version(e, i) /\ Version(e, i) <= Version(f, i)
    BY DEF Extends
  <2>2. \A v \in 1..Version(d, i) : e.requirements[i].log[v] = d.requirements[i].log[v]
    BY DEF Extends
  <2>3. \A v \in 1..Version(e, i) : f.requirements[i].log[v] = e.requirements[i].log[v]
    BY DEF Extends
  <2>4. QED
    BY <1>1, <2>1, <2>2, <2>3
<1>3. QED
  BY <1>2 DEF Extends

\* The versions a command adds to requirement id.
LEMMA BumpExtends ==
  ASSUME NEW d, Typed(d), NEW id \in Ids(d), NEW content \in Contents, NEW status \in Statuses,
         NEW by \in {"command", "import", "propagation"}, NEW e, e = Bump(d, id, content, status, by)
  PROVE  /\ Typed(e) /\ Extends(d, e) /\ Ids(e) = Ids(d) /\ Version(e, id) = Version(d, id) + 1
         /\ \A i \in Ids(d) : e.requirements[i].reuse = d.requirements[i].reuse
         /\ e.requirements[id].log[Version(d, id) + 1] = Entry(content, status, by)
         /\ \A i \in Ids(d) : \A v \in Version(d, i) + 1 .. Version(e, i) :
              i = id /\ v = Version(d, id) + 1 /\ e.requirements[i].log[v - 1] = Item(d, id)
<1> DEFINE x == Entry(content, status, by)
<1>1. x \in VersionEntry
  BY EntryType
<1>2. Bumped(d, e, id, x)
  BY BumpEffect
<1> HIDE DEF x
<1>3. /\ e.requirements \in Seq(RequirementRecord) /\ Ids(e) = Ids(d)
      /\ \A i \in Ids(d) \ {id} : e.requirements[i] = d.requirements[i]
  BY <1>2 DEF Bumped
<1>4. e.requirements[id].log = Append(d.requirements[id].log, x) /\ e.requirements[id].reuse = d.requirements[id].reuse
  BY <1>2 DEF Bumped
<1>5. OtherwiseSame(d, e)
  BY <1>2 DEF Bumped, OtherwiseSame
<1>6. \A i \in Ids(d) : e.requirements[i].reuse = d.requirements[i].reuse
  BY <1>3, <1>4
<1>7. ASSUME NEW i \in Ids(d)
      PROVE  Longer(d, e, i, x)
  BY <1>3, <1>4 DEF Longer
<1>8. ASSUME NEW i \in Ids(d)
      PROVE  /\ Version(d, i) <= Version(e, i)
             /\ \A v \in 1..Version(d, i) : e.requirements[i].log[v] = d.requirements[i].log[v]
  BY <1>1, <1>7, LogGrows
<1>9. Extends(d, e)
  BY <1>3, <1>8 DEF Extends
<1>10. ReusesTyped(d, e)
  BY <1>3, <1>6 DEF ReusesTyped
<1>11. Typed(e)
  BY <1>3, <1>5, <1>9, <1>10, RequirementsTyped
<1>12. ASSUME NEW i \in Ids(d), NEW v \in Version(d, i) + 1 .. Version(e, i)
       PROVE  i = id /\ v = Version(d, id) + 1 /\ e.requirements[i].log[v - 1] = Item(d, id)
  <2>1. v = Version(d, i) + 1 /\ e.requirements[i].log[v - 1] = Item(d, i)
    <3>1. Longer(d, e, i, x)
      BY <1>7
    <3>2. QED
      BY <1>1, <3>1, NewVersion
  <2>2. CASE i # id
    <3>1. Version(e, i) = Version(d, i) /\ Version(d, i) \in Nat
      BY <1>3, <2>2, LogType DEF Version
    <3>2. QED
      BY <1>12, <3>1
  <2>3. QED
    BY <2>1, <2>2
<1>13. Version(e, id) = Version(d, id) + 1 /\ e.requirements[id].log[Version(d, id) + 1] = x
  BY <1>1, <1>4, LogType DEF Version
<1>14. QED
  BY <1>3, <1>6, <1>9, <1>11, <1>12, <1>13 DEF x

\* The links an edit leaves unsuspected.
LEMMA EditedLinks ==
  ASSUME NEW d, Typed(d), NEW id, NEW e, e = MarkRelationshipsSuspect(d, id, "content-change"),
         NEW n \in DOMAIN d.relationships, ~e.relationships[n].suspect, Active(d.relationships[n])
  PROVE  d.relationships[n].source # id /\ d.relationships[n].target # id
<1> DEFINE link == d.relationships[n]
<1>1. ~(Active(link) /\ Touches(link, id) /\ Triggered(link, id, "content-change"))
  <2>1. Suspected(d, e, id, "content-change")
    BY MarkedLinksStill
  <2>2. QED
    BY <2>1 DEF Suspected
<1>2. link.type \in Types
  <2>1. link \in LinkRecord
    BY DEF Typed
  <2>2. QED
    BY <2>1 DEF LinkRecord
<1>3. Triggered(link, id, "content-change")
  <2>1. {"source", "target"} \X {"content-change"} \subseteq Policy.relationships[link.type].suspectOn
    BY <1>2, PolicyAssumption
  <2>2. QED
    BY <2>1 DEF Triggered
<1>4. QED
  BY <1>1, <1>3 DEF Touches

\* The uses an edit leaves current.
LEMMA EditedUses ==
  ASSUME NEW d, Typed(d), NEW n, Typed(n), Ids(n) = Ids(d), NEW id \in Ids(d), Version(n, id) > Version(d, id),
         NEW e, e = MarkReuseSourceChanged(n, id), NEW use \in Ids(d),
         n.requirements[use].reuse = d.requirements[use].reuse, Current(e.requirements[use].reuse)
  PROVE  e.requirements[use].reuse = d.requirements[use].reuse /\ d.requirements[use].reuse.origin # id
<1> DEFINE reuse == d.requirements[use].reuse
<1>1. use \notin UsesBehind(n, id) /\ e.requirements[use] = n.requirements[use]
  BY MarkedReuseStill
<1>2. reuse # NoReuse /\ reuse.state = "current" /\ e.requirements[use].reuse = reuse
  BY <1>1 DEF Current
<1>3. /\ reuse.version \in Nat /\ reuse.since \in Nat /\ reuse.version <= reuse.since
      /\ reuse.since \in 1..Version(d, reuse.origin)
  BY <1>2, CurrentUse
<1>4. ASSUME reuse.origin = id PROVE FALSE
  <2>1. Version(d, id) \in Nat /\ Version(n, id) \in Nat
    BY LogType
  <2>2. reuse.version < Version(n, id)
    BY <1>3, <1>4, <2>1
  <2>3. use \in UsesBehind(n, id)
    BY <1>2, <1>4, <2>2 DEF UsesBehind
  <2>4. QED
    BY <1>1, <2>3
<1>5. QED
  BY <1>2, <1>4

\* What an edit writes.
EditOf(d, e, id, x) ==
    /\ Typed(e) /\ Extends(d, e) /\ Ids(e) = Ids(d)
    /\ Version(e, id) > Version(d, id) /\ e.requirements[id].log[Version(d, id) + 1] = x
    /\ \A part \in {Material, Evidential} : \A i \in Ids(d) : \A v \in Version(d, i) + 1 .. Version(e, i) :
         ChangedByCommand(e, part, i, v) =>
             i = id /\ v = Version(d, id) + 1 /\ part[x.content] # part[Item(d, id).content]

LEMMA EditedLog ==
  ASSUME NEW d, Typed(d), NEW id \in Ids(d), NEW x \in VersionEntry,
         NEW n, Typed(n), Extends(d, n), Ids(n) = Ids(d), Version(n, id) = Version(d, id) + 1,
         n.requirements[id].log[Version(d, id) + 1] = x,
         \A i \in Ids(d) : \A v \in Version(d, i) + 1 .. Version(n, i) :
              i = id /\ v = Version(d, id) + 1 /\ n.requirements[i].log[v - 1] = Item(d, id),
         NEW e, Typed(e), LogsKept(n, e), Ids(e) = Ids(d)
  PROVE  EditOf(d, e, id, x)
<1>1. Extends(n, e)
  BY DEF LogsKept
<1>2. Extends(d, e)
  BY <1>1, ExtendsChain
<1>3. \A i \in Ids(d) : Version(d, i) \in Nat \ {0} /\ Version(n, i) \in Nat /\ Version(e, i) \in Nat
  BY LogType
<1>4. Version(e, id) > Version(d, id) /\ e.requirements[id].log[Version(d, id) + 1] = x
  <2>1. Version(n, id) <= Version(e, id) /\ \A v \in 1..Version(n, id) : e.requirements[id].log[v] = n.requirements[id].log[v]
    BY <1>1 DEF Extends
  <2>2. QED
    BY <1>3, <2>1
<1>5. ASSUME NEW part \in {Material, Evidential}, NEW i \in Ids(d), NEW v \in Version(d, i) + 1 .. Version(e, i),
             ChangedByCommand(e, part, i, v)
      PROVE  i = id /\ v = Version(d, id) + 1 /\ part[x.content] # part[Item(d, id).content]
  <2>1. ~(v \in Version(n, i) + 1 .. Version(e, i))
    BY <1>5 DEF LogsKept, Unchanged
  <2>2. v \in Version(d, i) + 1 .. Version(n, i) /\ v \in 2..Version(n, i)
    BY <1>3, <2>1
  <2>3. i = id /\ v = Version(d, id) + 1 /\ n.requirements[i].log[v - 1] = Item(d, id)
    BY <2>2
  <2>4. ChangedByCommand(n, part, i, v)
    BY <1>1, <1>5, <2>2, ChangedSame
  <2>5. QED
    BY <2>3, <2>4 DEF ChangedByCommand
<1>6. QED
  BY <1>2, <1>4, <1>5 DEF EditOf

LEMMA EditedTold ==
  ASSUME NEW d, Typed(d), NEW id \in Ids(d), NEW content \in Contents, NEW e, e = Edited(d, id, content),
         NEW S \in SUBSET DOMAIN d.relationships
  PROVE  EditOf(d, e, id, Entry(content, Item(d, id).status, "command")) /\ Told(d, e, S)
<1> DEFINE old == Item(d, id).content
           status == Item(d, id).status
           x == Entry(content, status, "command")
           material == Material[content] # Material[old]
           evidential == Evidential[content] # Evidential[old]
           n1 == Bump(d, id, content, status, "command")
           n2 == IF material THEN MarkRelationshipsSuspect(n1, id, "content-change") ELSE n1
           n3 == IF evidential THEN MarkEvidencePotentiallyStale(n2, id) ELSE n2
<1>1. e = IF material THEN MarkReuseSourceChanged(n3, id) ELSE n3
  BY DEF Edited
<1>2. status \in Statuses
  BY LogType DEF VersionEntry
<1>3. x \in VersionEntry /\ x.content = content
  BY <1>2, EntryType
<1>4. Bumped(d, n1, id, x)
  BY <1>2, BumpEffect
<1>5. /\ Typed(n1) /\ Extends(d, n1) /\ Ids(n1) = Ids(d) /\ Version(n1, id) = Version(d, id) + 1
      /\ \A i \in Ids(d) : n1.requirements[i].reuse = d.requirements[i].reuse
      /\ n1.requirements[id].log[Version(d, id) + 1] = x
      /\ \A i \in Ids(d) : \A v \in Version(d, i) + 1 .. Version(n1, i) :
           i = id /\ v = Version(d, id) + 1 /\ n1.requirements[i].log[v - 1] = Item(d, id)
  BY <1>2, BumpExtends
<1> HIDE DEF n1, x, material, evidential
<1>6. /\ n1.relationships = d.relationships /\ n1.evidence = d.evidence
      /\ n1.memberships = d.memberships /\ n1.changes = d.changes
  BY <1>4 DEF Bumped
<1>7. /\ Typed(n2) /\ n2.requirements = n1.requirements /\ n2.evidence = d.evidence
      /\ n2.memberships = d.memberships /\ n2.changes = d.changes
  <2>1. CASE material
    BY <1>5, <1>6, <2>1, MarkedLinksStill DEF Still
  <2>2. CASE ~material
    BY <1>5, <1>6, <2>2
  <2>3. QED
    BY <2>1, <2>2
<1>8. ASSUME NEW n \in DOMAIN d.relationships
      PROVE  /\ n \in DOMAIN n2.relationships
             /\ n2.relationships[n].source = d.relationships[n].source
             /\ n2.relationships[n].target = d.relationships[n].target
             /\ Active(n2.relationships[n]) /\ ~n2.relationships[n].suspect =>
                  /\ Active(d.relationships[n]) /\ ~d.relationships[n].suspect
                  /\ material => d.relationships[n].source # id /\ d.relationships[n].target # id
  <2>1. CASE material
    <3>1. n2 = MarkRelationshipsSuspect(n1, id, "content-change")
      BY <2>1
    <3> HIDE DEF n2
    <3>2. Suspected(n1, n2, id, "content-change")
      BY <1>5, <3>1, MarkedLinksStill
    <3>3. /\ n \in DOMAIN n2.relationships
          /\ n2.relationships[n].source = d.relationships[n].source
          /\ n2.relationships[n].target = d.relationships[n].target
          /\ ~n2.relationships[n].suspect => n2.relationships[n] = d.relationships[n]
      BY <1>6, <3>2 DEF Suspected
    <3>4. ASSUME Active(n2.relationships[n]), ~n2.relationships[n].suspect
          PROVE  d.relationships[n].source # id /\ d.relationships[n].target # id
      BY <1>5, <1>6, <3>1, <3>3, <3>4, EditedLinks
    <3>5. QED
      BY <3>3, <3>4
  <2>2. CASE ~material
    BY <1>6, <2>2
  <2>3. QED
    BY <2>1, <2>2
<1> HIDE DEF n2
<1>9. /\ Typed(n3) /\ n3.requirements = n1.requirements /\ n3.relationships = n2.relationships
      /\ n3.memberships = d.memberships /\ n3.changes = d.changes
      /\ \A y \in n3.evidence : ~y.stale => y \in d.evidence /\ (evidential => y.requirement # id)
  <2>1. CASE evidential
    BY <1>7, <2>1, MarkedEvidenceStill DEF Still
  <2>2. CASE ~evidential
    BY <1>7, <2>2
  <2>3. QED
    BY <2>1, <2>2
<1> HIDE DEF n3
<1>10. Ids(n3) = Ids(d) /\ \A i : Version(n3, i) = Version(n1, i)
  BY <1>5, <1>9 DEF Ids, Version
<1>11. /\ Typed(e) /\ LogsKept(n3, e) /\ Ids(e) = Ids(d) /\ e.relationships = n2.relationships
       /\ e.evidence = n3.evidence /\ e.memberships = d.memberships /\ e.changes = d.changes
  <2>1. CASE material
    <3>1. Still(n3, e) /\ OtherwiseSame(n3, e) /\ Ids(e) = Ids(n3)
      BY <1>1, <1>9, <2>1, MarkedReuseStill
    <3>2. Typed(e) /\ LogsKept(n3, e)
      BY <3>1 DEF Still, Quiet
    <3>3. QED
      BY <1>9, <1>10, <3>1, <3>2 DEF OtherwiseSame
  <2>2. CASE ~material
    <3>1. e = n3
      BY <1>1, <2>2
    <3>2. LogsKept(n3, n3)
      BY <1>9, SameLogs
    <3>3. QED
      BY <1>9, <1>10, <3>1, <3>2
  <2>3. QED
    BY <2>1, <2>2
<1>12. ASSUME NEW use \in Ids(d), Current(e.requirements[use].reuse)
       PROVE  /\ d.requirements[use].reuse = e.requirements[use].reuse
              /\ material => e.requirements[use].reuse.origin # id
  <2>1. n3.requirements[use].reuse = d.requirements[use].reuse
    BY <1>5, <1>9
  <2>2. CASE material
    <3>1. e = MarkReuseSourceChanged(n3, id)
      BY <1>1, <2>2
    <3>2. Version(n3, id) > Version(d, id)
      BY <1>5, <1>10, LogType
    <3>3. QED
      BY <1>9, <1>10, <1>12, <2>1, <3>1, <3>2, EditedUses
  <2>3. CASE ~material
    BY <1>1, <2>1, <2>3
  <2>4. QED
    BY <2>2, <2>3
<1>13. EditOf(d, e, id, x)
  <2>1. LogsKept(n1, e)
    BY <1>9, <1>11, SameRequirements
  <2>2. QED
    BY <1>3, <1>5, <1>11, <2>1, EditedLog
<1> DEFINE edited(part, i) == \E v \in Version(d, i) + 1 .. Version(e, i) : ChangedByCommand(e, part, i, v)
<1>14. ASSUME NEW i \in Ids(d), i # id \/ ~material PROVE ~edited(Material, i)
  BY <1>3, <1>13, <1>14 DEF EditOf, material
<1>15. ASSUME NEW i \in Ids(d), i # id \/ ~evidential PROVE ~edited(Evidential, i)
  BY <1>3, <1>13, <1>15 DEF EditOf, evidential
<1>16. \A n \in S : /\ d.relationships[n].source \in Ids(d) /\ d.relationships[n].target \in Ids(d)
  BY DEF Typed
<1>17. \A y \in d.evidence : y.requirement \in Ids(d)
  BY DEF Typed
<1>18. \A use \in Ids(d) : Current(d.requirements[use].reuse) => d.requirements[use].reuse.origin \in Ids(d)
  BY CurrentUse
<1>19. Told(d, e, S)
  <2>1. Extends(d, e)
    BY <1>13 DEF EditOf
  <2> HIDE DEF edited
  <2>2. \A n \in S :
          /\ n \in DOMAIN e.relationships
          /\ e.relationships[n].source = d.relationships[n].source
          /\ e.relationships[n].target = d.relationships[n].target
          /\ Active(e.relationships[n]) /\ ~e.relationships[n].suspect =>
               /\ Active(d.relationships[n]) /\ ~d.relationships[n].suspect
               /\ ~edited(Material, d.relationships[n].source)
               /\ ~edited(Material, d.relationships[n].target)
    BY <1>8, <1>11, <1>14, <1>16
  <2>3. \A y \in e.evidence : ~y.stale => y \in d.evidence /\ ~edited(Evidential, y.requirement)
    BY <1>9, <1>11, <1>15, <1>17
  <2>4. \A use \in Ids(e) : LET reuse == e.requirements[use].reuse IN
          Current(reuse) => d.requirements[use].reuse = reuse /\ ~edited(Material, reuse.origin)
    BY <1>11, <1>12, <1>14, <1>18
  <2>5. QED
    BY <1>11, <2>1, <2>2, <2>3, <2>4 DEF Told, edited
<1>20. QED
  BY <1>13, <1>19 DEF x

----------------------------------------------------------------------------
(* The operations a command applies.                                       *)

LEMMA KeepsItself ==
  ASSUME NEW d
  PROVE  Keeps(d, d)
BY DEF Keeps

LEMMA KeepsChain ==
  ASSUME NEW d, NEW e, NEW f, Keeps(d, e), Keeps(e, f)
  PROVE  Keeps(d, f)
BY DEF Keeps

\* The change that is being implemented, if one is, is a change of the documents.
Implementing(d, ch) == ch = 0 \/ ch \in DOMAIN d.changes

LEMMA UpdateOperation ==
  ASSUME NEW op \in Operation, op.op = "update"
  PROVE  /\ op.expectedVersion \in Nat /\ op.patch \in Contents
         /\ op = [op |-> "update", id |-> op.id, expectedVersion |-> op.expectedVersion, patch |-> op.patch]
<1>1. op \in [op : {"update"}, id : Nat, expectedVersion : Nat, patch : Contents]
  BY DEF Operation
<1>2. QED
  BY <1>1

LEMMA EditGoverned ==
  ASSUME NEW d, Typed(d), NEW ch, Implementing(d, ch), NEW op \in Operation, op.op = "update",
         AssertItemVersion(d, op.id, op.expectedVersion),
         Material[op.patch] # Material[Item(d, op.id).content] => AssertApprovedChangeForProtectedContent(d, op, ch),
         NEW e, NEW x, x.content = op.patch, EditOf(d, e, op.id, x),
         e.memberships = d.memberships, e.changes = d.changes,
         NEW i \in Ids(d), NEW v \in Version(d, i) + 1 .. Version(e, i),
         ChangedByCommand(e, Material, i, v), Protected(e, i, v - 1)
  PROVE  \E c \in DOMAIN e.changes : (Implemented(e, c) \/ c = ch) /\ Proposed(e, c, i, v)
<1>1. /\ i = op.id /\ v = Version(d, op.id) + 1 /\ Material[x.content] # Material[Item(d, op.id).content]
  BY DEF EditOf
<1>2. AssertApprovedChangeForProtectedContent(d, op, ch)
  BY <1>1
<1>3. op.id \in Ids(d) /\ op.expectedVersion = Version(d, op.id)
  BY DEF AssertItemVersion
<1>4. Version(d, op.id) \in Nat \ {0} /\ v - 1 = Version(d, op.id) /\ v - 1 \in 1..Version(d, op.id)
  BY <1>1, <1>3, LogType
<1>5. e.requirements[i].log[v - 1] = Item(d, op.id)
  <2>1. e.requirements[i].log[v - 1] = d.requirements[i].log[v - 1]
    BY <1>1, <1>4 DEF EditOf, Extends
  <2>2. QED
    BY <1>1, <1>3, <1>4, <2>1, LogType
<1>6. Authorizes(d, ch, op)
  <2>1. \/ Item(d, op.id).status \in Policy.protectedStatuses
        \/ BaselineMemberships(d, op.id, Version(d, op.id)) # {}
    BY <1>1, <1>4, <1>5 DEF Protected, BaselineMemberships
  <2>2. QED
    BY <1>2, <2>1 DEF AssertApprovedChangeForProtectedContent
<1>7. PICK n \in DOMAIN d.changes[ch].proposals : ch # 0 /\ d.changes[ch].proposals[n] = op
  BY <1>6 DEF Authorizes
<1>8. e.requirements[i].log[v] = x
  BY <1>1 DEF EditOf
<1>9. op = [op |-> "update", id |-> i, expectedVersion |-> v - 1, patch |-> e.requirements[i].log[v].content]
  BY <1>1, <1>3, <1>4, <1>8, UpdateOperation
<1>10. ch \in DOMAIN e.changes /\ Proposed(e, ch, i, v)
  BY <1>7, <1>9 DEF Implementing, Proposed
<1>11. QED
  BY <1>10

LEMMA UpdateFollows ==
  ASSUME NEW d, NEW ch, NEW assessment, NEW S, Sound(d, ch, assessment, S), Assessment(assessment, S),
         Implementing(d, ch), NEW op \in Operation, op.op = "update", NEW e \in UpdateCandidate(d, op, ch)
  PROVE  Sound(e, ch, assessment, S) /\ Keeps(d, e) /\ Done(e, op)
<1> DEFINE id == op.id  item == Item(d, id)  x == Entry(op.patch, item.status, "command")
<1>1. Typed(d) /\ S \in SUBSET DOMAIN d.relationships
  BY DEF Sound
<1>2. /\ AssertItemVersion(d, id, op.expectedVersion)
      /\ Material[op.patch] # Material[item.content] => AssertApprovedChangeForProtectedContent(d, op, ch)
      /\ \/ e = d /\ op.patch = item.content
         \/ e = Edited(d, id, op.patch)
  BY DEF UpdateCandidate
<1>3. id \in Ids(d) /\ op.expectedVersion = Version(d, id) /\ op.patch \in Contents
  BY <1>2, UpdateOperation DEF AssertItemVersion
<1>4. /\ Version(d, id) \in Nat \ {0} /\ item = d.requirements[id].log[Version(d, id)]
      /\ d.requirements[id].log \in Seq(VersionEntry) /\ item \in VersionEntry
  BY <1>1, <1>3, LogType
<1>5. CASE e = d /\ op.patch = item.content
  <2>1. Version(d, id) \in DOMAIN d.requirements[id].log
    BY <1>4 DEF Version
  <2>2. Done(d, op)
    BY <1>3, <1>4, <1>5, <2>1 DEF Done
  <2>3. QED
    BY <1>5, <2>2, KeepsItself
<1>6. CASE e = Edited(d, id, op.patch)
  <2>1. EditOf(d, e, id, x) /\ Told(d, e, S)
    BY <1>1, <1>3, <1>6, EditedTold
  <2>2. x.content = op.patch /\ x.by = "command"
    BY <1>3, <1>4, EntryType DEF VersionEntry
  <2> HIDE DEF x
  <2>3. Typed(e) /\ e.memberships = d.memberships /\ e.changes = d.changes
    BY <2>1 DEF EditOf, Told
  <2>4. ASSUME NEW i \in Ids(d), NEW v \in Version(d, i) + 1 .. Version(e, i),
               ChangedByCommand(e, Material, i, v), Protected(e, i, v - 1)
        PROVE  \E c \in DOMAIN e.changes : (Implemented(e, c) \/ c = ch) /\ Proposed(e, c, i, v)
    BY <1>1, <1>2, <2>1, <2>2, <2>3, <2>4, EditGoverned
  <2>5. Sound(e, ch, assessment, S) /\ Keeps(d, e)
    BY <2>1, <2>3, <2>4, ToldSound
  <2>6. Done(e, op)
    <3>1. id \in Ids(e) /\ Version(e, id) > Version(d, id) /\ e.requirements[id].log[Version(d, id) + 1] = x
      BY <1>3, <2>1 DEF EditOf
    <3>2. e.requirements[id].log \in Seq(VersionEntry)
      BY <2>3, <3>1, LogType
    <3>3. op.expectedVersion \in DOMAIN e.requirements[id].log
      BY <1>3, <1>4, <3>1, <3>2 DEF Version
    <3>4. QED
      BY <1>3, <2>2, <3>1, <3>3 DEF Done, Version
  <2>7. QED
    BY <2>5, <2>6
<1>7. QED
  BY <1>2, <1>5, <1>6

LEMMA RetireFollows ==
  ASSUME NEW d, NEW ch, NEW assessment, NEW S, Sound(d, ch, assessment, S), Assessment(assessment, S),
         NEW op \in Operation, op.op = "retire", NEW e \in RetireCandidate(d, op, ch)
  PROVE  Sound(e, ch, assessment, S) /\ Keeps(d, e) /\ Done(e, op)
<1> DEFINE id == op.id
           content == Item(d, id).content
           bumped == Bump(d, id, content, "retired", "command")
           marked == MarkRelationshipsSuspect(bumped, id, "retirement")
           new == MarkEvidencePotentiallyStale(marked, id)
<1>1. /\ AssertItemVersion(d, id, op.expectedVersion)
      /\ \/ e = new
         \/ op.replacement \in Ids(d) /\ e = NewLink(new, "supersedes", op.replacement, id)
  BY DEF RetireCandidate
<1>2. id \in Ids(d) /\ op.expectedVersion = Version(d, id) /\ Typed(d)
  BY <1>1 DEF AssertItemVersion, Sound
<1>3. content \in Contents /\ "retired" \in Statuses /\ Version(d, id) \in Nat \ {0}
  BY <1>2, LogType DEF VersionEntry, Statuses
<1>4. Still(d, bumped)
  BY <1>2, <1>3, BumpStill
<1>5. /\ Ids(bumped) = Ids(d) /\ Version(bumped, id) = Version(d, id) + 1
      /\ bumped.requirements[id].log[Version(d, id) + 1] = Entry(content, "retired", "command")
  BY <1>2, <1>3, BumpExtends
<1> HIDE DEF bumped
<1>6. Sound(bumped, ch, assessment, S) /\ Keeps(d, bumped) /\ Typed(bumped)
  BY <1>4, StillFollows
<1>7. Done(bumped, op)
  <2>1. bumped.requirements[id].log \in Seq(VersionEntry)
    BY <1>2, <1>5, <1>6, LogType
  <2>2. op.expectedVersion \in DOMAIN bumped.requirements[id].log
    BY <1>2, <1>3, <1>5, <2>1 DEF Version
  <2>3. LET y == Entry(content, "retired", "command") IN y.by = "command" /\ y.status = "retired"
    BY <1>3, EntryType
  <2>4. id \in Ids(bumped) /\ Len(bumped.requirements[id].log) > op.expectedVersion
    <3>1. Version(bumped, id) > op.expectedVersion
      BY <1>2, <1>3, <1>5
    <3>2. QED
      BY <1>2, <1>5, <3>1 DEF Version
  <2>5. /\ bumped.requirements[id].log[op.expectedVersion + 1].by = "command"
        /\ bumped.requirements[id].log[op.expectedVersion + 1].status = "retired"
    BY <1>2, <1>5, <2>3
  <2>6. op.op # "update"
    OBVIOUS
  <2>7. QED
    BY <2>2, <2>4, <2>5, <2>6 DEF Done
<1>8. Still(bumped, marked) /\ marked.requirements = bumped.requirements
  BY <1>6, MarkedLinksStill
<1> HIDE DEF marked
<1>9. Sound(marked, ch, assessment, S) /\ Keeps(bumped, marked) /\ Typed(marked)
  BY <1>6, <1>8, StillFollows
<1>10. Still(marked, new) /\ new.requirements = marked.requirements
  BY <1>9, MarkedEvidenceStill
<1> HIDE DEF new
<1>11. Sound(new, ch, assessment, S) /\ Keeps(marked, new) /\ Typed(new)
  BY <1>9, <1>10, StillFollows
<1>12. Sound(e, ch, assessment, S) /\ Keeps(new, e)
  <2>1. CASE e = new
    BY <1>11, <2>1, KeepsItself
  <2>2. CASE op.replacement \in Ids(d) /\ e = NewLink(new, "supersedes", op.replacement, id)
    <3>1. id \in Ids(new) /\ op.replacement \in Ids(new)
      BY <1>2, <1>5, <1>8, <1>10, <2>2 DEF Ids
    <3>2. "supersedes" \in Types
      BY PolicyAssumption
    <3>3. Still(new, e)
      BY <1>11, <2>2, <3>1, <3>2, NewLinkStill
    <3>4. QED
      BY <1>11, <3>3, StillFollows
  <2>3. QED
    BY <1>1, <2>1, <2>2
<1>13. Keeps(bumped, e)
  BY <1>9, <1>11, <1>12, KeepsChain
<1>14. Done(e, op)
  BY <1>2, <1>3, <1>7, <1>13 DEF Keeps
<1>15. QED
  BY <1>6, <1>12, <1>13, <1>14, KeepsChain

LEMMA OperationFollows ==
  ASSUME NEW d, NEW ch, NEW assessment, NEW S, Sound(d, ch, assessment, S), Assessment(assessment, S),
         Implementing(d, ch), NEW op \in Operation, NEW e \in ApplyBulkOperation(d, op, ch)
  PROVE  /\ Sound(e, ch, assessment, S) /\ Keeps(d, e) /\ Implementing(e, ch)
         /\ op.op # "create" => Done(e, op)
<1>1. op.op \in {"create", "update", "retire"}
  BY DEF Operation
<1>2. Sound(e, ch, assessment, S) /\ Keeps(d, e) /\ (op.op # "create" => Done(e, op))
  <2>1. CASE op.op = "create"
    <3>1. op.content \in Contents
      <4>1. op \in [op : {"create"}, content : Contents]
        BY <2>1 DEF Operation
      <4>2. QED
        BY <4>1
    <3>2. e = NewRequirement(d, op.content, Policy.defaultStatus, NoReuse, "none", "command")
      BY <2>1 DEF ApplyBulkOperation, CreateCandidate
    <3>3. Policy.defaultStatus \in Statuses /\ NoReuse \in ReuseRecord /\ Written(d, NoReuse) /\ Typed(d)
      BY DEF Statuses, ReuseRecord, Written, Sound
    <3>4. Still(d, e)
      BY <3>1, <3>2, <3>3, NewRequirementStill
    <3>5. QED
      BY <2>1, <3>4, StillFollows
  <2>2. CASE op.op = "update"
    <3>1. e \in UpdateCandidate(d, op, ch)
      BY <2>2 DEF ApplyBulkOperation
    <3>2. QED
      BY <2>2, <3>1, UpdateFollows
  <2>3. CASE op.op = "retire"
    <3>1. e \in RetireCandidate(d, op, ch)
      BY <2>3 DEF ApplyBulkOperation
    <3>2. QED
      BY <2>3, <3>1, RetireFollows
  <2>4. QED
    BY <1>1, <2>1, <2>2, <2>3
<1>3. QED
  BY <1>2 DEF Implementing, Keeps

----------------------------------------------------------------------------
(* Induction: a set of naturals has a least member, so a set that holds 0  *)
(* and the successor of each of its members below N holds 0..N.            *)

LEMMA LeastMember ==
  ASSUME NEW S \in SUBSET Nat, S # {}
  PROVE  \E m \in S : \A k \in S : m <= k
<1> DEFINE R == {ss \in Nat \X Nat : ss[1] < ss[2]}
<1>1. IsWellFoundedOn(R, Nat)
  BY NatLessThanWellFounded DEF OpToRel
<1>2. \A k, m \in Nat : k < m => <<k, m>> \in R
  OBVIOUS
<1>3. PICK m \in S : \A k \in S : ~ (<<k, m>> \in R)
  <2> HIDE DEF R
  <2>1. QED
    BY <1>1, WFMin
<1>4. ASSUME NEW k \in S PROVE m <= k
  <2>1. ~(k < m)
    BY <1>2, <1>3
  <2>2. QED
    BY <2>1
<1>5. QED
  BY <1>4

\* Induction for the set S of the numbers that have a property.
LEMMA Reaches ==
  ASSUME NEW N \in Nat, NEW S, 0 \in S, \A n \in 0..N : n \in S /\ n < N => n + 1 \in S
  PROVE  0..N \subseteq S
<1> DEFINE Missing == (0..N) \ S
<1>1. SUFFICES ASSUME Missing # {} PROVE FALSE
  OBVIOUS
<1>2. PICK m \in Missing : \A k \in Missing : m <= k
  <2>1. Missing \in SUBSET Nat
    OBVIOUS
  <2>2. QED
    BY <1>1, <2>1, LeastMember
<1>3. m \in 1..N /\ m - 1 \in 0..N /\ m - 1 < N
  BY <1>2
<1>4. m - 1 \in S
  BY <1>2, <1>3
<1>5. QED
  BY <1>2, <1>3, <1>4

\* The recursion of ApplyOperations has a solution: it is the one ApplyOperations takes.
InOrder(after, d, operations, change) ==
    /\ after = [n \in 0..Len(operations) |->
                  IF n = 0 THEN {d}
                  ELSE UNION {ApplyBulkOperation(c, operations[n], change) : c \in after[n - 1]}]
    /\ ApplyOperations(d, operations, change) = after[Len(operations)]

LEMMA AppliedInOrder ==
  ASSUME NEW d, NEW operations \in Seq(Operation), NEW change
  PROVE  \E after : InOrder(after, d, operations, change)
<1> DEFINE N == Len(operations)
           Step(n, cs) == UNION {ApplyBulkOperation(c, operations[n], change) : c \in cs}
           Rec(f, k) == f = [n \in 0..k |-> IF n = 0 THEN {d} ELSE Step(n, f[n - 1])]
           Some == {k \in Nat : \E f : Rec(f, k)}
<1>1. N \in Nat
  OBVIOUS
<1> HIDE DEF Step, N
<1>2. 0 \in Some
  <2>1. Rec([n \in 0..0 |-> {d}], 0)
    OBVIOUS
  <2>2. QED
    BY <2>1
<1>3. ASSUME NEW k \in 0..N, k \in Some, k < N PROVE k + 1 \in Some
  <2>1. PICK g : Rec(g, k)
    BY <1>3
  <2> DEFINE f == [n \in 0..k + 1 |-> IF n = k + 1 THEN Step(k + 1, g[k]) ELSE g[n]]
  <2>2. ASSUME NEW n \in 0..k + 1 PROVE f[n] = IF n = 0 THEN {d} ELSE Step(n, f[n - 1])
    <3>1. CASE n = k + 1
      BY <1>1, <3>1
    <3>2. CASE n # k + 1
      <4>1. n \in 0..k /\ f[n] = g[n] /\ (n # 0 => f[n - 1] = g[n - 1])
        BY <1>1, <3>2
      <4>2. g[n] = IF n = 0 THEN {d} ELSE Step(n, g[n - 1])
        BY <2>1, <4>1
      <4>3. QED
        BY <4>1, <4>2
    <3>3. QED
      BY <3>1, <3>2
  <2>3. Rec(f, k + 1)
    <3>1. f = [n \in 0..k + 1 |-> f[n]]
      OBVIOUS
    <3> HIDE DEF f
    <3>2. QED
      BY <2>2, <3>1
  <2> HIDE DEF Rec, f
  <2>4. QED
    BY <1>1, <2>3
<1>4. N \in Some
  <2> HIDE DEF Some
  <2>1. \A n \in 0..N : n \in Some /\ n < N => n + 1 \in Some
    BY <1>3
  <2>2. 0..N \subseteq Some
    BY <1>1, <1>2, <2>1, Reaches
  <2>3. QED
    BY <1>1, <2>2
<1> DEFINE after == CHOOSE f : Rec(f, N)
<1>5. Rec(after, N)
  BY <1>4
<1>6. ApplyOperations(d, operations, change) = after[N]
  BY DEF ApplyOperations, Step, N
<1>7. InOrder(after, d, operations, change)
  BY <1>5, <1>6 DEF InOrder, Step, N
<1>8. QED
  BY <1>7

LEMMA TargetedOperation ==
  ASSUME NEW op \in Operation, op.op # "create"
  PROVE  op.expectedVersion \in Nat
<1>1. CASE op \in [op : {"create"}, content : Contents]
  BY <1>1
<1>2. CASE op \in [op : {"update"}, id : Nat, expectedVersion : Nat, patch : Contents]
  BY <1>2
<1>3. CASE op \in [op : {"retire"}, id : Nat, expectedVersion : Nat, replacement : Nat]
  BY <1>3
<1>4. QED
  BY <1>1, <1>2, <1>3 DEF Operation

LEMMA OperationsFollow ==
  ASSUME NEW d, NEW ch, NEW assessment, NEW S, Sound(d, ch, assessment, S), Assessment(assessment, S),
         Implementing(d, ch), NEW operations \in Seq(Operation), NEW e \in ApplyOperations(d, operations, ch)
  PROVE  /\ Sound(e, ch, assessment, S) /\ Keeps(d, e)
         /\ \A n \in Targeted(operations) : Done(e, operations[n])
<1> DEFINE N == Len(operations)
           Performed(c, n) == \A m \in 1..n : operations[m].op # "create" => Done(c, operations[m])
           Fine(c, n) == /\ Sound(c, ch, assessment, S) /\ Keeps(d, c) /\ Implementing(c, ch)
                         /\ Performed(c, n)
<1>1. PICK after : InOrder(after, d, operations, ch)
  BY AppliedInOrder
<1> DEFINE Good == {n \in 0..N : \A c \in after[n] : Fine(c, n)}
<1>2. N \in Nat
  OBVIOUS
<1>3. 0 \in Good
  <2>1. after[0] = {d}
    BY <1>1, <1>2 DEF InOrder
  <2>2. Fine(d, 0)
    BY KeepsItself
  <2> HIDE DEF Fine
  <2>3. QED
    BY <1>2, <2>1, <2>2
<1>4. ASSUME NEW n \in 0..N, n \in Good, n < N PROVE n + 1 \in Good
  <2>1. SUFFICES ASSUME NEW c \in after[n + 1] PROVE Fine(c, n + 1)
    BY <1>2, <1>4
  <2>2. n + 1 \in 1..N /\ operations[n + 1] \in Operation
    BY <1>2, <1>4
  <2>3. after[n + 1] = UNION {ApplyBulkOperation(b, operations[n + 1], ch) : b \in after[n]}
    BY <1>1, <2>2 DEF InOrder
  <2>4. PICK b \in after[n] : c \in ApplyBulkOperation(b, operations[n + 1], ch)
    BY <2>3
  <2>5. Fine(b, n)
    BY <1>4, <2>4
  <2>6. /\ Sound(c, ch, assessment, S) /\ Keeps(b, c) /\ Implementing(c, ch)
        /\ operations[n + 1].op # "create" => Done(c, operations[n + 1])
    BY <2>2, <2>4, <2>5, OperationFollows
  <2>7. Keeps(d, c)
    BY <2>5, <2>6, KeepsChain
  <2>8. Performed(c, n + 1)
    <3>1. SUFFICES ASSUME NEW m \in 1..n + 1, operations[m].op # "create" PROVE Done(c, operations[m])
      OBVIOUS
    <3>2. CASE m = n + 1
      BY <2>6, <3>1, <3>2
    <3>3. CASE m # n + 1
      <4>1. m \in 1..n /\ operations[m] \in Operation
        BY <1>2, <1>4, <3>3
      <4>2. Done(b, operations[m])
        BY <2>5, <3>1, <4>1
      <4>3. operations[m].expectedVersion \in Nat
        BY <3>1, <4>1, TargetedOperation
      <4>4. QED
        BY <2>6, <4>2, <4>3 DEF Keeps
    <3>4. QED
      BY <3>2, <3>3
  <2>9. QED
    BY <2>6, <2>7, <2>8
<1>5. e \in after[N]
  BY <1>1 DEF InOrder
<1>6. Fine(e, N)
  <2> HIDE DEF Fine
  <2>1. 0..N \subseteq Good
    <3> HIDE DEF Good
    <3>1. \A n \in 0..N : n \in Good /\ n < N => n + 1 \in Good
      BY <1>4
    <3>2. QED
      BY <1>2, <1>3, <3>1, Reaches
  <2>2. QED
    BY <1>2, <1>5, <2>1
<1>7. ASSUME NEW n \in Targeted(operations) PROVE Done(e, operations[n])
  <2>1. n \in 1..N /\ operations[n].op # "create"
    BY DEF Targeted
  <2>2. QED
    BY <1>6, <2>1
<1>8. QED
  BY <1>6, <1>7

----------------------------------------------------------------------------
(* Imports.                                                                *)

SameRecords(d, e) ==
    DOMAIN e = DOMAIN d /\ e.evidence = d.evidence /\ e.memberships = d.memberships /\ e.changes = d.changes

ImportRow == [id : Nat, expectedVersion : Nat, content : Contents, status : Statuses, reuse : FileReuse]
ImportLink == [type : Types, source : Nat, target : Nat]

\* A step of an import.
Imported(d, e, ch, assessment, S) == Sound(e, ch, assessment, S) /\ SameRecords(d, e)

LEMMA ReuseWritten ==
  ASSUME NEW d, Typed(d), NEW mode \in {"governed-reference", "controlled-clone"}, NEW origin \in Nat,
         NEW version \in Nat \ {0}, NEW state \in {"current", "source-changed", "intentional-divergence"}
  PROVE  LET reuse == Reuse(d, mode, origin, version, state) IN reuse \in ReuseRecord /\ Written(d, reuse)
<1> DEFINE since == IF origin \in Ids(d) THEN Version(d, origin) ELSE 0
           reuse == [mode |-> mode, origin |-> origin, version |-> version, state |-> state, since |-> since]
<1>1. since \in Nat /\ (since > 0 => origin \in Ids(d) /\ since = Version(d, origin))
  BY LogType
<1>2. Reuse(d, mode, origin, version, state) = reuse
  BY DEF Reuse
<1> HIDE DEF since
<1>3. reuse \in ReuseRecord
  BY <1>1 DEF ReuseRecord
<1>4. Written(d, reuse)
  BY <1>1 DEF Written
<1>5. QED
  BY <1>2, <1>3, <1>4

LEMMA ImportedReuseWritten ==
  ASSUME NEW d, Typed(d), NEW row \in ImportRow
  PROVE  ImportedReuse(d, row) \in ReuseRecord /\ Written(d, ImportedReuse(d, row))
<1>1. CASE row.reuse = NoReuse
  BY <1>1 DEF ImportedReuse, ReuseRecord, Written
<1>2. CASE row.reuse # NoReuse
  <2>1. row.reuse \in [mode : {"governed-reference", "controlled-clone"}, origin : Nat, version : Nat \ {0},
                       state : {"current", "source-changed", "intentional-divergence"}]
    BY <1>2 DEF ImportRow, FileReuse
  <2>2. /\ row.reuse.mode \in {"governed-reference", "controlled-clone"} /\ row.reuse.origin \in Nat
        /\ row.reuse.version \in Nat \ {0}
        /\ row.reuse.state \in {"current", "source-changed", "intentional-divergence"}
    BY <2>1
  <2>3. QED
    BY <1>2, <2>2, ReuseWritten DEF ImportedReuse
<1>3. QED
  BY <1>1, <1>2

LEMMA RequirementImported ==
  ASSUME NEW d, NEW ch, NEW assessment, NEW S, Sound(d, ch, assessment, S), Assessment(assessment, S),
         NEW row \in ImportRow, NEW e \in ImportRequirement(d, row)
  PROVE  Imported(d, e, ch, assessment, S)
<1> DEFINE bumped == Bump(d, row.id, row.content, row.status, "import")
           reuse == ImportedReuse(bumped, row)
           r == [bumped.requirements[row.id] EXCEPT !.reuse = reuse]
           rewritten == [bumped EXCEPT !.requirements = [@ EXCEPT ![row.id] = r]]
<1>1. Typed(d) /\ row.content \in Contents /\ row.status \in Statuses
  BY DEF Sound, ImportRow
<1>2. CASE e = d
  BY <1>2 DEF Imported, SameRecords
<1>3. CASE e = NewRequirement(d, row.content, row.status, ImportedReuse(d, row), "none", "import")
  <2>1. ImportedReuse(d, row) \in ReuseRecord /\ Written(d, ImportedReuse(d, row))
    BY <1>1, ImportedReuseWritten
  <2>2. Still(d, e) /\ OtherwiseSame(d, e)
    BY <1>1, <1>3, <2>1, NewRequirementStill
  <2>3. QED
    BY <2>2, StillFollows DEF Imported, SameRecords, OtherwiseSame
<1>4. CASE row.id \in Ids(d) /\ e \in {bumped, rewritten}
  <2>1. Still(d, bumped)
    BY <1>1, <1>4, BumpStill
  <2>2. Bumped(d, bumped, row.id, Entry(row.content, row.status, "import"))
    BY <1>1, <1>4, BumpEffect
  <2> HIDE DEF bumped
  <2>3. Sound(bumped, ch, assessment, S) /\ Typed(bumped)
    BY <2>1, StillFollows
  <2>4. row.id \in Ids(bumped) /\ SameRecords(d, bumped)
    BY <1>4, <2>2 DEF Bumped, SameRecords
  <2>5. bumped.requirements[row.id] \in RequirementRecord
    BY <2>3, <2>4, LogType
  <2>6. reuse \in ReuseRecord /\ Written(bumped, reuse)
    BY <2>3, ImportedReuseWritten
  <2> HIDE DEF reuse
  <2>7. r \in RequirementRecord /\ r.log = bumped.requirements[row.id].log /\ r.reuse = reuse
    BY <2>5, <2>6 DEF RequirementRecord
  <2> HIDE DEF r
  <2>8. CASE e = bumped
    BY <2>3, <2>4, <2>8 DEF Imported
  <2>9. CASE e = rewritten
    <3>1. Still(bumped, e) /\ OtherwiseSame(bumped, e)
      BY <2>3, <2>4, <2>6, <2>7, <2>9, RequirementStill
    <3>2. Sound(e, ch, assessment, S)
      BY <2>3, <3>1, StillFollows
    <3>3. QED
      BY <2>4, <3>1, <3>2 DEF Imported, SameRecords, OtherwiseSame
  <2>10. QED
    BY <1>4, <2>8, <2>9
<1>5. QED
  BY <1>2, <1>3, <1>4 DEF ImportRequirement

LEMMA RelationshipImported ==
  ASSUME NEW d, NEW ch, NEW assessment, NEW S, Sound(d, ch, assessment, S), Assessment(assessment, S),
         NEW row \in ImportLink, NEW e \in ImportRelationship(d, row)
  PROVE  Imported(d, e, ch, assessment, S)
<1>1. CASE e = d
  BY <1>1 DEF Imported, SameRecords
<1>2. CASE row.source \in Ids(d) /\ row.target \in Ids(d) /\ e = NewLink(d, row.type, row.source, row.target)
  <2>1. Typed(d) /\ row.type \in Types
    BY DEF Sound, ImportLink
  <2>2. Still(d, e) /\ e.evidence = d.evidence /\ e.memberships = d.memberships /\ e.changes = d.changes
    BY <1>2, <2>1, NewLinkStill
  <2>3. DOMAIN e = DOMAIN d
    BY <2>1, <2>2 DEF Still, Typed
  <2>4. QED
    BY <2>2, <2>3, StillFollows DEF Imported, SameRecords
<1>3. QED
  BY <1>1, <1>2 DEF ImportRelationship

RowsInOrder(f, d, rows) ==
    f = [n \in 0..Len(rows) |-> IF n = 0 THEN {d} ELSE UNION {ImportRequirement(c, rows[n]) : c \in f[n - 1]}]

LinksInOrder(f, start, rows) ==
    f = [n \in 0..Len(rows) |-> IF n = 0 THEN start ELSE UNION {ImportRelationship(c, rows[n]) : c \in f[n - 1]}]

LEMMA RowsRecursion ==
  ASSUME NEW d, NEW rows, Len(rows) \in Nat
  PROVE  \E f : RowsInOrder(f, d, rows)
<1> DEFINE N == Len(rows)
           Step(n, cs) == UNION {ImportRequirement(c, rows[n]) : c \in cs}
           Rec(f, k) == f = [n \in 0..k |-> IF n = 0 THEN {d} ELSE Step(n, f[n - 1])]
           Some == {k \in Nat : \E f : Rec(f, k)}
<1>1. N \in Nat
  OBVIOUS
<1> HIDE DEF Step, N
<1>2. 0 \in Some
  <2>1. Rec([n \in 0..0 |-> {d}], 0)
    OBVIOUS
  <2>2. QED
    BY <2>1
<1>3. ASSUME NEW k \in 0..N, k \in Some, k < N PROVE k + 1 \in Some
  <2>1. PICK g : Rec(g, k)
    BY <1>3
  <2> DEFINE f == [n \in 0..k + 1 |-> IF n = k + 1 THEN Step(k + 1, g[k]) ELSE g[n]]
  <2>2. ASSUME NEW n \in 0..k + 1 PROVE f[n] = IF n = 0 THEN {d} ELSE Step(n, f[n - 1])
    <3>1. CASE n = k + 1
      BY <1>1, <3>1
    <3>2. CASE n # k + 1
      <4>1. n \in 0..k /\ f[n] = g[n] /\ (n # 0 => f[n - 1] = g[n - 1])
        BY <1>1, <3>2
      <4>2. g[n] = IF n = 0 THEN {d} ELSE Step(n, g[n - 1])
        BY <2>1, <4>1
      <4>3. QED
        BY <4>1, <4>2
    <3>3. QED
      BY <3>1, <3>2
  <2>3. Rec(f, k + 1)
    <3>1. f = [n \in 0..k + 1 |-> f[n]]
      OBVIOUS
    <3> HIDE DEF f
    <3>2. QED
      BY <2>2, <3>1
  <2> HIDE DEF Rec, f
  <2>4. QED
    BY <1>1, <2>3
<1>4. N \in Some
  <2> HIDE DEF Some
  <2>1. \A n \in 0..N : n \in Some /\ n < N => n + 1 \in Some
    BY <1>3
  <2>2. 0..N \subseteq Some
    BY <1>1, <1>2, <2>1, Reaches
  <2>3. QED
    BY <1>1, <2>2
<1>5. PICK f : Rec(f, N)
  BY <1>4
<1>6. RowsInOrder(f, d, rows)
  BY <1>5 DEF RowsInOrder, Step, N
<1>7. QED
  BY <1>6

LEMMA LinksRecursion ==
  ASSUME NEW start, NEW rows, Len(rows) \in Nat
  PROVE  \E f : LinksInOrder(f, start, rows)
<1> DEFINE N == Len(rows)
           Step(n, cs) == UNION {ImportRelationship(c, rows[n]) : c \in cs}
           Rec(f, k) == f = [n \in 0..k |-> IF n = 0 THEN start ELSE Step(n, f[n - 1])]
           Some == {k \in Nat : \E f : Rec(f, k)}
<1>1. N \in Nat
  OBVIOUS
<1> HIDE DEF Step, N
<1>2. 0 \in Some
  <2>1. Rec([n \in 0..0 |-> start], 0)
    OBVIOUS
  <2>2. QED
    BY <2>1
<1>3. ASSUME NEW k \in 0..N, k \in Some, k < N PROVE k + 1 \in Some
  <2>1. PICK g : Rec(g, k)
    BY <1>3
  <2> DEFINE f == [n \in 0..k + 1 |-> IF n = k + 1 THEN Step(k + 1, g[k]) ELSE g[n]]
  <2>2. ASSUME NEW n \in 0..k + 1 PROVE f[n] = IF n = 0 THEN start ELSE Step(n, f[n - 1])
    <3>1. CASE n = k + 1
      BY <1>1, <3>1
    <3>2. CASE n # k + 1
      <4>1. n \in 0..k /\ f[n] = g[n] /\ (n # 0 => f[n - 1] = g[n - 1])
        BY <1>1, <3>2
      <4>2. g[n] = IF n = 0 THEN start ELSE Step(n, g[n - 1])
        BY <2>1, <4>1
      <4>3. QED
        BY <4>1, <4>2
    <3>3. QED
      BY <3>1, <3>2
  <2>3. Rec(f, k + 1)
    <3>1. f = [n \in 0..k + 1 |-> f[n]]
      OBVIOUS
    <3> HIDE DEF f
    <3>2. QED
      BY <2>2, <3>1
  <2> HIDE DEF Rec, f
  <2>4. QED
    BY <1>1, <2>3
<1>4. N \in Some
  <2> HIDE DEF Some
  <2>1. \A n \in 0..N : n \in Some /\ n < N => n + 1 \in Some
    BY <1>3
  <2>2. 0..N \subseteq Some
    BY <1>1, <1>2, <2>1, Reaches
  <2>3. QED
    BY <1>1, <2>2
<1>5. PICK f : Rec(f, N)
  BY <1>4
<1>6. LinksInOrder(f, start, rows)
  BY <1>5 DEF LinksInOrder, Step, N
<1>7. QED
  BY <1>6


LEMMA RowsImported ==
  ASSUME NEW d, NEW ch, NEW assessment, NEW S, Sound(d, ch, assessment, S), Assessment(assessment, S),
         NEW rows \in Seq(ImportRow), NEW f, RowsInOrder(f, d, rows)
  PROVE  \A c \in f[Len(rows)] : Imported(d, c, ch, assessment, S)
<1> DEFINE N == Len(rows)
           Good == {n \in 0..N : \A c \in f[n] : Imported(d, c, ch, assessment, S)}
<1>1. N \in Nat
  OBVIOUS
<1>2. 0 \in Good
  <2>1. f[0] = {d}
    BY <1>1 DEF RowsInOrder
  <2>2. \A c \in f[0] : Imported(d, c, ch, assessment, S)
    BY <2>1 DEF Imported, SameRecords
  <2>3. QED
    BY <1>1, <2>2
<1>3. ASSUME NEW n \in 0..N, n \in Good, n < N PROVE n + 1 \in Good
  <2>1. SUFFICES ASSUME NEW c \in f[n + 1] PROVE Imported(d, c, ch, assessment, S)
    BY <1>1, <1>3
  <2>2. n + 1 \in 1..N /\ rows[n + 1] \in ImportRow
    BY <1>1, <1>3
  <2>3. f[n + 1] = UNION {ImportRequirement(b, rows[n + 1]) : b \in f[n]}
    BY <1>1, <2>2 DEF RowsInOrder
  <2>4. PICK b \in f[n] : c \in ImportRequirement(b, rows[n + 1])
    BY <2>3
  <2>5. Imported(d, b, ch, assessment, S)
    BY <1>3, <2>4
  <2>6. Imported(b, c, ch, assessment, S)
    BY <2>2, <2>4, <2>5, RequirementImported DEF Imported
  <2>7. QED
    BY <2>5, <2>6 DEF Imported, SameRecords
<1>4. 0..N \subseteq Good
  <2> HIDE DEF Good
  <2>1. \A n \in 0..N : n \in Good /\ n < N => n + 1 \in Good
    BY <1>3
  <2>2. QED
    BY <1>1, <1>2, <2>1, Reaches
<1>5. QED
  BY <1>1, <1>4

LEMMA LinksImported ==
  ASSUME NEW d, NEW ch, NEW assessment, NEW S, Sound(d, ch, assessment, S), Assessment(assessment, S),
         NEW start, \A c \in start : Imported(d, c, ch, assessment, S),
         NEW rows \in Seq(ImportLink), NEW f, LinksInOrder(f, start, rows)
  PROVE  \A c \in f[Len(rows)] : Imported(d, c, ch, assessment, S)
<1> DEFINE N == Len(rows)
           Good == {n \in 0..N : \A c \in f[n] : Imported(d, c, ch, assessment, S)}
<1>1. N \in Nat
  OBVIOUS
<1>2. 0 \in Good
  <2>1. f[0] = start
    BY <1>1 DEF LinksInOrder
  <2>2. \A c \in f[0] : Imported(d, c, ch, assessment, S)
    BY <2>1 DEF Imported, SameRecords
  <2>3. QED
    BY <1>1, <2>2
<1>3. ASSUME NEW n \in 0..N, n \in Good, n < N PROVE n + 1 \in Good
  <2>1. SUFFICES ASSUME NEW c \in f[n + 1] PROVE Imported(d, c, ch, assessment, S)
    BY <1>1, <1>3
  <2>2. n + 1 \in 1..N /\ rows[n + 1] \in ImportLink
    BY <1>1, <1>3
  <2>3. f[n + 1] = UNION {ImportRelationship(b, rows[n + 1]) : b \in f[n]}
    BY <1>1, <2>2 DEF LinksInOrder
  <2>4. PICK b \in f[n] : c \in ImportRelationship(b, rows[n + 1])
    BY <2>3
  <2>5. Imported(d, b, ch, assessment, S)
    BY <1>3, <2>4
  <2>6. Imported(b, c, ch, assessment, S)
    BY <2>2, <2>4, <2>5, RelationshipImported DEF Imported
  <2>7. QED
    BY <2>5, <2>6 DEF Imported, SameRecords
<1>4. 0..N \subseteq Good
  <2> HIDE DEF Good
  <2>1. \A n \in 0..N : n \in Good /\ n < N => n + 1 \in Good
    BY <1>3
  <2>2. QED
    BY <1>1, <1>2, <2>1, Reaches
<1>5. QED
  BY <1>1, <1>4

LEMMA ImportFollows ==
  ASSUME NEW d, NEW ch, NEW assessment, NEW S, Sound(d, ch, assessment, S), Assessment(assessment, S),
         NEW file \in ImportFile, NEW e \in PrepareImport(d, file)
  PROVE  Imported(d, e, ch, assessment, S)
<1> DEFINE rows == file.requirements
           more == file.relationships
           items == CHOOSE f : RowsInOrder(f, d, rows)
           start == items[Len(rows)]
           links == CHOOSE f : LinksInOrder(f, start, more)
<1>1. rows \in Seq(ImportRow) /\ more \in Seq(ImportLink)
  BY DEF ImportFile, ImportRow, ImportLink
<1>2. e \in links[Len(more)]
  BY DEF PrepareImport, RowsInOrder, LinksInOrder
<1> HIDE DEF rows, more
<1>3. RowsInOrder(items, d, rows)
  <2>1. Len(rows) \in Nat
    BY <1>1
  <2>2. \E f : RowsInOrder(f, d, rows)
    BY <2>1, RowsRecursion
  <2>3. QED
    BY <2>2, Zenon
<1> HIDE DEF items
<1>4. \A c \in start : Imported(d, c, ch, assessment, S)
  BY <1>1, <1>3, RowsImported
<1> HIDE DEF start
<1>5. LinksInOrder(links, start, more)
  <2>1. Len(more) \in Nat
    BY <1>1
  <2>2. \E f : LinksInOrder(f, start, more)
    BY <2>1, LinksRecursion
  <2>3. QED
    BY <2>2, Zenon
<1> HIDE DEF links
<1>6. QED
  BY <1>1, <1>2, <1>4, <1>5, LinksImported

----------------------------------------------------------------------------
(* Reuse propagation, evidence and baseline memberships.                   *)

FromSource(old, new, x, version) ==
    /\ new \in RequirementRecord /\ new.log = Append(old.log, x)
    /\ new.reuse # NoReuse /\ new.reuse.origin = old.reuse.origin /\ new.reuse.since = version

LEMMA SynchronizedUse ==
  ASSUME NEW old \in RequirementRecord, old.reuse # NoReuse, NEW x \in VersionEntry, NEW version \in Nat \ {0},
         NEW state \in {"current", "intentional-divergence"}
  PROVE  FromSource(old, Synchronized(old, x, version, state), x, version)
<1> DEFINE named == [old.reuse EXCEPT !.version = version]
           half == [named EXCEPT !.since = version]
           reuse == [half EXCEPT !.state = state]
           one == [old EXCEPT !.log = Append(@, x)]
           two == [one EXCEPT !.reuse = reuse]
           Reused == [mode : {"governed-reference", "controlled-clone"}, origin : Nat, version : Nat \ {0},
                      state : {"current", "source-changed", "intentional-divergence"}, since : Nat]
<1>1. old.reuse \in Reused
  BY DEF RequirementRecord, ReuseRecord
<1>2. half \in Reused /\ half.origin = old.reuse.origin /\ half.since = version
  <2>1. named \in Reused /\ named.origin = old.reuse.origin
    BY <1>1
  <2> HIDE DEF named
  <2>2. QED
    BY <2>1
<1> HIDE DEF half, named
<1>3. reuse \in Reused /\ reuse.origin = old.reuse.origin /\ reuse.since = version
  BY <1>2
<1>4. Append(old.log, x) \in Seq(VersionEntry)
  BY DEF RequirementRecord
<1>5. one \in RequirementRecord /\ one.log = Append(old.log, x) /\ one.reuse = old.reuse
  BY <1>4 DEF RequirementRecord
<1>6. Synchronized(old, x, version, state) = two
  <2>1. Synchronized(old, x, version, state)
          = [one EXCEPT !.reuse = [[[@ EXCEPT !.version = version] EXCEPT !.since = version] EXCEPT !.state = state]]
    BY DEF Synchronized
  <2> HIDE DEF one
  <2>2. QED
    BY <1>5, <2>1 DEF half, named
<1> HIDE DEF one, reuse
<1>7. reuse # NoReuse /\ reuse \in ReuseRecord
  <2>1. reuse.mode # "none"
    BY <1>3
  <2>2. NoReuse.mode = "none"
    BY DEF NoReuse
  <2>3. QED
    BY <1>3, <2>1, <2>2 DEF ReuseRecord
<1>8. two \in RequirementRecord /\ two.log = Append(old.log, x) /\ two.reuse = reuse
  BY <1>5, <1>7 DEF RequirementRecord
<1>9. QED
  BY <1>3, <1>6, <1>7, <1>8 DEF FromSource

LEMMA PropagationStill ==
  ASSUME NEW d, Typed(d), NEW source \in Ids(d),
         NEW diverging \in SUBSET Uses(d, source), NEW e \in Propagation(d, source, diverging)
  PROVE  Still(d, e) /\ OtherwiseSame(d, e)
<1> DEFINE version(use) == IF source \in diverging /\ source < use THEN Version(d, source) + 1 ELSE Version(d, source)
           content(use) == IF use \in diverging THEN Item(d, use).content ELSE Item(d, source).content
           state(use) == IF use \in diverging THEN "intentional-divergence" ELSE "current"
           x(use) == [content |-> content(use), status |-> Item(d, use).status, by |-> "propagation"]
           rs == [use \in DOMAIN d.requirements |->
                    IF use \in Uses(d, source) THEN Synchronized(d.requirements[use], x(use), version(use), state(use))
                    ELSE d.requirements[use]]
<1>1. e = [d EXCEPT !.requirements = rs]
  BY DEF Propagation
<1>2. DOMAIN rs = DOMAIN d.requirements
  OBVIOUS
<1>3. ASSUME NEW use \in Ids(d)
      PROVE  x(use) \in VersionEntry /\ x(use).by = "propagation" /\ state(use) \in {"current", "intentional-divergence"}
  <2>1. Item(d, use) \in VersionEntry /\ Item(d, source) \in VersionEntry
    BY LogType
  <2>2. QED
    BY <2>1 DEF VersionEntry
<1>4. Version(d, source) \in Nat \ {0} /\ \A use : version(use) \in Nat \ {0}
  BY LogType
<1>5. ASSUME NEW use \in Ids(d), use \in Uses(d, source)
      PROVE  /\ rs[use] \in RequirementRecord
             /\ rs[use].log = Append(d.requirements[use].log, x(use))
             /\ rs[use].reuse # NoReuse /\ rs[use].reuse.origin = source /\ rs[use].reuse.since = version(use)
  <2>1. rs[use] = Synchronized(d.requirements[use], x(use), version(use), state(use))
    BY <1>5 DEF Ids
  <2>2. d.requirements[use].reuse # NoReuse /\ d.requirements[use].reuse.origin = source
    BY <1>5 DEF Uses
  <2>3. d.requirements[use] \in RequirementRecord
    BY LogType
  <2> HIDE DEF rs, x, state, version
  <2>4. FromSource(d.requirements[use], rs[use], x(use), version(use))
    BY <1>3, <1>4, <2>1, <2>2, <2>3, SynchronizedUse
  <2>5. QED
    BY <2>2, <2>4 DEF FromSource
<1>6. ASSUME NEW use \in Ids(d), use \notin Uses(d, source)
      PROVE  rs[use] = d.requirements[use]
  BY <1>6 DEF Ids
<1> HIDE DEF x
<1>7. ASSUME NEW use \in Ids(d) PROVE rs[use] \in RequirementRecord
  BY <1>5, <1>6, LogType
<1>8. rs \in Seq(RequirementRecord)
  <2>1. Len(d.requirements) \in Nat /\ Ids(d) = 1..Len(d.requirements)
    BY DEF Typed, Ids
  <2>2. rs \in [Ids(d) -> RequirementRecord]
    <3>1. rs = [use \in Ids(d) |-> rs[use]]
      BY DEF Ids
    <3> HIDE DEF rs
    <3>2. QED
      BY <1>7, <3>1
  <2> HIDE DEF rs
  <2>3. QED
    BY <2>1, <2>2
<1> HIDE DEF rs
<1>9. OtherwiseSame(d, e) /\ e.requirements = rs /\ Ids(e) = Ids(d)
  BY <1>1, <1>2 DEF OtherwiseSame, Typed, Ids
<1>10. Grown(d, e)
  <2>1. ASSUME NEW i \in Ids(d)
        PROVE  \E y \in VersionEntry :
                  Longer(d, e, i, y) /\ (y.by # "command" \/ y.content = Item(d, i).content)
    <3>1. CASE i \in Uses(d, source)
      <4>1. Longer(d, e, i, x(i))
        BY <1>5, <1>9, <3>1 DEF Longer
      <4>2. QED
        BY <1>3, <4>1
    <3>2. CASE i \notin Uses(d, source)
      <4>1. Longer(d, e, i, x(i))
        BY <1>6, <1>9, <3>2 DEF Longer
      <4>2. QED
        BY <1>3, <4>1
    <3>3. QED
      BY <3>1, <3>2
  <2>2. QED
    BY <1>9, <2>1 DEF Grown
<1>11. LogsKept(d, e)
  BY <1>10, GrownLogs
<1>12. ASSUME NEW use \in Ids(d)
       PROVE  /\ source \in Ids(e) /\ version(use) \in 1..Version(e, source)
              /\ UnchangedSince(e, Material, source, version(use))
  <2>1. Version(d, source) <= Version(e, source)
    BY <1>11 DEF LogsKept, Extends
  <2>2. e.requirements[source] \in RequirementRecord
    BY <1>8, <1>9 DEF Ids
  <2>3. e.requirements[source].log \in Seq(VersionEntry)
    BY <2>2 DEF RequirementRecord
  <2>4. Version(e, source) \in Nat
    BY <2>3 DEF Version
  <2>5. UnchangedSince(e, Material, source, Version(d, source))
    BY <1>11 DEF LogsKept, Unchanged, UnchangedSince
  <2>6. CASE source \in diverging /\ source < use
    <3>1. e.requirements[source].log = Append(d.requirements[source].log, x(source))
      BY <1>5, <1>9, <2>6
    <3>2. Version(e, source) = Version(d, source) + 1
      BY <3>1, <1>3, LogType DEF Version
    <3>3. QED
      BY <1>4, <1>9, <2>6, <3>2 DEF UnchangedSince
  <2>7. CASE ~(source \in diverging /\ source < use)
    BY <1>4, <1>9, <2>1, <2>4, <2>5, <2>7
  <2>8. QED
    BY <2>6, <2>7
<1>13. ASSUME NEW use \in Ids(d)
       PROVE  \/ e.requirements[use].reuse = d.requirements[use].reuse
              \/ /\ e.requirements[use].reuse # NoReuse
                 /\ e.requirements[use].reuse.origin = source /\ e.requirements[use].reuse.since = version(use)
  BY <1>5, <1>6, <1>9
<1> HIDE DEF version
<1>14. UsesKept(d, e)
  BY <1>9, <1>12, <1>13 DEF UsesKept
<1>15. ReusesTyped(d, e)
  BY <1>9, <1>12, <1>13 DEF ReusesTyped
<1>16. QED
  BY <1>8, <1>9, <1>11, <1>14, <1>15, RequirementsQuiet DEF Still

EvidenceTyped(d, y) ==
    y \in EvidenceRecord /\ y.requirement \in Ids(d) /\ y.recordedAt \in 1..Version(d, y.requirement)

ChangesTyped(changes) ==
    /\ changes \in Seq(Range(changes))
    /\ \A ch \in DOMAIN changes : LET change == changes[ch] IN
         /\ DOMAIN change = {"status", "proposals", "impacts"}
         /\ change.status \in ChangeStatuses /\ change.proposals \in Seq(Operation)

SameVersions(d, e) ==
    /\ Ids(e) = Ids(d) /\ \A i : Version(e, i) = Version(d, i)
    /\ \A part, i, v : /\ ChangedByCommand(e, part, i, v) <=> ChangedByCommand(d, part, i, v)
                       /\ UnchangedSince(e, part, i, v) <=> UnchangedSince(d, part, i, v)

\* Documents with the requirements and links of d.
LEMMA RecordsTyped ==
  ASSUME NEW d, Typed(d), NEW e, DOMAIN e = DOMAIN d,
         e.requirements = d.requirements, e.relationships = d.relationships,
         \A y \in e.evidence : EvidenceTyped(d, y), ChangesTyped(e.changes)
  PROVE  Typed(e) /\ SameVersions(d, e)
<1>1. Ids(e) = Ids(d) /\ \A i : Version(e, i) = Version(d, i)
  BY DEF Ids, Version
<1>2. \A part, i, v : ChangedByCommand(e, part, i, v) <=> ChangedByCommand(d, part, i, v)
  BY DEF ChangedByCommand
<1>3. \A part, i, v : UnchangedSince(e, part, i, v) <=> UnchangedSince(d, part, i, v)
  BY <1>1, <1>2 DEF UnchangedSince
<1>4. Typed(e)
  BY <1>1 DEF Typed, EvidenceTyped, ChangesTyped
<1>5. QED
  BY <1>1, <1>2, <1>3, <1>4 DEF SameVersions

LEMMA RecordsTypedOf ==
  ASSUME NEW d, Typed(d)
  PROVE  ChangesTyped(d.changes) /\ \A y \in d.evidence : EvidenceTyped(d, y)
BY DEF Typed, EvidenceTyped, ChangesTyped

LEMMA EvidenceStill ==
  ASSUME NEW d, Typed(d), NEW id \in Ids(d), NEW x \in EvidenceRecord,
         x.requirement = id, x.recordedAt = Version(d, id),
         NEW e, e = [d EXCEPT !.evidence = @ \cup {x}]
  PROVE  Still(d, e)
<1>1. /\ DOMAIN e = DOMAIN d /\ e.requirements = d.requirements /\ e.relationships = d.relationships
      /\ e.memberships = d.memberships /\ e.changes = d.changes /\ e.evidence = d.evidence \cup {x}
  BY DEF Typed
<1>2. Ids(e) = Ids(d) /\ \A i \in Ids(d) : Version(e, i) = Version(d, i) /\ Version(d, i) \in Nat \ {0}
  BY <1>1, LogType DEF Ids, Version
<1>3. \A y \in e.evidence : EvidenceTyped(d, y)
  <2>1. EvidenceTyped(d, x)
    BY <1>2 DEF EvidenceTyped
  <2>2. QED
    BY <1>1, <2>1, RecordsTypedOf
<1>4. Typed(e)
  <2>1. QED
    BY <1>1, <1>3, RecordsTyped, RecordsTypedOf
<1>5. LogsKept(d, e)
  BY <1>1, <1>2, SameLogs
<1>6. UsesKept(d, e) /\ EvidenceKept(d, e) /\ \A S \in SUBSET DOMAIN d.relationships : LinksKept(d, e, S)
  BY <1>1, <1>2 DEF UsesKept, EvidenceKept, LinksKept
<1>7. QED
  BY <1>1, <1>4, <1>5, <1>6 DEF Still, Quiet

\* A membership names the current version, so it protects nothing that was written.
LEMMA MembershipSound ==
  ASSUME NEW d, NEW assessment, NEW S, Sound(d, 0, assessment, S), NEW id \in Ids(d),
         NEW e, e = [d EXCEPT !.memberships = @ \cup {<<id, Version(d, id), 1>>}]
  PROVE  Sound(e, 0, assessment, S)
<1>1. Typed(d)
  BY DEF Sound
<1>2. /\ DOMAIN e = DOMAIN d /\ e.requirements = d.requirements /\ e.relationships = d.relationships
      /\ e.evidence = d.evidence /\ e.changes = d.changes
      /\ e.memberships = d.memberships \cup {<<id, Version(d, id), 1>>}
  BY <1>1 DEF Typed
<1>3. /\ Typed(e) /\ Ids(e) = Ids(d) /\ \A i : Version(e, i) = Version(d, i)
      /\ \A part, i, v : /\ ChangedByCommand(e, part, i, v) <=> ChangedByCommand(d, part, i, v)
                         /\ UnchangedSince(e, part, i, v) <=> UnchangedSince(d, part, i, v)
  <2>1. ChangesTyped(e.changes) /\ \A y \in e.evidence : EvidenceTyped(d, y)
    BY <1>1, <1>2, RecordsTypedOf
  <2>2. Typed(e) /\ SameVersions(d, e)
    BY <1>1, <1>2, <2>1, RecordsTyped
  <2>3. QED
    BY <2>2 DEF SameVersions
<1>4. GovernedBut(e, 0)
  <2> SUFFICES ASSUME NEW i \in Ids(e), NEW v \in 2..Version(e, i),
                      ChangedByCommand(e, Material, i, v), Protected(e, i, v - 1)
               PROVE  \E c \in DOMAIN e.changes : (Implemented(e, c) \/ c = 0) /\ Proposed(e, c, i, v)
    BY DEF GovernedBut
  <2>1. i \in Ids(d) /\ v \in 2..Version(d, i) /\ Version(d, i) \in Nat
    BY <1>1, <1>3, LogType
  <2>2. Protected(d, i, v - 1)
    <3>1. BaselineMemberships(e, i, v - 1) \subseteq BaselineMemberships(d, i, v - 1)
      <4>1. v - 1 # Version(d, i)
        BY <2>1
      <4>2. QED
        BY <1>2, <4>1 DEF BaselineMemberships
    <3>2. QED
      BY <1>2, <3>1 DEF Protected
  <2>3. PICK c \in DOMAIN d.changes : (Implemented(d, c) \/ c = 0) /\ Proposed(d, c, i, v)
    BY <1>3, <2>1, <2>2 DEF Sound, GovernedBut
  <2>4. QED
    BY <1>2, <2>3 DEF Implemented, Proposed
<1>5. Trusted(e, assessment, S)
  BY <1>2, <1>3 DEF Sound, Trusted
<1>6. EvidenceRecordedSince(e)
  BY <1>2, <1>3 DEF Sound, EvidenceRecordedSince
<1>7. UsesFollowSource(e)
  BY <1>2, <1>3 DEF Sound, UsesFollowSource
<1>8. AsApproved(e)
  <2>1. \A p : Done(d, p) => Done(e, p)
    BY <1>2, <1>3 DEF Done
  <2>2. QED
    BY <1>2, <2>1 DEF Sound, AsApproved, Implemented
<1>9. QED
  BY <1>2, <1>3, <1>4, <1>5, <1>6, <1>7, <1>8 DEF Sound

----------------------------------------------------------------------------
(* Change records.                                                         *)

OnlyChanges(d, e) ==
    /\ DOMAIN e = DOMAIN d /\ e.requirements = d.requirements /\ e.relationships = d.relationships
    /\ e.evidence = d.evidence /\ e.memberships = d.memberships

\* What is proposed stays proposed; before is being implemented in d, after in e.
MovesOn(d, e, before, after) ==
    \A c \in DOMAIN d.changes :
        /\ c \in DOMAIN e.changes /\ e.changes[c].proposals = d.changes[c].proposals
        /\ Implemented(d, c) \/ c = before => Implemented(e, c) \/ c = after

\* A change that becomes implemented has had its operations applied.
OnceApplied(d, e) ==
    \A c \in DOMAIN e.changes : Implemented(e, c) =>
        \/ c \in DOMAIN d.changes /\ e.changes[c].proposals = d.changes[c].proposals /\ Implemented(d, c)
        \/ \A n \in Targeted(e.changes[c].proposals) : Done(d, e.changes[c].proposals[n])

LEMMA ChangesSound ==
  ASSUME NEW d, NEW before, NEW after, NEW assessment, NEW S, Sound(d, before, assessment, S),
         NEW e, OnlyChanges(d, e), ChangesTyped(e.changes), MovesOn(d, e, before, after), OnceApplied(d, e)
  PROVE  Sound(e, after, assessment, S) /\ Ids(e) = Ids(d) /\ \A i : Version(e, i) = Version(d, i)
<1>1. Typed(d)
  BY DEF Sound
<1>2. /\ DOMAIN e = DOMAIN d /\ e.requirements = d.requirements /\ e.relationships = d.relationships
      /\ e.evidence = d.evidence /\ e.memberships = d.memberships
  BY DEF OnlyChanges
<1>3. /\ Typed(e) /\ Ids(e) = Ids(d) /\ \A i : Version(e, i) = Version(d, i)
      /\ \A part, i, v : /\ ChangedByCommand(e, part, i, v) <=> ChangedByCommand(d, part, i, v)
                         /\ UnchangedSince(e, part, i, v) <=> UnchangedSince(d, part, i, v)
  <2>1. \A y \in e.evidence : EvidenceTyped(d, y)
    BY <1>1, <1>2, RecordsTypedOf
  <2>2. Typed(e) /\ SameVersions(d, e)
    BY <1>1, <1>2, <2>1, RecordsTyped
  <2>3. QED
    BY <2>2 DEF SameVersions
<1>4. GovernedBut(e, after)
  <2> SUFFICES ASSUME NEW i \in Ids(e), NEW v \in 2..Version(e, i),
                      ChangedByCommand(e, Material, i, v), Protected(e, i, v - 1)
               PROVE  \E c \in DOMAIN e.changes : (Implemented(e, c) \/ c = after) /\ Proposed(e, c, i, v)
    BY DEF GovernedBut
  <2>1. i \in Ids(d) /\ v \in 2..Version(d, i) /\ ChangedByCommand(d, Material, i, v)
    BY <1>3
  <2>2. Protected(d, i, v - 1)
    BY <1>2 DEF Protected, BaselineMemberships
  <2>3. PICK c \in DOMAIN d.changes : (Implemented(d, c) \/ c = before) /\ Proposed(d, c, i, v)
    BY <2>1, <2>2 DEF Sound, GovernedBut
  <2>4. Proposed(e, c, i, v)
    BY <1>2, <2>3 DEF MovesOn, Proposed
  <2>5. QED
    BY <2>3, <2>4 DEF MovesOn
<1>5. Trusted(e, assessment, S)
  BY <1>2, <1>3 DEF Sound, Trusted
<1>6. EvidenceRecordedSince(e)
  BY <1>2, <1>3 DEF Sound, EvidenceRecordedSince
<1>7. UsesFollowSource(e)
  BY <1>2, <1>3 DEF Sound, UsesFollowSource
<1>8. AsApproved(e)
  <2>1. \A p : Done(d, p) => Done(e, p)
    BY <1>2, <1>3 DEF Done
  <2> SUFFICES ASSUME NEW c \in DOMAIN e.changes, Implemented(e, c),
                      NEW n \in Targeted(e.changes[c].proposals)
               PROVE  Done(d, e.changes[c].proposals[n])
    BY <2>1 DEF AsApproved
  <2>2. CASE c \in DOMAIN d.changes /\ e.changes[c].proposals = d.changes[c].proposals /\ Implemented(d, c)
    BY <2>2 DEF Sound, AsApproved
  <2>3. CASE \A m \in Targeted(e.changes[c].proposals) : Done(d, e.changes[c].proposals[m])
    BY <2>3
  <2>4. QED
    BY <2>2, <2>3 DEF OnceApplied
<1>9. QED
  BY <1>2, <1>3, <1>4, <1>5, <1>6, <1>7, <1>8 DEF Sound

\* A change record with its proposals, in another status.
MovedTo(d, ch, change) ==
    /\ DOMAIN change = {"status", "proposals", "impacts"}
    /\ change.status \in ChangeStatuses /\ change.proposals = d.changes[ch].proposals

LEMMA SequenceOf ==
  ASSUME NEW n \in Nat, NEW R, NEW f \in [1..n -> R]
  PROVE  f \in Seq(R)
OBVIOUS

Moved(d, e, ch, change) ==
    /\ OnlyChanges(d, e) /\ ChangesTyped(e.changes)
    /\ DOMAIN e.changes = DOMAIN d.changes /\ e.changes[ch] = change
    /\ \A c \in DOMAIN d.changes \ {ch} : e.changes[c] = d.changes[c]
    /\ \A c \in DOMAIN d.changes : e.changes[c].proposals = d.changes[c].proposals

LEMMA ChangeReplaced ==
  ASSUME NEW d, Typed(d), NEW ch \in DOMAIN d.changes, NEW change, MovedTo(d, ch, change),
         NEW e, e = [d EXCEPT !.changes = [@ EXCEPT ![ch] = change]]
  PROVE  Moved(d, e, ch, change)
<1>1. e.changes = [d.changes EXCEPT ![ch] = change] /\ OnlyChanges(d, e)
  BY DEF Typed, OnlyChanges
<1>2. /\ DOMAIN e.changes = DOMAIN d.changes /\ e.changes[ch] = change
      /\ \A c \in DOMAIN d.changes \ {ch} : e.changes[c] = d.changes[c]
  BY <1>1
<1>3. e.changes \in Seq(Range(e.changes))
  <2>1. d.changes \in Seq(Range(d.changes))
    BY DEF Typed
  <2>2. DOMAIN d.changes = 1..Len(d.changes) /\ Len(d.changes) \in Nat
    BY <2>1
  <2>3. e.changes \in [1..Len(d.changes) -> Range(e.changes)]
    BY <1>1, <1>2, <2>2 DEF Range
  <2>4. QED
    BY <2>2, <2>3, SequenceOf
<1>4. \A c \in DOMAIN e.changes :
        /\ DOMAIN e.changes[c] = {"status", "proposals", "impacts"}
        /\ e.changes[c].status \in ChangeStatuses /\ e.changes[c].proposals \in Seq(Operation)
  <2>1. \A c \in DOMAIN d.changes :
          /\ DOMAIN d.changes[c] = {"status", "proposals", "impacts"}
          /\ d.changes[c].status \in ChangeStatuses /\ d.changes[c].proposals \in Seq(Operation)
    BY DEF Typed
  <2>2. QED
    BY <1>2, <2>1 DEF MovedTo
<1>5. QED
  BY <1>1, <1>2, <1>3, <1>4 DEF ChangesTyped, MovedTo, Moved

\* A step that neither starts nor ends an implementation: 0 is no change.
LEMMA MoveSound ==
  ASSUME NEW d, NEW assessment, NEW S, Sound(d, 0, assessment, S), NEW ch \in DOMAIN d.changes,
         NEW change, MovedTo(d, ch, change),
         change.status \in {"verifying", "closed"} <=> d.changes[ch].status \in {"verifying", "closed"},
         NEW e, e = [d EXCEPT !.changes = [@ EXCEPT ![ch] = change]]
  PROVE  Sound(e, 0, assessment, S)
<1>1. Typed(d)
  BY DEF Sound
<1>2. /\ OnlyChanges(d, e) /\ ChangesTyped(e.changes)
      /\ DOMAIN e.changes = DOMAIN d.changes /\ e.changes[ch] = change
      /\ \A c \in DOMAIN d.changes \ {ch} : e.changes[c] = d.changes[c]
      /\ \A c \in DOMAIN d.changes : e.changes[c].proposals = d.changes[c].proposals
  <2>1. Moved(d, e, ch, change)
    BY <1>1, ChangeReplaced
  <2>2. QED
    BY <2>1 DEF Moved
<1>3. \A c \in DOMAIN d.changes : Implemented(e, c) <=> Implemented(d, c)
  BY <1>2 DEF Implemented
<1>4. MovesOn(d, e, 0, 0) /\ OnceApplied(d, e)
  BY <1>2, <1>3 DEF MovesOn, OnceApplied
<1>5. QED
  BY <1>2, <1>4, ChangesSound

LEMMA NewChangeSound ==
  ASSUME NEW d, NEW assessment, NEW S, Sound(d, 0, assessment, S), NEW change,
         DOMAIN change = {"status", "proposals", "impacts"}, change.status = "draft",
         change.proposals \in Seq(Operation),
         NEW e, e = [d EXCEPT !.changes = Append(@, change)]
  PROVE  Sound(e, 0, assessment, S)
<1>1. Typed(d) /\ d.changes \in Seq(Range(d.changes))
  BY DEF Sound, Typed
<1>2. e.changes = Append(d.changes, change) /\ OnlyChanges(d, e)
  BY <1>1 DEF Typed, OnlyChanges
<1>3. /\ DOMAIN e.changes = DOMAIN d.changes \cup {Len(d.changes) + 1} /\ Len(d.changes) + 1 \notin DOMAIN d.changes
      /\ e.changes[Len(d.changes) + 1] = change
      /\ \A c \in DOMAIN d.changes : e.changes[c] = d.changes[c]
      /\ Len(e.changes) = Len(d.changes) + 1 /\ DOMAIN e.changes = 1..Len(e.changes) /\ Len(e.changes) \in Nat
  BY <1>1, <1>2
<1>4. e.changes \in Seq(Range(e.changes))
  <2>1. e.changes \in [1..Len(e.changes) -> Range(e.changes)]
    <3>1. e.changes = [c \in 1..Len(e.changes) |-> e.changes[c]]
      BY <1>1, <1>2
    <3>2. \A c \in 1..Len(e.changes) : e.changes[c] \in Range(e.changes)
      BY <1>3 DEF Range
    <3>3. QED
      BY <3>1, <3>2
  <2>2. QED
    BY <1>3, <2>1, SequenceOf
<1>5. ChangesTyped(e.changes)
  <2>1. \A c \in DOMAIN d.changes :
          /\ DOMAIN d.changes[c] = {"status", "proposals", "impacts"}
          /\ d.changes[c].status \in ChangeStatuses /\ d.changes[c].proposals \in Seq(Operation)
    BY <1>1 DEF Typed
  <2>2. change.status \in ChangeStatuses
    BY DEF ChangeStatuses
  <2>3. QED
    BY <1>3, <1>4, <2>1, <2>2 DEF ChangesTyped
<1>6. \A c \in DOMAIN d.changes : Implemented(e, c) <=> Implemented(d, c)
  BY <1>3 DEF Implemented
<1>7. ~Implemented(e, Len(d.changes) + 1)
  BY <1>3 DEF Implemented
<1>8. MovesOn(d, e, 0, 0) /\ OnceApplied(d, e)
  BY <1>3, <1>6, <1>7 DEF MovesOn, OnceApplied
<1>9. QED
  BY <1>2, <1>5, <1>8, ChangesSound

----------------------------------------------------------------------------
(* The invariant.                                                          *)

\* The documents a preview was made from are the current ones as long as the
\* revision is; what its commit will install is then known.
PreviewInv(preview) ==
    preview.revision = revision =>
        /\ preview.kind = "bulk" => preview.operations \in CommandSets
        /\ preview.kind = "import" => \E file \in ImportFiles : preview.after \in PrepareImport(documents, file)
        /\ preview.kind = "reuse" =>
             \E source \in Ids(documents) : \E diverging \in SUBSET Uses(documents, source) :
                 preview.after \in Propagation(documents, source, diverging)
        /\ preview.kind = "change" => preview.change \in DOMAIN documents.changes

Holding(S) == Sound(documents, 0, assessed, S) /\ Assessment(assessed, S)

IInv ==
    /\ TypeOK
    /\ Holding(DOMAIN assessed)
    /\ \A preview \in previews : PreviewInv(preview)

LEMMA FewerLinks ==
  ASSUME IInv, NEW S \in SUBSET DOMAIN assessed
  PROVE  Holding(S) /\ S \subseteq DOMAIN documents.relationships
BY DEF IInv, Holding, Sound, Trusted, Assessment

LEMMA SinceEndpoints ==
  ASSUME NEW d, Typed(d), NEW n \in DOMAIN d.relationships
  PROVE  LET link == d.relationships[n]  assessment == EndpointVersions(d, n) IN
         /\ UnchangedSince(d, Material, link.source, assessment.source)
         /\ UnchangedSince(d, Material, link.target, assessment.target)
         /\ assessment.source \in Nat \ {0} /\ assessment.target \in Nat \ {0}
<1> DEFINE source == d.relationships[n].source  target == d.relationships[n].target
<1>1. source \in Ids(d) /\ target \in Ids(d)
  BY DEF Typed
<1> HIDE DEF source, target
<1>2. /\ UnchangedSince(d, Material, source, Version(d, source)) /\ UnchangedSince(d, Material, target, Version(d, target))
      /\ Version(d, source) \in Nat \ {0} /\ Version(d, target) \in Nat \ {0}
  BY <1>1, SinceNow, LogType
<1>3. QED
  BY <1>2 DEF EndpointVersions, source, target

\* The links a command adds or reassesses are assessed for the versions it leaves.
LEMMA AssessedSound ==
  ASSUME NEW d, NEW assessment, NEW S, Sound(d, 0, assessment, S), Assessment(assessment, S), NEW new,
         new = [n \in DOMAIN d.relationships |-> IF n \in S THEN assessment[n] ELSE EndpointVersions(d, n)]
  PROVE  Sound(d, 0, new, DOMAIN new) /\ Assessment(new, DOMAIN new)
<1>1. Typed(d) /\ DOMAIN new = DOMAIN d.relationships /\ S \subseteq DOMAIN d.relationships
  BY DEF Sound
<1>2. \A n \in DOMAIN new : new[n] = IF n \in S THEN assessment[n] ELSE EndpointVersions(d, n)
  OBVIOUS
<1>3. Trusted(d, new, DOMAIN new)
  <2> SUFFICES ASSUME NEW n \in DOMAIN new, Active(d.relationships[n]), ~d.relationships[n].suspect
               PROVE  /\ UnchangedSince(d, Material, d.relationships[n].source, new[n].source)
                      /\ UnchangedSince(d, Material, d.relationships[n].target, new[n].target)
    BY DEF Trusted
  <2>1. CASE n \in S
    BY <1>2, <2>1 DEF Sound, Trusted
  <2>2. CASE n \notin S
    <3>1. new[n] = EndpointVersions(d, n) /\ n \in DOMAIN d.relationships
      BY <1>1, <1>2, <2>2
    <3>2. QED
      BY <1>1, <3>1, SinceEndpoints
  <2>3. QED
    BY <2>1, <2>2
<1>4. Assessment(new, DOMAIN new)
  <2> SUFFICES ASSUME NEW n \in DOMAIN new
               PROVE  new[n].source \in Nat \ {0} /\ new[n].target \in Nat \ {0}
    BY DEF Assessment
  <2>1. CASE n \in S
    BY <1>2, <2>1 DEF Assessment
  <2>2. CASE n \notin S
    <3>1. new[n] = EndpointVersions(d, n) /\ n \in DOMAIN d.relationships
      BY <1>1, <1>2, <2>2
    <3>2. QED
      BY <1>1, <3>1, SinceEndpoints
  <2>3. QED
    BY <2>1, <2>2
<1>5. QED
  BY <1>1, <1>3, <1>4 DEF Sound

LEMMA ExecuteHolds ==
  ASSUME IInv, NEW kind \in Kinds, NEW d, NEW allocated, NEW reassessed,
         Sound(d, 0, assessed, DOMAIN assessed \ reassessed),
         Execute(kind, d, allocated, reassessed), previews' = previews
  PROVE  IInv'
<1> USE DEF Execute
<1> DEFINE S == DOMAIN assessed \ reassessed
<1>1. Assessment(assessed, S)
  BY FewerLinks DEF Holding
<1>2. Sound(d, 0, assessed', DOMAIN assessed') /\ Assessment(assessed', DOMAIN assessed')
  <2>1. assessed' = [n \in DOMAIN d.relationships |-> IF n \in S THEN assessed[n] ELSE EndpointVersions(d, n)]
    OBVIOUS
  <2> HIDE DEF S
  <2>2. Sound(d, 0, assessed, S)
    BY DEF S
  <2>3. QED
    BY <1>1, <2>1, <2>2, AssessedSound
<1>3. documents' = d /\ revision' = revision + 1
  OBVIOUS
<1>4. TypeOK'
  <2>1. Typed(documents')
    BY <1>2, <1>3 DEF Sound
  <2>2. revision \in Nat /\ commands \in [Kinds -> Nat] /\ \A preview \in previews : preview.revision \in 0..revision
    BY DEF IInv, TypeOK
  <2>3. commands' \in [Kinds -> Nat]
    BY <2>2
  <2>4. DOMAIN assessed' = DOMAIN documents'.relationships
    BY <1>3
  <2>5. QED
    BY <1>3, <2>1, <2>2, <2>3, <2>4 DEF TypeOK
<1>5. (Holding(DOMAIN assessed))'
  BY <1>2, <1>3 DEF Holding
<1>6. (\A preview \in previews : PreviewInv(preview))'
  <2>1. \A preview \in previews : preview.revision # revision'
    BY <1>3 DEF IInv, TypeOK
  <2>2. QED
    BY <2>1 DEF PreviewInv
<1>7. QED
  BY <1>4, <1>5, <1>6 DEF IInv

LEMMA MutateHolds ==
  ASSUME IInv, NEW kind \in Kinds, NEW candidates, NEW allocated, NEW reassessed,
         \A d \in candidates : Sound(d, 0, assessed, DOMAIN assessed \ reassessed),
         Mutate(kind, candidates, allocated, reassessed)
  PROVE  IInv'
<1>1. PICK d \in candidates : Execute(kind, d, allocated, reassessed)
  BY DEF Mutate
<1>2. previews' = previews
  BY DEF Mutate
<1>3. QED
  BY <1>1, <1>2, ExecuteHolds

LEMMA MutateOneHolds ==
  ASSUME IInv, NEW kind \in Kinds, NEW d, NEW allocated, NEW reassessed,
         Sound(d, 0, assessed, DOMAIN assessed \ reassessed),
         Mutate(kind, {d}, allocated, reassessed)
  PROVE  IInv'
<1>1. \A x \in {d} : Sound(x, 0, assessed, DOMAIN assessed \ reassessed)
  OBVIOUS
<1>2. QED
  BY <1>1, MutateHolds

----------------------------------------------------------------------------
(* The steps.                                                              *)

LEMMA StillHolds ==
  ASSUME NEW S, Holding(S), NEW d, Still(documents, d)
  PROVE  Sound(d, 0, assessed, S)
BY StillFollows DEF Holding

LEMMA AllLinks ==
  ASSUME IInv
  PROVE  /\ Holding(DOMAIN assessed) /\ DOMAIN assessed \ {} = DOMAIN assessed
         /\ Typed(documents) /\ DOMAIN assessed = DOMAIN documents.relationships
BY DEF IInv, TypeOK

LEMMA IdType ==
  ASSUME IInv
  PROVE  \A id \in Ids(documents) : id \in Nat /\ Version(documents, id) \in Nat
<1>1. Typed(documents)
  BY AllLinks
<1>2. DOMAIN documents.requirements \subseteq Nat
  BY <1>1 DEF Typed
<1>3. \A id \in Ids(documents) : Version(documents, id) \in Nat
  BY <1>1, LogType
<1>4. QED
  BY <1>2, <1>3 DEF Ids

LEMMA Defaults ==
  /\ Drafts \subseteq Contents /\ Policy.defaultStatus \in Statuses /\ NoReuse \in ReuseRecord
  /\ CommandSets \subseteq Seq(Operation) /\ ProposalSets \subseteq Seq(Operation) /\ ImportFiles \subseteq ImportFile
  /\ Kinds = {"content", "links", "lifecycle", "evidence", "exchange", "change"}
  /\ \A rule \in Policy.transitions : rule.to \in Statuses
BY ChangeControlAssumption, PolicyAssumption DEF Statuses, ReuseRecord, Kinds

LEMMA CreateHolds ==
  ASSUME IInv, Create
  PROVE  IInv'
<1>1. PICK content \in Drafts : Mutate("content", CreateCandidate(documents, content), TRUE, {})
  BY DEF Create
<1>2. ASSUME NEW d \in CreateCandidate(documents, content)
      PROVE  Sound(d, 0, assessed, DOMAIN assessed \ {})
  <2>1. d = NewRequirement(documents, content, Policy.defaultStatus, NoReuse, "none", "command")
    BY DEF CreateCandidate
  <2>2. Still(documents, d)
    BY <2>1, AllLinks, Defaults, NewRequirementStill DEF Written
  <2>3. QED
    BY <2>2, AllLinks, StillHolds
<1>3. QED
  BY <1>1, <1>2, MutateHolds, Defaults

LEMMA ProposeHolds ==
  ASSUME IInv, Propose
  PROVE  IInv'
<1>1. PICK content \in Drafts : Mutate("exchange", ProposeAiRequirement(documents, content), TRUE, {})
  BY DEF Propose
<1>2. ASSUME NEW d \in ProposeAiRequirement(documents, content)
      PROVE  Sound(d, 0, assessed, DOMAIN assessed \ {})
  <2>1. d = NewRequirement(documents, content, Policy.defaultStatus, NoReuse, "proposed", "command")
    BY DEF ProposeAiRequirement
  <2>2. Still(documents, d)
    BY <2>1, AllLinks, Defaults, NewRequirementStill DEF Written
  <2>3. QED
    BY <2>2, AllLinks, StillHolds
<1>3. QED
  BY <1>1, <1>2, MutateHolds, Defaults

LEMMA UpdateHolds ==
  ASSUME IInv, Update
  PROVE  IInv'
<1>1. PICK id \in Ids(documents), patch \in Contents :
        Mutate("content", UpdateCandidate(documents,
             [op |-> "update", id |-> id, expectedVersion |-> Version(documents, id), patch |-> patch], 0),
           TRUE, {})
  BY DEF Update
<1> DEFINE op == [op |-> "update", id |-> id, expectedVersion |-> Version(documents, id), patch |-> patch]
<1>2. op \in Operation /\ op.op = "update"
  <2>1. id \in Nat /\ Version(documents, id) \in Nat
    BY IdType
  <2>2. QED
    BY <2>1 DEF Operation
<1> HIDE DEF op
<1>3. Mutate("content", UpdateCandidate(documents, op, 0), TRUE, {})
  BY <1>1 DEF op
<1>4. ASSUME NEW d \in UpdateCandidate(documents, op, 0)
      PROVE  Sound(d, 0, assessed, DOMAIN assessed \ {})
  BY <1>2, AllLinks, UpdateFollows DEF Holding, Implementing
<1>5. QED
  BY <1>3, <1>4, MutateHolds, Defaults

LEMMA RetireHolds ==
  ASSUME IInv, Retire
  PROVE  IInv'
<1>1. PICK id \in Ids(documents), replacement \in Ids(documents) \cup {0} :
        Mutate("content", RetireCandidate(documents,
             [op |-> "retire", id |-> id, expectedVersion |-> Version(documents, id),
              replacement |-> replacement], 0),
           TRUE, {})
  BY DEF Retire
<1> DEFINE op == [op |-> "retire", id |-> id, expectedVersion |-> Version(documents, id), replacement |-> replacement]
<1>2. op \in Operation /\ op.op = "retire"
  <2>1. id \in Nat /\ replacement \in Nat /\ Version(documents, id) \in Nat
    BY IdType
  <2>2. QED
    BY <2>1 DEF Operation
<1> HIDE DEF op
<1>3. Mutate("content", RetireCandidate(documents, op, 0), TRUE, {})
  BY <1>1 DEF op
<1>4. ASSUME NEW d \in RetireCandidate(documents, op, 0)
      PROVE  Sound(d, 0, assessed, DOMAIN assessed \ {})
  BY <1>2, AllLinks, RetireFollows DEF Holding, Implementing
<1>5. QED
  BY <1>3, <1>4, MutateHolds, Defaults

LEMMA LinkHolds ==
  ASSUME IInv, Link
  PROVE  IInv'
<1>1. PICK type \in Types, source \in Ids(documents), target \in Ids(documents) :
        Mutate("links", LinkRequirement(documents, type, source, target), TRUE, {})
  BY DEF Link
<1>2. ASSUME NEW d \in LinkRequirement(documents, type, source, target)
      PROVE  Sound(d, 0, assessed, DOMAIN assessed \ {})
  <2>1. d = NewLink(documents, type, source, target)
    BY DEF LinkRequirement
  <2>2. Still(documents, d)
    BY <2>1, AllLinks, NewLinkStill
  <2>3. QED
    BY <2>2, AllLinks, StillHolds
<1>3. QED
  BY <1>1, <1>2, MutateHolds, Defaults

LEMMA UnlinkedLink ==
  ASSUME NEW old \in LinkRecord
  PROVE  LET new == Unlinked(old) IN
         /\ new \in LinkRecord /\ new.source = old.source /\ new.target = old.target
         /\ new.suspect = old.suspect /\ new.status = old.status /\ new.retired = TRUE
<1> DEFINE step == [old EXCEPT !.retired = TRUE]
<1>1. /\ step \in LinkRecord /\ step.source = old.source /\ step.target = old.target
      /\ step.suspect = old.suspect /\ step.status = old.status /\ step.retired = TRUE /\ step.version = old.version
  BY DEF LinkRecord
<1>2. Unlinked(old) = [step EXCEPT !.version = old.version + 1]
  BY DEF Unlinked
<1> HIDE DEF step
<1>3. QED
  BY <1>1, <1>2 DEF LinkRecord

LEMMA UnlinkHolds ==
  ASSUME IInv, Unlink
  PROVE  IInv'
<1>1. PICK n \in DOMAIN documents.relationships : Mutate("links", UnlinkRequirement(documents, n), TRUE, {})
  BY DEF Unlink
<1>2. ASSUME NEW d \in UnlinkRequirement(documents, n)
      PROVE  Sound(d, 0, assessed, DOMAIN assessed \ {})
  <2> DEFINE old == documents.relationships[n]  link == Unlinked(old)
  <2>1. old \in LinkRecord /\ old.suspect = (old.status = "suspect")
    BY AllLinks DEF Typed
  <2> HIDE DEF old
  <2>2. /\ link \in LinkRecord /\ link.source = old.source /\ link.target = old.target
        /\ link.suspect = old.suspect /\ link.status = old.status /\ link.retired = TRUE
    BY <2>1, UnlinkedLink
  <2>3. d = [documents EXCEPT !.relationships = [@ EXCEPT ![n] = link]]
    BY DEF UnlinkRequirement, old
  <2> HIDE DEF link
  <2>4. Still(documents, d)
    <3>1. link.suspect = (link.status = "suspect")
      BY <2>1, <2>2
    <3>2. link.source = documents.relationships[n].source /\ link.target = documents.relationships[n].target
      BY <2>2 DEF old
    <3>3. QED
      BY <2>2, <2>3, <3>1, <3>2, AllLinks, LinkReplacedStill
  <2>5. QED
    BY <2>4, AllLinks, StillHolds
<1>3. QED
  BY <1>1, <1>2, MutateHolds, Defaults

LEMMA ReassessedLink ==
  ASSUME NEW old \in LinkRecord, NEW status \in {"valid", "waived", "invalid"}
  PROVE  LET new == Reassessed(old, status, FALSE) IN
         /\ new \in LinkRecord /\ new.source = old.source /\ new.target = old.target
         /\ new.suspect = FALSE /\ new.status = status
<1> DEFINE step == [old EXCEPT !.status = status]
           next == [step EXCEPT !.suspect = FALSE]
           last == [next EXCEPT !.retired = status = "invalid"]
<1>1. /\ step \in LinkRecord /\ step.source = old.source /\ step.target = old.target
      /\ step.status = status /\ step.version = old.version
  BY DEF LinkRecord
<1>2. Reassessed(old, status, FALSE) = [last EXCEPT !.version = old.version + 1]
  BY DEF Reassessed
<1> HIDE DEF step
<1>3. /\ next \in LinkRecord /\ next.source = old.source /\ next.target = old.target
      /\ next.status = status /\ next.version = old.version /\ next.suspect = FALSE
  BY <1>1 DEF LinkRecord
<1> HIDE DEF next
<1>4. /\ last \in LinkRecord /\ last.source = old.source /\ last.target = old.target
      /\ last.status = status /\ last.version = old.version /\ last.suspect = FALSE
  BY <1>3 DEF LinkRecord
<1> HIDE DEF last
<1> DEFINE new == [last EXCEPT !.version = old.version + 1]
<1>5. /\ new \in LinkRecord /\ new.source = old.source /\ new.target = old.target
      /\ new.status = status /\ new.suspect = FALSE
  <2>1. old.version + 1 \in Nat
    BY DEF LinkRecord
  <2>2. QED
    BY <1>4, <2>1 DEF LinkRecord
<1> HIDE DEF new
<1>6. QED
  BY <1>2, <1>5 DEF new

LEMMA ReassessHolds ==
  ASSUME IInv, Reassess
  PROVE  IInv'
<1>1. PICK n \in DOMAIN documents.relationships, status \in {"valid", "waived", "invalid"} :
        Mutate("links", ReassessRelationship(documents, n, status), TRUE, {n})
  BY DEF Reassess
<1>2. ASSUME NEW d \in ReassessRelationship(documents, n, status)
      PROVE  Sound(d, 0, assessed, DOMAIN assessed \ {n})
  <2> DEFINE old == documents.relationships[n]  link == Reassessed(old, status, FALSE)
             S == DOMAIN assessed \ {n}
  <2>1. old \in LinkRecord
    BY AllLinks DEF Typed
  <2>2. d = [documents EXCEPT !.relationships = [@ EXCEPT ![n] = link]]
    BY DEF ReassessRelationship
  <2>3. /\ link \in LinkRecord /\ link.source = old.source /\ link.target = old.target
        /\ link.suspect = (link.status = "suspect")
    <3> HIDE DEF old
    <3>1. QED
      BY <2>1, ReassessedLink
  <2> HIDE DEF link
  <2>4. Typed(d) /\ \A T \in SUBSET (DOMAIN documents.relationships \ {n}) : Quiet(documents, d, T)
    BY <2>2, <2>3, AllLinks, LinkReplacedStill
  <2>5. S \in SUBSET (DOMAIN documents.relationships \ {n}) /\ Holding(S)
    BY AllLinks, FewerLinks
  <2> HIDE DEF S
  <2>6. Quiet(documents, d, S)
    BY <2>4, <2>5
  <2>7. Sound(d, 0, assessed, S)
    BY <2>4, <2>5, <2>6, QuietSound DEF Holding
  <2>8. QED
    BY <2>7 DEF S
<1>3. QED
  BY <1>1, <1>2, MutateHolds, Defaults

LEMMA TransitionHolds ==
  ASSUME IInv, Transition
  PROVE  IInv'
<1>1. PICK id \in Ids(documents), rule \in Policy.transitions, exception \in BOOLEAN :
        Mutate("lifecycle", TransitionRequirement(documents, id, rule, exception), TRUE, {})
  BY DEF Transition
<1>2. ASSUME NEW d \in TransitionRequirement(documents, id, rule, exception)
      PROVE  Sound(d, 0, assessed, DOMAIN assessed \ {})
  <2> DEFINE S == DOMAIN assessed
             new == Bump(documents, id, Item(documents, id).content, rule.to, "command")
  <2>1. Holding(S) /\ Typed(documents) /\ rule.to \in Statuses
    BY AllLinks, Defaults
  <2>2. Item(documents, id).content \in Contents
    BY <2>1, LogType DEF VersionEntry
  <2>3. Still(documents, new)
    BY <2>1, <2>2, BumpStill
  <2>4. d \in {new, MarkRelationshipsSuspect(new, id, "retirement")}
    BY DEF TransitionRequirement
  <2> HIDE DEF new, S
  <2>5. Sound(new, 0, assessed, S) /\ Typed(new)
    BY <2>1, <2>3, StillHolds DEF Still
  <2>6. CASE d = MarkRelationshipsSuspect(new, id, "retirement")
    <3>1. Still(new, d)
      BY <2>5, <2>6, MarkedLinksStill
    <3>2. QED
      BY <2>1, <2>5, <3>1, StillFollows DEF Holding, S
  <2>7. QED
    BY <2>4, <2>5, <2>6 DEF S
<1>3. QED
  BY <1>1, <1>2, MutateHolds, Defaults

LEMMA RecordEvidenceHolds ==
  ASSUME IInv, RecordEvidence
  PROVE  IInv'
<1> DEFINE record(id, version) ==
             [requirement |-> id, version |-> version, recordedAt |-> Version(documents, id), stale |-> FALSE]
<1>0. PICK id \in Ids(documents) : \E version \in 1..Version(documents, id) :
        Mutate("evidence", {[documents EXCEPT !.evidence = @ \cup {record(id, version)}]}, TRUE, {})
  BY DEF RecordEvidence
<1>1. PICK version \in 1..Version(documents, id) :
        Mutate("evidence", {[documents EXCEPT !.evidence = @ \cup {record(id, version)}]}, TRUE, {})
  BY <1>0
<1> DEFINE x == record(id, version)
<1>2. x \in EvidenceRecord /\ x.requirement = id /\ x.recordedAt = Version(documents, id)
  BY IdType DEF EvidenceRecord
<1> HIDE DEF x
<1> DEFINE d == [documents EXCEPT !.evidence = @ \cup {x}]
<1>3. Sound(d, 0, assessed, DOMAIN assessed \ {})
  <2>1. Still(documents, d)
    BY <1>2, AllLinks, EvidenceStill
  <2> HIDE DEF d
  <2>2. QED
    BY <2>1, AllLinks, StillHolds
<1>4. Mutate("evidence", {d}, TRUE, {})
  BY <1>1 DEF x
<1> HIDE DEF d
<1>5. QED
  BY <1>3, <1>4, MutateOneHolds, Defaults

LEMMA CreateBaselineHolds ==
  ASSUME IInv, CreateBaseline
  PROVE  IInv'
<1>1. PICK id \in Ids(documents) :
        Mutate("lifecycle", {[documents EXCEPT !.memberships = @ \cup {<<id, Version(documents, id), 1>>}]}, TRUE, {})
  BY DEF CreateBaseline
<1> DEFINE d == [documents EXCEPT !.memberships = @ \cup {<<id, Version(documents, id), 1>>}]
<1>2. Sound(d, 0, assessed, DOMAIN assessed \ {})
  BY AllLinks, MembershipSound DEF Holding
<1>3. Mutate("lifecycle", {d}, TRUE, {})
  BY <1>1
<1> HIDE DEF d
<1>4. QED
  BY <1>2, <1>3, MutateOneHolds, Defaults

LEMMA AdoptHolds ==
  ASSUME IInv, Adopt
  PROVE  IInv'
<1>1. PICK source \in Ids(documents), mode \in {"governed-reference", "controlled-clone"} :
        Mutate("exchange", AdoptReuse(documents, source, mode), TRUE, {})
  BY DEF Adopt
<1> DEFINE reuse == Reuse(documents, mode, source, Version(documents, source), "current")
<1>2. reuse \in ReuseRecord /\ Written(documents, reuse)
  BY AllLinks, IdType, LogType, ReuseWritten
<1>3. ASSUME NEW d \in AdoptReuse(documents, source, mode)
      PROVE  Sound(d, 0, assessed, DOMAIN assessed \ {})
  <2>1. d = NewRequirement(documents, Item(documents, source).content, Policy.defaultStatus, reuse, "none", "command")
    BY DEF AdoptReuse
  <2> HIDE DEF reuse
  <2>2. Item(documents, source).content \in Contents
    BY AllLinks, LogType DEF VersionEntry
  <2>3. Still(documents, d)
    BY <1>2, <2>1, <2>2, AllLinks, Defaults, NewRequirementStill
  <2>4. QED
    BY <2>3, AllLinks, StillHolds
<1>4. QED
  BY <1>1, <1>3, MutateHolds, Defaults

LEMMA AcceptHolds ==
  ASSUME IInv, Accept
  PROVE  IInv'
<1>1. PICK id \in Ids(documents), content \in Contents :
        Mutate("exchange", AcceptAiProposal(documents, id, content), TRUE, {})
  BY DEF Accept
<1> DEFINE patch == [op |-> "update", id |-> id, expectedVersion |-> Version(documents, id), patch |-> content]
           bump == Bump(documents, id, content, Item(documents, id).status, "command")
           accepted(new) == [new EXCEPT !.requirements[id].ai = "accepted"]
<1>2. Holding(DOMAIN assessed) /\ Typed(documents)
  BY AllLinks
<1>3. ASSUME NEW new \in UpdateCandidate(documents, patch, 0)
      PROVE  Sound(new, 0, assessed, DOMAIN assessed) /\ Typed(new) /\ id \in Ids(new)
  <2>1. patch \in Operation /\ patch.op = "update" /\ patch.id = id
    BY IdType DEF Operation
  <2> HIDE DEF patch
  <2>2. Sound(new, 0, assessed, DOMAIN assessed) /\ Done(new, patch)
    BY <1>2, <2>1, UpdateFollows DEF Holding, Implementing
  <2>3. QED
    BY <2>1, <2>2 DEF Done, Sound
<1>4. content = Item(documents, id).content
      => Sound(bump, 0, assessed, DOMAIN assessed) /\ Typed(bump) /\ id \in Ids(bump)
  <2> SUFFICES ASSUME content = Item(documents, id).content
               PROVE  Sound(bump, 0, assessed, DOMAIN assessed) /\ Typed(bump) /\ id \in Ids(bump)
    OBVIOUS
  <2>1. Item(documents, id).status \in Statuses
    BY <1>2, LogType DEF VersionEntry
  <2>2. Still(documents, bump)
    BY <1>2, <2>1, BumpStill
  <2> HIDE DEF bump
  <2>3. id \in Ids(bump)
    BY <2>2 DEF Still, Quiet, LogsKept, Extends
  <2>4. QED
    BY <1>2, <2>2, <2>3, StillHolds DEF Still
<1>5. ASSUME NEW d \in AcceptAiProposal(documents, id, content)
      PROVE  Sound(d, 0, assessed, DOMAIN assessed \ {})
  <2>1. PICK new : /\ d = accepted(new)
                   /\ \/ new \in UpdateCandidate(documents, patch, 0)
                      \/ content = Item(documents, id).content /\ new = bump
    BY DEF AcceptAiProposal
  <2> HIDE DEF patch, bump
  <2>2. Sound(new, 0, assessed, DOMAIN assessed) /\ Typed(new) /\ id \in Ids(new)
    BY <1>3, <1>4, <2>1
  <2> DEFINE r == [new.requirements[id] EXCEPT !.ai = "accepted"]
  <2>3. new.requirements[id] \in RequirementRecord
    BY <2>2, LogType
  <2>4. r \in RequirementRecord /\ r.log = new.requirements[id].log /\ r.reuse = new.requirements[id].reuse
    BY <2>3 DEF RequirementRecord
  <2>5. d = [new EXCEPT !.requirements = [@ EXCEPT ![id] = r]]
    BY <2>1
  <2> HIDE DEF r
  <2>6. Still(new, d)
    BY <2>2, <2>4, <2>5, RequirementStill
  <2>7. QED
    BY <1>2, <2>2, <2>6, AllLinks, StillFollows DEF Holding
<1>6. QED
  BY <1>1, <1>5, MutateHolds, Defaults

LEMMA IssueHolds ==
  ASSUME IInv, NEW kind, NEW preview, preview.revision = revision, PreviewInv(preview), Issue(kind, preview)
  PROVE  IInv'
<1> USE DEF Issue
<1>1. TypeOK'
  BY DEF IInv, TypeOK
<1>2. (Holding(DOMAIN assessed))'
  BY DEF IInv, Holding
<1>3. (\A x \in previews : PreviewInv(x))'
  BY DEF IInv, PreviewInv
<1>4. QED
  BY <1>1, <1>2, <1>3 DEF IInv

LEMMA ExpirePreviewHolds ==
  ASSUME IInv, ExpirePreview
  PROVE  IInv'
<1> USE DEF ExpirePreview
<1>1. TypeOK'
  BY DEF IInv, TypeOK
<1>2. (Holding(DOMAIN assessed))'
  BY DEF IInv, Holding
<1>3. (\A x \in previews : PreviewInv(x))'
  BY DEF IInv, PreviewInv
<1>4. QED
  BY <1>1, <1>2, <1>3 DEF IInv

LEMMA BulkPreviewHolds ==
  ASSUME IInv, BulkPreview
  PROVE  IInv'
<1>1. PICK operations \in CommandSets :
        \E d \in ApplyOperations(documents, operations, 0) :
           Issue("content", [kind |-> "bulk", revision |-> revision, operations |-> operations, after |-> d])
  BY DEF BulkPreview
<1>2. PICK d : Issue("content", [kind |-> "bulk", revision |-> revision, operations |-> operations, after |-> d])
  BY <1>1
<1> DEFINE preview == [kind |-> "bulk", revision |-> revision, operations |-> operations, after |-> d]
<1>3. PreviewInv(preview) /\ preview.revision = revision /\ Issue("content", preview)
  BY <1>2 DEF PreviewInv
<1> HIDE DEF preview
<1>4. QED
  BY <1>3, IssueHolds

LEMMA BulkCommitHolds ==
  ASSUME IInv, BulkCommit
  PROVE  IInv'
<1>1. PICK preview \in previews :
        /\ Fresh(preview, "bulk")
        /\ Mutate("content", ApplyOperations(documents, preview.operations, 0) \cap {preview.after}, TRUE, {})
  BY DEF BulkCommit
<1>2. preview.operations \in Seq(Operation)
  BY <1>1, Defaults DEF IInv, PreviewInv, Fresh
<1> DEFINE candidates == ApplyOperations(documents, preview.operations, 0) \cap {preview.after}
<1>3. \A d \in candidates : Sound(d, 0, assessed, DOMAIN assessed \ {})
  BY <1>2, AllLinks, OperationsFollow DEF Holding, Implementing
<1>4. Mutate("content", candidates, TRUE, {})
  BY <1>1
<1> HIDE DEF candidates
<1>5. QED
  BY <1>3, <1>4, MutateHolds, Defaults

LEMMA PreviewImportHolds ==
  ASSUME IInv, PreviewImport
  PROVE  IInv'
<1>1. PICK file \in ImportFiles :
        \E d \in PrepareImport(documents, file) :
           Issue("exchange", [kind |-> "import", revision |-> revision, after |-> d])
  BY DEF PreviewImport
<1>2. PICK d \in PrepareImport(documents, file) :
        Issue("exchange", [kind |-> "import", revision |-> revision, after |-> d])
  BY <1>1
<1> DEFINE preview == [kind |-> "import", revision |-> revision, after |-> d]
<1>3. PreviewInv(preview) /\ preview.revision = revision /\ Issue("exchange", preview)
  BY <1>2 DEF PreviewInv
<1> HIDE DEF preview
<1>4. QED
  BY <1>3, IssueHolds

\* Documents are sound by what their fields hold.
LEMMA SameFields ==
  ASSUME NEW a, NEW e, NEW S, Sound(a, 0, assessed, S), Assessment(assessed, S),
         DOMAIN e = DOMAIN a, e.requirements = a.requirements, e.relationships = a.relationships,
         e.evidence = a.evidence, e.memberships = a.memberships, e.changes = a.changes
  PROVE  Sound(e, 0, assessed, S)
<1>1. Typed(a) /\ S \subseteq DOMAIN a.relationships
  BY DEF Sound
<1>2. a.relationships \in Seq(LinkRecord) /\ \A n \in DOMAIN a.relationships : WellLinked(a, a.relationships[n])
  BY <1>1 DEF Typed, WellLinked
<1>3. Typed(e) /\ (LinksKept(a, e, S) => Quiet(a, e, S))
  BY <1>1, <1>2, LinksStill
<1>4. LinksKept(a, e, S)
  BY <1>1 DEF LinksKept
<1>5. QED
  BY <1>3, <1>4, QuietSound

LEMMA CommitImportHolds ==
  ASSUME IInv, CommitImport
  PROVE  IInv'
<1>1. PICK preview \in previews :
        /\ Fresh(preview, "import")
        /\ Mutate("exchange", {[documents EXCEPT !.requirements = preview.after.requirements,
                                                 !.relationships = preview.after.relationships]}, TRUE, {})
  BY DEF CommitImport
<1> DEFINE a == preview.after
           d == [documents EXCEPT !.requirements = a.requirements, !.relationships = a.relationships]
<1>2. PICK file \in ImportFiles : a \in PrepareImport(documents, file)
  BY <1>1 DEF IInv, PreviewInv, Fresh
<1>3. Imported(documents, a, 0, assessed, DOMAIN assessed)
  BY <1>2, AllLinks, Defaults, ImportFollows DEF Holding
<1>4. /\ Sound(a, 0, assessed, DOMAIN assessed) /\ DOMAIN a = DOMAIN documents
      /\ a.evidence = documents.evidence /\ a.memberships = documents.memberships /\ a.changes = documents.changes
  BY <1>3 DEF Imported, SameRecords
<1>5. /\ DOMAIN d = DOMAIN a /\ d.requirements = a.requirements /\ d.relationships = a.relationships
      /\ d.evidence = a.evidence /\ d.memberships = a.memberships /\ d.changes = a.changes
  <2>1. DOMAIN documents = {"requirements", "relationships", "evidence", "memberships", "changes"}
    BY AllLinks DEF Typed
  <2> HIDE DEF a
  <2>2. QED
    BY <1>4, <2>1
<1>6. Mutate("exchange", {d}, TRUE, {})
  BY <1>1
<1> HIDE DEF a, d
<1>7. Sound(d, 0, assessed, DOMAIN assessed \ {})
  BY <1>4, <1>5, AllLinks, SameFields DEF Holding
<1>8. QED
  BY <1>6, <1>7, MutateOneHolds, Defaults

LEMMA PreviewReusePropagationHolds ==
  ASSUME IInv, PreviewReusePropagation
  PROVE  IInv'
<1>1. PICK source \in Ids(documents) : \E diverging \in SUBSET Uses(documents, source) :
        \E d \in Propagation(documents, source, diverging) :
           Issue("exchange", [kind |-> "reuse", revision |-> revision, after |-> d])
  BY DEF PreviewReusePropagation
<1>2. PICK diverging \in SUBSET Uses(documents, source) :
        \E d \in Propagation(documents, source, diverging) :
           Issue("exchange", [kind |-> "reuse", revision |-> revision, after |-> d])
  BY <1>1
<1>3. PICK d \in Propagation(documents, source, diverging) :
        Issue("exchange", [kind |-> "reuse", revision |-> revision, after |-> d])
  BY <1>2
<1> DEFINE preview == [kind |-> "reuse", revision |-> revision, after |-> d]
<1>4. PreviewInv(preview) /\ preview.revision = revision /\ Issue("exchange", preview)
  BY <1>3 DEF PreviewInv
<1> HIDE DEF preview
<1>5. QED
  BY <1>4, IssueHolds

LEMMA CommitReusePropagationHolds ==
  ASSUME IInv, CommitReusePropagation
  PROVE  IInv'
<1>1. PICK preview \in previews :
        /\ Fresh(preview, "reuse")
        /\ Mutate("exchange", {[documents EXCEPT !.requirements = preview.after.requirements]}, FALSE, {})
  BY DEF CommitReusePropagation
<1> DEFINE a == preview.after
           d == [documents EXCEPT !.requirements = a.requirements]
<1>2. PICK source \in Ids(documents) :
        \E diverging \in SUBSET Uses(documents, source) : a \in Propagation(documents, source, diverging)
  BY <1>1 DEF IInv, PreviewInv, Fresh
<1>3. Still(documents, a) /\ OtherwiseSame(documents, a)
  BY <1>2, AllLinks, PropagationStill
<1>4. Sound(a, 0, assessed, DOMAIN assessed)
  BY <1>3, AllLinks, StillHolds
<1>5. /\ DOMAIN d = DOMAIN a /\ d.requirements = a.requirements /\ d.relationships = a.relationships
      /\ d.evidence = a.evidence /\ d.memberships = a.memberships /\ d.changes = a.changes
  <2>1. DOMAIN documents = {"requirements", "relationships", "evidence", "memberships", "changes"}
    BY AllLinks DEF Typed
  <2> HIDE DEF a
  <2>2. QED
    BY <1>3, <2>1 DEF OtherwiseSame
<1>6. Mutate("exchange", {d}, FALSE, {})
  BY <1>1
<1> HIDE DEF a, d
<1>7. Sound(d, 0, assessed, DOMAIN assessed \ {})
  BY <1>4, <1>5, AllLinks, SameFields DEF Holding
<1>8. QED
  BY <1>6, <1>7, MutateOneHolds, Defaults

\* A change record in another status.
LEMMA StatusChanged ==
  ASSUME NEW d, Typed(d), NEW ch \in DOMAIN d.changes, NEW status \in ChangeStatuses
  PROVE  LET change == [d.changes[ch] EXCEPT !.status = status] IN
         MovedTo(d, ch, change) /\ change.status = status
<1>1. DOMAIN d.changes[ch] = {"status", "proposals", "impacts"}
  BY DEF Typed
<1>2. QED
  BY <1>1 DEF MovedTo

LEMMA WithStatusSound ==
  ASSUME IInv, NEW ch \in DOMAIN documents.changes, NEW status \in ChangeStatuses,
         status \in {"verifying", "closed"} <=> Implemented(documents, ch)
  PROVE  Sound(WithStatus(ch, status), 0, assessed, DOMAIN assessed \ {})
<1> DEFINE change == [documents.changes[ch] EXCEPT !.status = status]
<1>1. MovedTo(documents, ch, change) /\ change.status = status
  BY AllLinks, StatusChanged
<1>2. WithStatus(ch, status) = [documents EXCEPT !.changes = [@ EXCEPT ![ch] = change]]
  BY DEF WithStatus, SetChange, Change
<1> HIDE DEF change
<1>3. QED
  BY <1>1, <1>2, AllLinks, MoveSound DEF Implemented, Holding

LEMMA CreateChangeHolds ==
  ASSUME IInv, CreateChange
  PROVE  IInv'
<1>1. PICK proposals \in ProposalSets :
        Mutate("change", {[documents EXCEPT !.changes = Append(@,
                  [status |-> "draft", proposals |-> proposals, impacts |-> <<>>])]}, TRUE, {})
  BY DEF CreateChange
<1> DEFINE change == [status |-> "draft", proposals |-> proposals, impacts |-> <<>>]
           d == [documents EXCEPT !.changes = Append(@, change)]
<1>2. /\ DOMAIN change = {"status", "proposals", "impacts"} /\ change.status = "draft"
      /\ change.proposals \in Seq(Operation)
  BY Defaults
<1>3. Mutate("change", {d}, TRUE, {})
  BY <1>1
<1> HIDE DEF change
<1>4. Sound(d, 0, assessed, DOMAIN assessed \ {})
  BY <1>2, AllLinks, NewChangeSound DEF Holding
<1> HIDE DEF d
<1>5. QED
  BY <1>3, <1>4, MutateOneHolds, Defaults

LEMMA TriageHolds ==
  ASSUME IInv, Triage
  PROVE  IInv'
<1>1. PICK ch \in DOMAIN documents.changes :
        Change(ch).status = "draft" /\ Mutate("change", {WithStatus(ch, "triaged")}, TRUE, {})
  BY DEF Triage
<1>2. Sound(WithStatus(ch, "triaged"), 0, assessed, DOMAIN assessed \ {})
  BY <1>1, WithStatusSound DEF Implemented, ChangeStatuses, Change
<1>3. QED
  BY <1>1, <1>2, MutateOneHolds, Defaults

LEMMA AnalyzeChangeHolds ==
  ASSUME IInv, AnalyzeChange
  PROVE  IInv'
<1>1. PICK ch \in DOMAIN documents.changes :
        /\ Change(ch).status \in {"triaged", "analyzing", "ready_for_decision"}
        /\ \E found, status : /\ status \in {"analyzing", "ready_for_decision"}
                              /\ Mutate("change", {SetChange(ch, [Change(ch) EXCEPT
                                    !.impacts = [id \in found |-> "pending"], !.status = status])}, TRUE, {})
  BY DEF AnalyzeChange
<1>2. PICK found, status : /\ status \in {"analyzing", "ready_for_decision"}
                           /\ Mutate("change", {SetChange(ch, [Change(ch) EXCEPT
                                 !.impacts = [id \in found |-> "pending"], !.status = status])}, TRUE, {})
  BY <1>1
<1> DEFINE old == documents.changes[ch]
           analyzed == [old EXCEPT !.impacts = [id \in found |-> "pending"]]
           change == [analyzed EXCEPT !.status = status]
           d == [documents EXCEPT !.changes = [@ EXCEPT ![ch] = change]]
<1>3. Mutate("change", {d}, TRUE, {})
  BY <1>2 DEF SetChange, Change
<1>4. MovedTo(documents, ch, change) /\ change.status = status
  <2>1. DOMAIN old = {"status", "proposals", "impacts"}
    BY AllLinks DEF Typed
  <2>2. DOMAIN analyzed = {"status", "proposals", "impacts"} /\ analyzed.proposals = old.proposals
    <3> HIDE DEF old
    <3>1. QED
      BY <2>1
  <2>3. DOMAIN change = {"status", "proposals", "impacts"} /\ change.proposals = old.proposals /\ change.status = status
    <3> HIDE DEF analyzed, old
    <3>1. QED
      BY <2>2
  <2> HIDE DEF change
  <2>4. QED
    BY <1>2, <2>3 DEF MovedTo, ChangeStatuses, old
<1> HIDE DEF change
<1>5. Sound(d, 0, assessed, DOMAIN assessed \ {})
  <2>1. change.status \in {"verifying", "closed"} <=> documents.changes[ch].status \in {"verifying", "closed"}
    BY <1>1, <1>2, <1>4 DEF Change
  <2>2. QED
    BY <1>4, <2>1, AllLinks, MoveSound DEF Holding
<1> HIDE DEF d
<1>6. QED
  BY <1>3, <1>5, MutateOneHolds, Defaults

LEMMA DispositionImpactHolds ==
  ASSUME IInv, DispositionImpact
  PROVE  IInv'
<1>1. PICK ch \in DOMAIN documents.changes :
        \E id \in DOMAIN Change(ch).impacts, disposition \in {"resolved", "unresolved"} :
          Mutate("change", {SetChange(ch, [Change(ch) EXCEPT !.impacts[id] = disposition])}, TRUE, {})
  BY DEF DispositionImpact
<1>2. PICK id, disposition :
        Mutate("change", {SetChange(ch, [Change(ch) EXCEPT !.impacts[id] = disposition])}, TRUE, {})
  BY <1>1
<1> DEFINE old == documents.changes[ch]
           change == [old EXCEPT !.impacts[id] = disposition]
           d == [documents EXCEPT !.changes = [@ EXCEPT ![ch] = change]]
<1>3. Mutate("change", {d}, TRUE, {})
  BY <1>2 DEF SetChange, Change
<1>4. MovedTo(documents, ch, change) /\ change.status = old.status
  <2>1. DOMAIN old = {"status", "proposals", "impacts"} /\ old.status \in ChangeStatuses
    BY AllLinks DEF Typed
  <2>2. DOMAIN change = {"status", "proposals", "impacts"} /\ change.proposals = old.proposals /\ change.status = old.status
    <3> HIDE DEF old
    <3>1. QED
      BY <2>1
  <2> HIDE DEF change
  <2>3. QED
    BY <2>1, <2>2 DEF MovedTo
<1> HIDE DEF change
<1>5. Sound(d, 0, assessed, DOMAIN assessed \ {})
  BY <1>4, AllLinks, MoveSound DEF Holding
<1> HIDE DEF d
<1>6. QED
  BY <1>3, <1>5, MutateOneHolds, Defaults

LEMMA DecideChangeHolds ==
  ASSUME IInv, DecideChange
  PROVE  IInv'
<1>1. PICK ch \in DOMAIN documents.changes, outcome \in {"approved", "rejected", "deferred"} :
        Change(ch).status = "ready_for_decision" /\ Mutate("change", {WithStatus(ch, outcome)}, TRUE, {})
  BY DEF DecideChange
<1>2. Sound(WithStatus(ch, outcome), 0, assessed, DOMAIN assessed \ {})
  <2>1. outcome \in ChangeStatuses /\ outcome \notin {"verifying", "closed"} /\ ~Implemented(documents, ch)
    BY <1>1 DEF Implemented, ChangeStatuses, Change
  <2>2. QED
    BY <2>1, WithStatusSound
<1>3. QED
  BY <1>1, <1>2, MutateOneHolds, Defaults

LEMMA CloseChangeHolds ==
  ASSUME IInv, CloseChange
  PROVE  IInv'
<1>1. PICK ch \in DOMAIN documents.changes :
        Change(ch).status = "verifying" /\ Mutate("change", {WithStatus(ch, "closed")}, TRUE, {})
  BY DEF CloseChange
<1>2. Sound(WithStatus(ch, "closed"), 0, assessed, DOMAIN assessed \ {})
  BY <1>1, WithStatusSound DEF Implemented, ChangeStatuses, Change
<1>3. QED
  BY <1>1, <1>2, MutateOneHolds, Defaults

LEMMA PreviewChangeImplementationHolds ==
  ASSUME IInv, PreviewChangeImplementation
  PROVE  IInv'
<1>1. PICK ch \in DOMAIN documents.changes :
        \E d : Issue("change", [kind |-> "change", revision |-> revision, change |-> ch, after |-> [d EXCEPT !.changes = <<>>]])
  BY DEF PreviewChangeImplementation
<1>2. PICK d : Issue("change", [kind |-> "change", revision |-> revision, change |-> ch, after |-> [d EXCEPT !.changes = <<>>]])
  BY <1>1
<1> DEFINE preview == [kind |-> "change", revision |-> revision, change |-> ch, after |-> [d EXCEPT !.changes = <<>>]]
<1>3. PreviewInv(preview) /\ preview.revision = revision /\ Issue("change", preview)
  BY <1>2 DEF PreviewInv
<1> HIDE DEF preview
<1>4. QED
  BY <1>3, IssueHolds

\* The change is implemented in between two statuses that the command alone sees.
LEMMA CommitChangeImplementationHolds ==
  ASSUME IInv, CommitChangeImplementation
  PROVE  IInv'
<1>1. PICK preview \in previews :
        /\ Fresh(preview, "change")
        /\ Change(preview.change).status = "approved"
        /\ \E d \in ApplyChangeOperations(WithStatus(preview.change, "implementing"), preview.change) :
             Mutate("change", {[d EXCEPT !.changes[preview.change].status = "verifying"]}, FALSE, {})
  BY DEF CommitChangeImplementation
<1> DEFINE ch == preview.change  start == WithStatus(ch, "implementing")
           proposals == documents.changes[ch].proposals  S == DOMAIN assessed
<1>2. PICK d \in ApplyChangeOperations(start, ch) :
        Mutate("change", {[d EXCEPT !.changes[ch].status = "verifying"]}, FALSE, {})
  BY <1>1
<1>3. ch \in DOMAIN documents.changes /\ documents.changes[ch].status = "approved"
  BY <1>1 DEF IInv, PreviewInv, Fresh, Change
<1>4. Sound(documents, 0, assessed, S) /\ Assessment(assessed, S) /\ Typed(documents)
  BY AllLinks DEF Holding
<1>5. ch # 0 /\ proposals \in Seq(Operation)
  <2>1. DOMAIN documents.changes = 1..Len(documents.changes)
    BY <1>4 DEF Typed
  <2>2. QED
    BY <1>3, <1>4, <2>1 DEF Typed
<1> HIDE DEF ch, S
<1>6. Sound(start, ch, assessed, S) /\ Implementing(start, ch) /\ start.changes[ch].proposals = proposals
  <2> DEFINE change == [documents.changes[ch] EXCEPT !.status = "implementing"]
  <2>1. MovedTo(documents, ch, change) /\ change.status = "implementing"
    <3>1. "implementing" \in ChangeStatuses
      BY DEF ChangeStatuses
    <3>2. QED
      BY <1>3, <1>4, <3>1, StatusChanged
  <2>2. start = [documents EXCEPT !.changes = [@ EXCEPT ![ch] = change]]
    BY DEF WithStatus, SetChange, Change
  <2> HIDE DEF change, start
  <2>3. Moved(documents, start, ch, change)
    BY <1>3, <1>4, <2>1, <2>2, ChangeReplaced
  <2>4. \A c \in DOMAIN documents.changes : Implemented(start, c) <=> Implemented(documents, c)
    BY <1>3, <2>1, <2>3 DEF Moved, Implemented
  <2>5. MovesOn(documents, start, 0, ch) /\ OnceApplied(documents, start)
    <3>1. 0 \notin DOMAIN documents.changes
      BY <1>4 DEF Typed
    <3>2. QED
      BY <2>3, <2>4, <3>1 DEF Moved, MovesOn, OnceApplied
  <2>6. QED
    BY <1>3, <1>4, <2>3, <2>5, ChangesSound DEF Moved, Implementing
<1>7. /\ Sound(d, ch, assessed, S) /\ d.changes = start.changes
      /\ \A n \in Targeted(proposals) : Done(d, proposals[n])
  <2>1. d \in ApplyOperations(start, proposals, ch)
    BY <1>2, <1>6 DEF ApplyChangeOperations
  <2> HIDE DEF start, proposals
  <2>2. QED
    BY <1>4, <1>5, <1>6, <2>1, OperationsFollow DEF Keeps
<1>8. ch \in DOMAIN d.changes /\ d.changes[ch].proposals = proposals /\ Typed(d)
  BY <1>5, <1>6, <1>7 DEF Implementing, Sound
<1> DEFINE change == [d.changes[ch] EXCEPT !.status = "verifying"]
           e == [d EXCEPT !.changes = [@ EXCEPT ![ch] = change]]
<1>9. Mutate("change", {e}, FALSE, {})
  BY <1>2
<1>10. Sound(e, 0, assessed, S)
  <2> HIDE DEF start, proposals
  <2>1. MovedTo(d, ch, change) /\ change.status = "verifying"
    <3>1. "verifying" \in ChangeStatuses
      BY DEF ChangeStatuses
    <3>2. QED
      BY <1>8, <3>1, StatusChanged
  <2> HIDE DEF change
  <2>2. Moved(d, e, ch, change)
    BY <1>8, <2>1, ChangeReplaced
  <2> HIDE DEF e
  <2>3. Implemented(e, ch) /\ e.changes[ch].proposals = proposals
    BY <1>8, <2>1, <2>2 DEF Moved, Implemented
  <2>4. \A c \in DOMAIN d.changes \ {ch} : Implemented(e, c) <=> Implemented(d, c)
    BY <2>2 DEF Moved, Implemented
  <2>5. MovesOn(d, e, ch, 0)
    BY <2>2, <2>3, <2>4 DEF Moved, MovesOn
  <2>6. OnceApplied(d, e)
    BY <1>7, <2>2, <2>3, <2>4 DEF Moved, OnceApplied
  <2>7. QED
    BY <1>7, <2>2, <2>5, <2>6, ChangesSound DEF Moved
<1> HIDE DEF e, start, proposals
<1>11. Sound(e, 0, assessed, DOMAIN assessed \ {})
  BY <1>10, AllLinks DEF S
<1>12. QED
  BY <1>9, <1>11, MutateOneHolds, Defaults

----------------------------------------------------------------------------
(* The theorems.                                                           *)

LEMMA GovernedAll ==
  ASSUME NEW d, Typed(d)
  PROVE  GovernedBut(d, 0) <=> Governed(d)
<1>1. 0 \notin DOMAIN d.changes
  BY DEF Typed
<1>2. QED
  BY <1>1 DEF GovernedBut, Governed

LEMMA InitHolds ==
  ASSUME Init
  PROVE  IInv
<1>1. PICK s \in Scenarios : documents = s.documents /\ commands = s.commands
  BY DEF Init
<1>2. /\ Typed(documents) /\ Governed(documents) /\ EvidenceRecordedSince(documents)
      /\ UsesFollowSource(documents) /\ AsApproved(documents) /\ commands \in [Kinds -> Nat]
  BY <1>1, ScenariosAssumption
<1>3. revision = 0 /\ previews = {} /\ assessed = [n \in DOMAIN documents.relationships |-> EndpointVersions(documents, n)]
  BY DEF Init
<1>4. TypeOK
  BY <1>2, <1>3 DEF TypeOK
<1>5. Sound(documents, 0, {}, {}) /\ Assessment({}, {})
  <2>1. GovernedBut(documents, 0)
    BY <1>2, GovernedAll
  <2>2. QED
    BY <1>2, <2>1 DEF Sound, Trusted, Assessment
<1>6. Holding(DOMAIN assessed)
  <2>1. assessed = [n \in DOMAIN documents.relationships |-> IF n \in {} THEN {}[n] ELSE EndpointVersions(documents, n)]
    BY <1>3
  <2>2. QED
    BY <1>5, <2>1, AssessedSound DEF Holding
<1>7. QED
  BY <1>3, <1>4, <1>6 DEF IInv

\* The assumption on scenarios asks for nothing a new repository lacks.
LEMMA NewRepository ==
  LET d == [requirements |-> <<>>, relationships |-> <<>>, evidence |-> {}, memberships |-> {}, changes |-> <<>>] IN
  Valid(d) /\ Typed(d) /\ Governed(d) /\ EvidenceRecordedSince(d) /\ UsesFollowSource(d) /\ AsApproved(d)
<1> DEFINE d == [requirements |-> <<>>, relationships |-> <<>>, evidence |-> {}, memberships |-> {}, changes |-> <<>>]
<1>1. /\ DOMAIN d = {"requirements", "relationships", "evidence", "memberships", "changes"}
      /\ d.requirements = <<>> /\ d.relationships = <<>> /\ d.evidence = {} /\ d.changes = <<>>
  OBVIOUS
<1> HIDE DEF d
<1>2. Ids(d) = {} /\ DOMAIN d.relationships = {} /\ DOMAIN d.changes = {}
  BY <1>1 DEF Ids
<1>3. Typed(d)
  BY <1>1, <1>2 DEF Typed
<1>4. Valid(d) /\ Governed(d) /\ EvidenceRecordedSince(d) /\ UsesFollowSource(d) /\ AsApproved(d)
  BY <1>1, <1>2 DEF Valid, Governed, EvidenceRecordedSince, UsesFollowSource, AsApproved
<1>5. QED
  BY <1>3, <1>4 DEF d

LEMMA NextHolds ==
  ASSUME IInv, [Next]_vars
  PROVE  IInv'
<1>1. CASE Create BY <1>1, CreateHolds
<1>2. CASE Update BY <1>2, UpdateHolds
<1>3. CASE Retire BY <1>3, RetireHolds
<1>4. CASE Link BY <1>4, LinkHolds
<1>5. CASE Unlink BY <1>5, UnlinkHolds
<1>6. CASE Reassess BY <1>6, ReassessHolds
<1>7. CASE Transition BY <1>7, TransitionHolds
<1>8. CASE RecordEvidence BY <1>8, RecordEvidenceHolds
<1>9. CASE CreateBaseline BY <1>9, CreateBaselineHolds
<1>10. CASE Adopt BY <1>10, AdoptHolds
<1>11. CASE Propose BY <1>11, ProposeHolds
<1>12. CASE Accept BY <1>12, AcceptHolds
<1>13. CASE ExpirePreview BY <1>13, ExpirePreviewHolds
<1>14. CASE BulkPreview BY <1>14, BulkPreviewHolds
<1>15. CASE BulkCommit BY <1>15, BulkCommitHolds
<1>16. CASE PreviewImport BY <1>16, PreviewImportHolds
<1>17. CASE CommitImport BY <1>17, CommitImportHolds
<1>18. CASE PreviewReusePropagation BY <1>18, PreviewReusePropagationHolds
<1>19. CASE CommitReusePropagation BY <1>19, CommitReusePropagationHolds
<1>20. CASE CreateChange BY <1>20, CreateChangeHolds
<1>21. CASE Triage BY <1>21, TriageHolds
<1>22. CASE AnalyzeChange BY <1>22, AnalyzeChangeHolds
<1>23. CASE DispositionImpact BY <1>23, DispositionImpactHolds
<1>24. CASE DecideChange BY <1>24, DecideChangeHolds
<1>25. CASE PreviewChangeImplementation BY <1>25, PreviewChangeImplementationHolds
<1>26. CASE CommitChangeImplementation BY <1>26, CommitChangeImplementationHolds
<1>27. CASE CloseChange BY <1>27, CloseChangeHolds
<1>28. CASE UNCHANGED vars
  <2> USE <1>28 DEF vars
  <2>1. TypeOK'
    BY DEF IInv, TypeOK
  <2>2. (Holding(DOMAIN assessed))'
    BY DEF IInv, Holding
  <2>3. (\A preview \in previews : PreviewInv(preview))'
    BY DEF IInv, PreviewInv
  <2>4. QED
    BY <2>1, <2>2, <2>3 DEF IInv
<1>29. QED
  BY <1>1, <1>2, <1>3, <1>4, <1>5, <1>6, <1>7, <1>8, <1>9, <1>10, <1>11, <1>12, <1>13, <1>14, <1>15, <1>16,
     <1>17, <1>18, <1>19, <1>20, <1>21, <1>22, <1>23, <1>24, <1>25, <1>26, <1>27, <1>28 DEF Next

LEMMA Invariant == Spec => []IInv
BY InitHolds, NextHolds, PTL DEF Spec

LEMMA InvariantGives ==
  ASSUME IInv
  PROVE  /\ TypeOK /\ ProtectedContentGoverned /\ TrustedLinksAssessed /\ TrustedEvidenceRecordedSince
         /\ CurrentUsesFollowSource /\ ImplementedAsApproved
<1>1. TypeOK /\ Sound(documents, 0, assessed, DOMAIN assessed) /\ Typed(documents)
      /\ DOMAIN assessed = DOMAIN documents.relationships
  BY AllLinks DEF IInv, Holding
<1>2. ProtectedContentGoverned
  BY <1>1, GovernedAll DEF Sound, ProtectedContentGoverned
<1>3. TrustedLinksAssessed
  BY <1>1 DEF Sound, Trusted, TrustedLinksAssessed, ActiveLinks
<1>4. TrustedEvidenceRecordedSince /\ CurrentUsesFollowSource /\ ImplementedAsApproved
  BY <1>1 DEF Sound, TrustedEvidenceRecordedSince, CurrentUsesFollowSource, ImplementedAsApproved
<1>5. QED
  BY <1>1, <1>2, <1>3, <1>4

\* Records keep their types, links and evidence name requirements that exist,
\* and the version a reuse record knows of its origin is one the origin has, whatever
\* the commands of the services do, in whichever order (validation.js 369-370 for links).
\* The origin and version an import file claims may be any (validation.js 238-250).
THEOREM Typing == Spec => []TypeOK
BY Invariant, InvariantGives, PTL

\* No command rewrites approved or baselined content materially but as an implemented
\* change proposed it for exactly that version: assertApprovedChangeForProtectedContent
\* in updateCandidate, reached from the bulk and change commits too (authoring.js,
\* workflow.js).
THEOREM ChangesGovern == Spec => []ProtectedContentGoverned
BY Invariant, InvariantGives, PTL

\* A link that is not suspect connects requirements that no command has materially
\* changed since it was made or reassessed (markRelationshipsSuspect, traceability.js).
THEOREM LinksAssessed == Spec => []TrustedLinksAssessed
BY Invariant, InvariantGives, PTL

\* Evidence that is not potentially stale was recorded after the last evidential change
\* of its requirement by a command (markEvidencePotentiallyStale, authoring.js).
THEOREM EvidenceTrusted == Spec => []TrustedEvidenceRecordedSince
BY Invariant, InvariantGives, PTL

\* No command has materially changed the source of a use that is reported current since
\* the use was adopted or synchronized, or its reuse record imported with a version the
\* source had (markReuseSourceChanged, authoring.js; propagation,
\* reuse-ai-governance.js; prepareImport, import-exchange.js).
THEOREM UsesFollow == Spec => []CurrentUsesFollowSource
BY Invariant, InvariantGives, PTL

\* A change in verification or closed did each thing it was approved to do, to the
\* version it was approved for (commitChangeImplementation, workflow.js).
THEOREM DoneAsApproved == Spec => []ImplementedAsApproved
BY Invariant, InvariantGives, PTL
=============================================================================
