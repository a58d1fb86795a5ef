-------------------------- MODULE RevisionsProofs --------------------------
(***************************************************************************)
(* What was current stays known: the revisions that read back, the backup  *)
(* of every migration, and the search answers, for any documents, searches *)
(* and budget.  The argument: the integrity manifest always names the last *)
(* revision of the past (PastInv), whatever the two documents are in the   *)
(* middle of; a prepared transaction is the only one, and starts where the *)
(* manifest stands (PreparedInv); only the first revision may be a legacy  *)
(* one, so every backup is of it and restoring one leaves what the other   *)
(* ones need (PastInv, BackupInv); the committed transactions, in the order*)
(* of their names, lead from one revision to the next, each once and none  *)
(* left out (LineInv), so what is read back from them is what was.         *)
(***************************************************************************)
EXTENDS Revisions, FiniteSetTheorems, NaturalsInduction, WellFoundedInduction, TLAPS

Manifests == [id : Nat, before : Pairs, after : Pairs, status : {"committed", "prepared", "rolled-back"}]
Restorations == [step : {"business", "software", "integrity"}, backup : Nat]
Indexings == [step : {"write index", "assign index"}, process : {"server", "other"}, pair : Pairs]
Indexes == [revision : Int, texts : [Levels -> Texts \cup {""}]]
States == [step : {"idle", "health", "load", "loaded", "rebuild", "assign", "query", "answered"},
           pair : Pairs \cup {NotFound}, seen : Indexes, quiet : BOOLEAN,
           status : {"none", "current", "canonical-fallback"}, hits : SUBSET Levels]

FilesTyped ==
    /\ business \in Documents /\ software \in Documents
    /\ integrity \in [revision : Nat, business : Documents, software : Documents, transaction : Nat]
    /\ manifests \in Seq(Manifests)
    /\ backups \in Seq(Pairs)
HolderTyped ==
    /\ holder \in [step : {"free"}] \cup Restorations \cup Indexings
    /\ holder \in Restorations => holder.backup \in DOMAIN backups
PastTyped ==
    /\ DOMAIN past \subseteq Nat
    /\ past \in [DOMAIN past -> Pairs]
    /\ abandoned \in BOOLEAN
ServerTyped ==
    /\ index \in [current : Indexes, stale : BOOLEAN]
    /\ indexFile \in Indexes
    /\ searches \in [Searches -> States]
    /\ \A s \in Searches : searches[s].step # "idle" => searches[s].pair \in Pairs
TypeInv == FilesTyped /\ HolderTyped /\ PastTyped

\* The pair was current at its revision, and this was not undone.
Past(pair) == Revision(pair) \in DOMAIN past /\ past[Revision(pair)] = pair

Recorded == [business |-> integrity.business, software |-> integrity.software]

PastInv ==
    /\ \A r \in DOMAIN past : Consistent(past[r]) /\ Revision(past[r]) = r
    /\ \A r, q \in DOMAIN past : past[r].business.schema = Legacy => r <= q
    /\ Revision(Recorded) = integrity.revision /\ Past(Recorded)
    /\ \A r \in DOMAIN past : r <= integrity.revision

BackupsPast == \A b \in DOMAIN backups : backups[b].business.schema = Legacy /\ Past(backups[b])
BackupInv ==
    /\ BackupsPast
    /\ \A r \in DOMAIN past :
          (past[r].business.schema = Legacy /\ r + 1 \in DOMAIN past) => Contains(backups, past[r])

Prepared(i) == manifests[i].status = "prepared"

\* A transaction that may still be rolled forward.
Pending(before, after) ==
    /\ Past(before) /\ Revision(before) = integrity.revision
    /\ Consistent(after) /\ Revision(after) = integrity.revision + 1
    /\ after.business.schema = CurrentSchema
    /\ before.business.schema = Legacy => Contains(backups, before)

PreparedInv ==
    /\ \A i \in DOMAIN manifests : Prepared(i) => Free /\ Pending(manifests[i].before, manifests[i].after)
    /\ \A i, j \in DOMAIN manifests : Prepared(i) /\ Prepared(j) => i = j

Core == TypeInv /\ PastInv /\ BackupInv /\ PreparedInv

\* The transactions remember every revision but the last, and nothing else.
Traced(manifest) == Past(manifest.before) /\ (manifest.status = "committed" => Past(manifest.after))
Tells(manifest, r) == Leads(manifest, r) \/ Revision(manifest.before) = r

TraceInv ==
    ~abandoned =>
      /\ \A i \in DOMAIN manifests : Traced(manifests[i])
      /\ \A r \in DOMAIN past : r # integrity.revision => \E i \in DOMAIN manifests : Tells(manifests[i], r)

\* An index that says what the revision it names was.
SaysWhatWas(built) == built = NoIndex \/ (built.revision \in DOMAIN past /\ built = BuildSearchIndex(past[built.revision]))

\* A search over the index ix of the server's memory.
SearchTrue(search, ix) ==
    /\ SaysWhatWas(search.seen)
    /\ search.step # "idle" => Past(search.pair)
    /\ (search.step = "query" /\ search.quiet /\ ~ix.stale /\ ix.current # NoIndex) =>
          ix.current = BuildSearchIndex(search.pair)
    /\ (search.step = "answered" /\ (search.status = "current" => search.quiet)) =>
          search.hits = SearchIndex(BuildSearchIndex(search.pair))

\* What the holder of the lock writes into the index is current.
HolderInv == holder \in Indexings => Past(holder.pair)

SearchInv ==
    ~abandoned => /\ SaysWhatWas(index.current) /\ SaysWhatWas(indexFile)
                  /\ \A s \in Searches : SearchTrue(searches[s], index)

\* The files and what is known of the past, and the server's memory.
FilesInv == Core /\ TraceInv /\ HolderInv
ServerInv == ServerTyped /\ SearchInv
----------------------------------------------------------------------------
(* The files                                                               *)

\* One more transaction, at place p; the others are those there were.
Added(manifest, p) ==
    /\ manifests' \in Seq(Manifests)
    /\ p \in DOMAIN manifests' /\ manifests'[p] = manifest
    /\ \A j \in DOMAIN manifests' : j # p => \E i \in DOMAIN manifests : manifests'[j] = manifests[i]
    /\ \A i \in DOMAIN manifests : \E j \in DOMAIN manifests' : manifests'[j] = manifests[i]

\* What follows is moved up by one place, and the revisions stay in their order.
Shifted(manifest, p) ==
    /\ p \in 1..(Len(manifests) + 1)
    /\ manifests' \in Seq(Manifests) /\ Len(manifests') = Len(manifests) + 1
    /\ \A j \in 1..(p - 1) : manifests'[j] = manifests[j]
    /\ manifests'[p] = manifest
    /\ \A j \in (p + 1)..(Len(manifests) + 1) : manifests'[j] = manifests[j - 1]
    /\ \A i \in 1..(p - 1) : Revision(manifests[i].after) <= Revision(manifest.after)
    /\ \A i \in p..Len(manifests) : Revision(manifests[i].after) >= Revision(manifest.after)

LEMMA ListedShifts ==
  ASSUME manifests \in Seq(Manifests), NEW manifest \in Manifests, manifests' \in Listed(manifest)
  PROVE  \E p : Shifted(manifest, p)
<1>1. PICK p \in 1..(Len(manifests) + 1) :
        /\ manifests' = InsertAt(manifests, p, manifest)
        /\ \A i \in 1..(p - 1) : Revision(manifests[i].after) <= Revision(manifest.after)
        /\ \A i \in p..Len(manifests) : Revision(manifests[i].after) >= Revision(manifest.after)
  BY DEF Listed
<1>2. p \in Nat /\ p - 1 \in 0..Len(manifests) /\ Len(manifests) \in Nat
  BY <1>1
<1> DEFINE head == SubSeq(manifests, 1, p - 1)
           tail == SubSeq(manifests, p, Len(manifests))
<1>3. /\ head \in Seq(Manifests) /\ Len(head) = p - 1
      /\ \A j \in 1..(p - 1) : head[j] = manifests[j]
  BY <1>2
<1>4. /\ tail \in Seq(Manifests) /\ Len(tail) = Len(manifests) - p + 1
      /\ \A j \in 1..(Len(manifests) - p + 1) : tail[j] = manifests[p + j - 1]
  BY <1>1, <1>2
<1>5. manifests' = head \o <<manifest>> \o tail
  BY <1>1 DEF InsertAt
<1> HIDE DEF head, tail
<1>6. /\ manifests' \in Seq(Manifests) /\ Len(manifests') = Len(manifests) + 1
      /\ \A j \in 1..(p - 1) : manifests'[j] = manifests[j]
      /\ manifests'[p] = manifest
      /\ \A j \in (p + 1)..(Len(manifests) + 1) : manifests'[j] = manifests[j - 1]
  <2>1. <<manifest>> \in Seq(Manifests) /\ Len(<<manifest>>) = 1 /\ <<manifest>>[1] = manifest
    OBVIOUS
  <2> DEFINE front == head \o <<manifest>>
  <2>2. /\ front \in Seq(Manifests) /\ Len(front) = p
        /\ \A j \in 1..(p - 1) : front[j] = manifests[j]
        /\ front[p] = manifest
    BY <1>2, <1>3, <2>1
  <2>3. manifests' = front \o tail
    BY <1>5
  <2> HIDE DEF front
  <2>4. manifests' \in Seq(Manifests) /\ Len(manifests') = Len(manifests) + 1
    <3>1. manifests' \in Seq(Manifests) /\ Len(manifests') = Len(front) + Len(tail)
      BY <1>4, <2>2, <2>3
    <3>2. Len(front) + Len(tail) = Len(manifests) + 1
      BY <1>2, <1>4, <2>2
    <3>3. QED
      BY <3>1, <3>2
  <2>5. \A j \in 1..p : manifests'[j] = front[j]
    BY <1>2, <1>4, <2>2, <2>3
  <2>6. \A j \in (p + 1)..(Len(manifests) + 1) : manifests'[j] = manifests[j - 1]
    <3> TAKE j \in (p + 1)..(Len(manifests) + 1)
    <3>1. j - p \in 1..(Len(manifests) - p + 1) /\ p + (j - p) - 1 = j - 1
      BY <1>2
    <3>2. Len(front) = p /\ Len(tail) = Len(manifests) - p + 1 /\ j \in Nat /\ ~(j <= p)
      BY <1>2, <1>4, <2>2
    <3>3. j \in 1..(Len(front) + Len(tail))
      BY <1>2, <3>1, <3>2
    <3>4. manifests'[j] = tail[j - Len(front)]
      BY <1>4, <2>2, <2>3, <3>2, <3>3
    <3>5. QED
      BY <1>4, <3>1, <3>2, <3>4
  <2>7. QED
    BY <1>2, <2>2, <2>4, <2>5, <2>6
<1>7. QED
  BY <1>1, <1>6 DEF Shifted

LEMMA ListedAdds ==
  ASSUME manifests \in Seq(Manifests), NEW manifest \in Manifests, manifests' \in Listed(manifest)
  PROVE  \E p : Added(manifest, p)
<1>1. PICK p : Shifted(manifest, p)
  BY ListedShifts
<1>2. p \in Nat /\ p - 1 \in 0..Len(manifests) /\ Len(manifests) \in Nat /\ p \in 1..(Len(manifests) + 1)
  BY <1>1 DEF Shifted
<1>3. /\ manifests' \in Seq(Manifests) /\ Len(manifests') = Len(manifests) + 1
      /\ \A j \in 1..(p - 1) : manifests'[j] = manifests[j]
      /\ manifests'[p] = manifest
      /\ \A j \in (p + 1)..(Len(manifests) + 1) : manifests'[j] = manifests[j - 1]
  BY <1>1 DEF Shifted
<1>4. \A j \in DOMAIN manifests' : j # p => \E i \in DOMAIN manifests : manifests'[j] = manifests[i]
  <2> SUFFICES ASSUME NEW j \in DOMAIN manifests', j # p
               PROVE  \E i \in DOMAIN manifests : manifests'[j] = manifests[i]
    OBVIOUS
  <2>1. j \in 1..(Len(manifests) + 1)
    BY <1>3
  <2>2. CASE j < p
    BY <1>2, <1>3, <2>1, <2>2
  <2>3. CASE j > p
    <3>1. manifests'[j] = manifests[j - 1] /\ j - 1 \in 1..Len(manifests)
      BY <1>2, <1>3, <2>1, <2>3
    <3>2. QED
      BY <3>1
  <2>4. QED
    BY <1>2, <2>1, <2>2, <2>3
<1>5. \A i \in DOMAIN manifests : \E j \in DOMAIN manifests' : manifests'[j] = manifests[i]
  <2> SUFFICES ASSUME NEW i \in DOMAIN manifests
               PROVE  \E j \in DOMAIN manifests' : manifests'[j] = manifests[i]
    OBVIOUS
  <2>1. i \in 1..Len(manifests)
    OBVIOUS
  <2>2. CASE i < p
    BY <1>2, <1>3, <2>1, <2>2
  <2>3. CASE i >= p
    <3>1. i + 1 \in (p + 1)..(Len(manifests) + 1) /\ i + 1 \in DOMAIN manifests'
      BY <1>2, <1>3, <2>1, <2>3
    <3>2. manifests'[i + 1] = manifests[(i + 1) - 1] /\ (i + 1) - 1 = i
      BY <1>3, <2>1, <3>1
    <3>3. QED
      BY <3>1, <3>2
  <2>4. QED
    BY <1>2, <2>1, <2>2, <2>3
<1>6. p \in DOMAIN manifests'
  BY <1>2, <1>3
<1>7. QED
  BY <1>3, <1>4, <1>5, <1>6 DEF Added

\* What loads is what the integrity manifest records: the current pair.
LEMMA LoadedIsRecorded ==
  ASSUME TypeInv, PastInv, RawLoadable
  PROVE  /\ Pair = Recorded /\ Pair \in Pairs /\ Consistent(Pair)
         /\ Revision(Pair) = integrity.revision /\ business.revision = integrity.revision
         /\ Past(Pair)
  BY DEF TypeInv, FilesTyped, PastInv, RawLoadable, Pair, Recorded, Pairs, Revision

\* A new pair is remembered after all the others.
LEMMA RememberGrows ==
  ASSUME PastTyped, NEW pair \in Pairs, Remember(pair)
  PROVE  /\ DOMAIN past' = DOMAIN past \cup {Revision(pair)}
         /\ past'[Revision(pair)] = pair
         /\ \A r \in DOMAIN past : r # Revision(pair) => past'[r] = past[r]
         /\ DOMAIN past' \subseteq Nat /\ past' \in [DOMAIN past' -> Pairs]
<1>1. Revision(pair) \in Nat
  BY DEF Revision, Pairs, Documents
<1>2. QED
  BY <1>1 DEF Remember, PastTyped

\* What the past may become: it grows by the next revision.
GrowsBy(pair) ==
    /\ pair \in Pairs /\ Consistent(pair) /\ pair.business.schema = CurrentSchema
    /\ Revision(pair) = integrity.revision + 1
    /\ Remember(pair)

\* Nothing that was current is forgotten.
PastKept == \A r \in DOMAIN past : r \in DOMAIN past' /\ past'[r] = past[r]

LEMMA GrowingKeeps ==
  ASSUME TypeInv, PastInv, NEW pair, GrowsBy(pair)
  PROVE  PastKept
<1>1. \A r \in DOMAIN past : r # Revision(pair)
  BY DEF TypeInv, FilesTyped, PastTyped, PastInv, GrowsBy
<1>2. QED
  BY <1>1, RememberGrows DEF TypeInv, GrowsBy, PastKept

LEMMA GrowingPast ==
  ASSUME TypeInv, PastInv, NEW pair, GrowsBy(pair), NEW transaction,
         integrity' = [revision |-> Revision(pair), business |-> pair.business,
                       software |-> pair.software, transaction |-> transaction]
  PROVE  PastInv'
<1>1. PastKept /\ PastTyped /\ integrity.revision \in Nat
  BY GrowingKeeps DEF TypeInv, FilesTyped
<1>2. /\ DOMAIN past' = DOMAIN past \cup {Revision(pair)}
      /\ past'[Revision(pair)] = pair
      /\ Revision(pair) = integrity.revision + 1
  BY <1>1, RememberGrows DEF GrowsBy
<1>3. Recorded' = pair /\ integrity'.revision = Revision(pair)
  BY DEF Recorded, GrowsBy, Pairs
<1>4. pair.business.schema # Legacy
  BY DEF GrowsBy, Legacy, CurrentSchema
<1>5. \A r \in DOMAIN past' : Consistent(past'[r]) /\ Revision(past'[r]) = r
  BY <1>1, <1>2 DEF PastInv, PastKept, GrowsBy
<1>6. \A r \in DOMAIN past : r \in Nat /\ r <= integrity.revision
  BY <1>1 DEF PastInv, PastTyped
<1>7. \A r, q \in DOMAIN past' : past'[r].business.schema = Legacy => r <= q
  <2> SUFFICES ASSUME NEW r \in DOMAIN past', NEW q \in DOMAIN past', past'[r].business.schema = Legacy
               PROVE  r <= q
    OBVIOUS
  <2>1. r \in DOMAIN past /\ past[r].business.schema = Legacy
    BY <1>1, <1>2, <1>4 DEF PastKept
  <2>2. CASE q \in DOMAIN past
    BY <2>1, <2>2 DEF PastInv
  <2>3. CASE q = Revision(pair)
    BY <1>1, <1>2, <1>6, <2>1, <2>3
  <2>4. QED
    BY <1>2, <2>2, <2>3
<1>8. \A r \in DOMAIN past' : r <= integrity'.revision
  BY <1>1, <1>2, <1>3, <1>6
<1>9. Revision(Recorded)' = integrity'.revision /\ Past(Recorded)'
  <2>1. Revision(Recorded') = Revision(pair) /\ Revision(Recorded') \in DOMAIN past' /\ past'[Revision(Recorded')] = Recorded'
    BY <1>2, <1>3
  <2>2. QED
    BY <1>3, <2>1 DEF Past, Revision
<1>10. QED
  BY <1>5, <1>7, <1>8, <1>9 DEF PastInv, Revision, Consistent

\* Backups are only added, and of the legacy pair that is current.
BackedUp ==
    /\ backups' \in Seq(Pairs) /\ Len(backups) <= Len(backups')
    /\ \A b \in DOMAIN backups : backups'[b] = backups[b]
    /\ \A b \in DOMAIN backups' : b \in DOMAIN backups \/ (backups'[b] = Recorded /\ Recorded.business.schema = Legacy)

LEMMA AppendBacksUp ==
  ASSUME FilesTyped, backups' = Append(backups, Recorded), Recorded.business.schema = Legacy
  PROVE  BackedUp /\ Contains(backups', Recorded)
<1>1. Recorded \in Pairs /\ backups \in Seq(Pairs)
  BY DEF FilesTyped, Recorded, Pairs
<1>2. /\ backups' \in Seq(Pairs) /\ Len(backups') = Len(backups) + 1
      /\ \A b \in 1..Len(backups) : backups'[b] = backups[b]
      /\ backups'[Len(backups) + 1] = Recorded
  BY <1>1
<1>3. QED
  BY <1>1, <1>2 DEF BackedUp, Contains

LEMMA NoneBacksUp ==
  ASSUME FilesTyped, UNCHANGED backups
  PROVE  BackedUp
  BY DEF FilesTyped, BackedUp

LEMMA BackupsKept ==
  ASSUME FilesTyped, BackedUp, NEW pair, Contains(backups, pair)
  PROVE  Contains(backups', pair)
<1>1. PICK b \in DOMAIN backups : backups[b] = pair
  BY DEF FilesTyped, Contains
<1>2. b \in 1..Len(backups') /\ backups'[b] = pair
  BY <1>1 DEF FilesTyped, BackedUp
<1>3. QED
  BY <1>2 DEF Contains

\* Every backup is of a pair that stays remembered.
LEMMA BackupsStayPast ==
  ASSUME TypeInv, PastInv, BackupInv, BackedUp, PastKept
  PROVE  BackupsPast'
<1> SUFFICES ASSUME NEW b \in DOMAIN backups'
             PROVE  /\ backups'[b].business.schema = Legacy
                    /\ Revision(backups'[b]) \in DOMAIN past' /\ past'[Revision(backups'[b])] = backups'[b]
  BY DEF BackupsPast, Past, Revision
<1>1. backups'[b].business.schema = Legacy /\ Past(backups'[b])
  <2>1. CASE b \in DOMAIN backups
    BY <2>1 DEF BackedUp, BackupInv, BackupsPast
  <2>2. CASE b \notin DOMAIN backups
    BY <2>2 DEF BackedUp, PastInv
  <2>3. QED
    BY <2>1, <2>2
<1>2. QED
  BY <1>1 DEF Past, PastKept

\* The backups after a step that makes pair current: the pair it replaces has one.
LEMMA GrowingBackups ==
  ASSUME TypeInv, PastInv, BackupInv, BackedUp, NEW pair, GrowsBy(pair),
         Recorded.business.schema = Legacy => Contains(backups', Recorded)
  PROVE  BackupInv'
<1>1. PastKept /\ PastTyped /\ FilesTyped
  BY GrowingKeeps DEF TypeInv
<1>2. /\ DOMAIN past' = DOMAIN past \cup {Revision(pair)}
      /\ past'[Revision(pair)] = pair /\ pair.business.schema # Legacy
      /\ Revision(pair) = integrity.revision + 1 /\ integrity.revision \in Nat
  BY <1>1, RememberGrows DEF GrowsBy, Legacy, CurrentSchema, FilesTyped
<1>3. ASSUME NEW r \in DOMAIN past', past'[r].business.schema = Legacy, r + 1 \in DOMAIN past'
      PROVE  Contains(backups', past'[r])
  <2>1. r \in DOMAIN past /\ past'[r] = past[r] /\ past[r].business.schema = Legacy /\ r \in Nat
    BY <1>1, <1>2, <1>3 DEF PastKept, PastTyped
  <2>2. CASE r + 1 \in DOMAIN past
    BY <1>1, <2>1, <2>2, BackupsKept DEF BackupInv
  <2>3. CASE r + 1 = Revision(pair)
    <3>1. r = integrity.revision
      BY <1>2, <2>1, <2>3
    <3>2. past[r] = Recorded
      BY <3>1 DEF PastInv, Past
    <3>3. QED
      BY <2>1, <3>2
  <2>4. QED
    BY <1>2, <1>3, <2>2, <2>3
<1>4. QED
  BY <1>1, <1>3, BackupsStayPast DEF BackupInv

\* The backups after a step that changes no past.
LEMMA StayingBackups ==
  ASSUME TypeInv, PastInv, BackupInv, BackedUp, UNCHANGED past
  PROVE  BackupInv'
<1>1. PastKept /\ FilesTyped
  BY DEF PastKept, TypeInv
<1>2. ASSUME NEW r \in DOMAIN past, past[r].business.schema = Legacy, r + 1 \in DOMAIN past
      PROVE  Contains(backups', past[r])
  BY <1>1, <1>2, BackupsKept DEF BackupInv
<1>3. QED
  BY <1>1, <1>2, BackupsStayPast DEF BackupInv

\* Where nothing is prepared, at most the transaction that is added is.
LEMMA AddedPrepared ==
  ASSUME Settled, NEW manifest, NEW p, Added(manifest, p),
         manifest.status = "prepared" => Free' /\ Pending(manifest.before, manifest.after)'
  PROVE  PreparedInv'
<1>1. \A j \in DOMAIN manifests' : j # p => manifests'[j].status # "prepared"
  BY DEF Added, Settled
<1>2. \A j \in DOMAIN manifests' : manifests'[j].status = "prepared" => j = p /\ manifests'[j] = manifest
  BY <1>1 DEF Added
<1>3. QED
  BY <1>2 DEF PreparedInv, Prepared

\* Where nothing is prepared and no transaction is added, nothing is.
LEMMA SettledPrepared ==
  ASSUME Settled, UNCHANGED manifests
  PROVE  PreparedInv'
  BY DEF Settled, PreparedInv, Prepared

----------------------------------------------------------------------------
(* The steps of the lock's holder                                          *)

\* What makes pair the next one.
NextPair(pair) ==
    /\ pair \in Pairs /\ Consistent(pair) /\ pair.business.schema = CurrentSchema
    /\ Revision(pair) = business.revision + 1

LEMMA TransactionTyped ==
  ASSUME FilesTyped, NEW after \in Pairs, NEW status \in {"committed", "prepared", "rolled-back"}
  PROVE  /\ Transaction(after, status) \in Manifests
         /\ Transaction(after, status).before = Pair
         /\ Transaction(after, status).after = after
         /\ Transaction(after, status).status = status
  BY DEF FilesTyped, Transaction, Manifests, Pairs, Pair

LEMMA InstallTyped ==
  ASSUME NEW pair \in Pairs, NEW transaction \in Nat, Install(pair, transaction)
  PROVE  /\ business' \in Documents /\ software' \in Documents
         /\ integrity' \in [revision : Nat, business : Documents, software : Documents, transaction : Nat]
         /\ integrity' = [revision |-> Revision(pair), business |-> pair.business,
                          software |-> pair.software, transaction |-> transaction]
  BY DEF Install, Pairs, Documents, Revision

LEMMA CommitKeepsCore ==
  ASSUME Core, Settled, RawLoadable, NEW after, NextPair(after), Committed(after),
         BackedUp, Pair.business.schema = Legacy => Contains(backups', Pair),
         HolderTyped', UNCHANGED abandoned
  PROVE  Core' /\ GrowsBy(after) /\ PastKept /\ \E p : Added(Transaction(after, "committed"), p)
<1>1. TypeInv /\ PastInv /\ BackupInv /\ FilesTyped /\ PastTyped /\ after \in Pairs
  BY DEF Core, TypeInv, NextPair
<1>2. Pair = Recorded /\ business.revision = integrity.revision
  BY <1>1, LoadedIsRecorded
<1>3. GrowsBy(after) /\ Install(after, Len(manifests) + 1)
  BY <1>1, <1>2 DEF Committed, NextPair, GrowsBy
<1>4. Len(manifests) + 1 \in Nat
  BY <1>1 DEF FilesTyped
<1>5. PICK p : Added(Transaction(after, "committed"), p)
  <2>1. manifests' \in Listed(Transaction(after, "committed")) /\ manifests \in Seq(Manifests)
    BY <1>1 DEF Committed, FilesTyped
  <2>2. Transaction(after, "committed") \in Manifests
    BY <1>1, TransactionTyped
  <2> HIDE DEF Transaction
  <2>3. QED
    BY <2>1, <2>2, ListedAdds
<1>6. FilesTyped'
  BY <1>1, <1>3, <1>4, <1>5, InstallTyped DEF FilesTyped, Added, BackedUp
<1>7. PastTyped'
  BY <1>1, <1>3, RememberGrows DEF PastTyped, GrowsBy
<1>8. PastInv'
  BY <1>1, <1>3, <1>4, InstallTyped, GrowingPast
<1>9. BackupInv'
  BY <1>1, <1>2, <1>3, GrowingBackups
<1>10. PreparedInv'
  <2>1. Transaction(after, "committed").status # "prepared"
    BY <1>1, TransactionTyped
  <2>2. QED
    BY <1>5, <2>1, AddedPrepared
<1>11. PastKept
  BY <1>1, <1>3, GrowingKeeps
<1>12. QED
  BY <1>3, <1>5, <1>6, <1>7, <1>8, <1>9, <1>10, <1>11 DEF Core, TypeInv

\* A step that touches neither the integrity manifest nor the past.
LEMMA SamePast ==
  ASSUME PastTyped, PastInv, UNCHANGED <<integrity, past, abandoned>>
  PROVE  PastTyped' /\ PastInv' /\ PastKept
<1>1. PastTyped' /\ PastKept
  BY DEF PastTyped, PastKept
<1>2. PastInv'
  BY DEF PastInv, Recorded, Past, Consistent, Revision
<1>3. QED
  BY <1>1, <1>2

LEMMA DyingKeepsCore ==
  ASSUME Core, Settled, RawLoadable, NEW after, NextPair(after),
         DiesPrepared(after) \/ DiesUnprepared, BackedUp,
         DiesPrepared(after) /\ Pair.business.schema = Legacy => Contains(backups', Pair),
         Free, UNCHANGED <<holder, abandoned>>
  PROVE  /\ Core' /\ UNCHANGED <<integrity, past>>
         /\ \/ UNCHANGED manifests
            \/ \E p : Added(Transaction(after, "prepared"), p)
<1>1. TypeInv /\ PastInv /\ BackupInv /\ FilesTyped /\ PastTyped /\ after \in Pairs
  BY DEF Core, TypeInv, NextPair
<1>2. Pair = Recorded /\ business.revision = integrity.revision /\ Past(Pair) /\ Revision(Pair) = integrity.revision
  BY <1>1, LoadedIsRecorded
<1>3. UNCHANGED <<integrity, past>>
  BY DEF DiesPrepared, DiesUnprepared
<1>4. PastTyped' /\ PastInv' /\ BackupInv'
  BY <1>1, <1>3, SamePast, StayingBackups
<1>5. HolderTyped'
  BY <1>1 DEF HolderTyped, TypeInv, Free, Restorations
<1>6. CASE DiesUnprepared
  <2>1. UNCHANGED <<business, software, integrity, manifests>>
    BY <1>6 DEF DiesUnprepared
  <2>2. FilesTyped' /\ PreparedInv'
    BY <1>1, <2>1, SettledPrepared DEF FilesTyped, BackedUp
  <2>3. QED
    BY <1>3, <1>4, <1>5, <2>1, <2>2 DEF Core, TypeInv
<1>7. CASE DiesPrepared(after)
  <2>1. PICK p : Added(Transaction(after, "prepared"), p)
    <3>1. manifests' \in Listed(Transaction(after, "prepared")) /\ manifests \in Seq(Manifests)
      BY <1>1, <1>7 DEF DiesPrepared, FilesTyped
    <3>2. Transaction(after, "prepared") \in Manifests
      BY <1>1, TransactionTyped
    <3> HIDE DEF Transaction
    <3>3. QED
      BY <3>1, <3>2, ListedAdds
  <2>2. FilesTyped'
    <3>1. business' \in Documents /\ software' \in Documents
      BY <1>1, <1>7 DEF DiesPrepared, FilesTyped, Pairs
    <3>2. QED
      BY <1>1, <1>3, <2>1, <3>1 DEF FilesTyped, Added, BackedUp
  <2>3. PICK before : before = Pair
    OBVIOUS
  <2>4. Pending(before, after)'
    <3>1. Past(before)' /\ Revision(before) = integrity'.revision
      BY <1>2, <1>3, <2>3 DEF Past, Revision
    <3>2. Consistent(after) /\ Revision(after) = integrity'.revision + 1 /\ after.business.schema = CurrentSchema
      BY <1>2, <1>3 DEF NextPair
    <3>3. before.business.schema = Legacy => Contains(backups', before)
      BY <1>7, <2>3
    <3>4. QED
      BY <3>1, <3>2, <3>3 DEF Pending, Revision, Consistent
  <2>5. PICK manifest : manifest = Transaction(after, "prepared")
    OBVIOUS
  <2>6. Added(manifest, p) /\ manifest.before = before /\ manifest.after = after
    BY <1>1, <2>1, <2>3, <2>5, TransactionTyped
  <2>7. Free'
    BY DEF Free
  <2>8. PreparedInv'
    BY <2>4, <2>6, <2>7, AddedPrepared
  <2>9. QED
    BY <1>3, <1>4, <1>5, <2>1, <2>2, <2>8 DEF Core, TypeInv
<1>8. QED
  BY <1>6, <1>7

\* The documents and the holder change; what is remembered does not.
LEMMA StayingCore ==
  ASSUME Core, UNCHANGED <<integrity, manifests, backups, past, abandoned>>,
         business' \in Documents, software' \in Documents, HolderTyped',
         Settled \/ UNCHANGED holder
  PROVE  Core' /\ PastKept
<1>1. TypeInv /\ PastInv /\ BackupInv /\ FilesTyped /\ PastTyped
  BY DEF Core, TypeInv
<1>2. FilesTyped'
  BY <1>1 DEF FilesTyped
<1>3. PastTyped' /\ PastInv' /\ PastKept
  BY <1>1, SamePast
<1>4. BackupInv'
  BY <1>1, NoneBacksUp, StayingBackups
<1>5. PreparedInv'
  <2>1. CASE Settled
    BY <2>1, SettledPrepared
  <2>2. CASE UNCHANGED holder
    BY <2>2 DEF Core, PreparedInv, Prepared, Pending, Past, Free, Revision, Consistent
  <2>3. QED
    BY <2>1, <2>2
<1>6. QED
  BY <1>2, <1>3, <1>4, <1>5 DEF Core, TypeInv

\* While the lock's holder is at work, no transaction is prepared.
LEMMA BusySettled ==
  ASSUME PreparedInv, ~Free
  PROVE  Settled
  BY DEF PreparedInv, Prepared, Settled

LEMMA HolderSteps ==
  ASSUME HolderTyped
  PROVE  /\ holder.step \in {"business", "software", "integrity"} =>
              holder \in Restorations /\ holder.backup \in DOMAIN backups
         /\ holder.step \in {"write index", "assign index"} =>
              holder \in Indexings /\ holder.pair \in Pairs
         /\ ~Free => holder \in Restorations \cup Indexings
  BY DEF HolderTyped, Restorations, Indexings, Free

LEMMA FreedTyped ==
  ASSUME holder' = [step |-> "free"]
  PROVE  HolderTyped'
<1>1. holder' \in [step : {"free"}]
  OBVIOUS
<1>2. holder' \notin Restorations
  <2>1. \A x \in Restorations : x.step # "free"
    BY DEF Restorations
  <2>2. holder'.step = "free"
    OBVIOUS
  <2>3. QED
    BY <2>1, <2>2
<1>3. QED
  BY <1>1, <1>2 DEF HolderTyped, Restorations, Indexings

WithRecord(document, revision, record) == [document EXCEPT !.revision = revision, !.record = record]
WithSchema(document, revision) == [document EXCEPT !.schema = CurrentSchema, !.revision = revision]

LEMMA NewRecord ==
  ASSUME NEW document \in Documents, NEW revision \in Nat, NEW record \in [version : Nat, text : Texts],
         NEW next, next = WithRecord(document, revision, record)
  PROVE  next \in Documents /\ next.revision = revision /\ next.schema = document.schema
<1> DEFINE step == [document EXCEPT !.revision = revision]
<1>1. step \in Documents /\ step.revision = revision /\ step.schema = document.schema
  BY DEF Documents
<1>2. next = [step EXCEPT !.record = record]
  BY DEF WithRecord
<1> HIDE DEF step
<1>3. next \in Documents /\ next.revision = step.revision /\ next.schema = step.schema
  BY <1>1, <1>2 DEF Documents
<1>4. QED
  BY <1>1, <1>3

LEMMA NewSchema ==
  ASSUME NEW document \in Documents, NEW revision \in Nat,
         NEW next, next = WithSchema(document, revision)
  PROVE  next \in Documents /\ next.revision = revision /\ next.schema = CurrentSchema
<1> DEFINE step == [document EXCEPT !.schema = CurrentSchema]
<1>1. step \in Documents /\ step.schema = CurrentSchema
  BY DEF Documents
<1>2. next = [step EXCEPT !.revision = revision]
  BY DEF WithSchema
<1> HIDE DEF step
<1>3. next \in Documents /\ next.revision = revision /\ next.schema = step.schema
  BY <1>1, <1>2 DEF Documents
<1>4. QED
  BY <1>1, <1>3

\* A mutation makes the next pair.
LEMMA EditedNext ==
  ASSUME FilesTyped, Consistent(Pair), business.schema = CurrentSchema,
         NEW levels \in SUBSET Levels, NEW text \in Texts
  PROVE  NextPair(Edited(levels, text))
<1> DEFINE new(level) == [Pair[level] EXCEPT !.revision = @ + 1,
                                             !.record = IF level \in levels THEN [version |-> @.version + 1, text |-> text] ELSE @]
<1>1. ASSUME NEW level \in Levels
      PROVE  /\ new(level) \in Documents /\ new(level).revision = Pair[level].revision + 1
             /\ new(level).schema = Pair[level].schema
  <2>1. PICK document \in Documents : document = Pair[level]
    BY DEF FilesTyped, Pair, Levels
  <2>2. PICK record : record = IF level \in levels THEN [version |-> document.record.version + 1, text |-> text]
                               ELSE document.record
    OBVIOUS
  <2>3. document.revision + 1 \in Nat /\ record \in [version : Nat, text : Texts]
    BY <2>2 DEF Documents
  <2>4. new(level) = WithRecord(document, document.revision + 1, record)
    BY <2>1, <2>2 DEF WithRecord
  <2> HIDE DEF new
  <2>5. new(level) \in Documents /\ new(level).revision = document.revision + 1 /\ new(level).schema = document.schema
    BY <2>3, <2>4, NewRecord
  <2>6. QED
    BY <2>1, <2>5
<1> HIDE DEF new
<1>2. Edited(levels, text) = [level \in Levels |-> new(level)]
  BY DEF Edited, new
<1>3. /\ Edited(levels, text).business = new("business")
      /\ Edited(levels, text).software = new("software")
      /\ Edited(levels, text) \in Pairs
  <2>1. Edited(levels, text) = [business |-> new("business"), software |-> new("software")]
    BY <1>2 DEF Levels
  <2>2. new("business") \in Documents /\ new("software") \in Documents
    BY <1>1 DEF Levels
  <2>3. QED
    BY <2>1, <2>2 DEF Pairs
<1>4. QED
  BY <1>1, <1>3 DEF NextPair, Consistent, Revision, Levels, Pair, FilesTyped, Documents

LEMMA MigratedNext ==
  ASSUME FilesTyped, Consistent(Pair)
  PROVE  NextPair(Migrated)
<1> DEFINE new(level) == [Pair[level] EXCEPT !.schema = CurrentSchema, !.revision = @ + 1]
<1>1. ASSUME NEW level \in Levels
      PROVE  /\ new(level) \in Documents /\ new(level).revision = Pair[level].revision + 1
             /\ new(level).schema = CurrentSchema
  <2>1. PICK document \in Documents : document = Pair[level]
    BY DEF FilesTyped, Pair, Levels
  <2>2. document.revision + 1 \in Nat
    BY DEF Documents
  <2>3. new(level) = WithSchema(document, document.revision + 1)
    BY <2>1 DEF WithSchema
  <2> HIDE DEF new
  <2>4. new(level) \in Documents /\ new(level).revision = document.revision + 1 /\ new(level).schema = CurrentSchema
    BY <2>2, <2>3, NewSchema
  <2>5. QED
    BY <2>1, <2>4
<1> HIDE DEF new
<1>2. Migrated = [level \in Levels |-> new(level)]
  BY DEF Migrated, new
<1>3. Migrated.business = new("business") /\ Migrated.software = new("software") /\ Migrated \in Pairs
  <2>1. Migrated = [business |-> new("business"), software |-> new("software")]
    BY <1>2 DEF Levels
  <2>2. new("business") \in Documents /\ new("software") \in Documents
    BY <1>1 DEF Levels
  <2>3. QED
    BY <2>1, <2>2 DEF Pairs
<1>4. QED
  BY <1>1, <1>3 DEF NextPair, Consistent, Revision, Levels, Pair, FilesTyped, Documents

\* Only a restoration that undoes revisions forgets any.
Remembers == (abandoned => abandoned') /\ (~abandoned' => PastKept)

LEMMA KeptPast ==
  ASSUME PastKept, NEW pair, Past(pair)
  PROVE  Past(pair)'
  BY DEF PastKept, Past, Revision

LEMMA KeptTraced ==
  ASSUME PastKept, NEW manifest, Traced(manifest)
  PROVE  Traced(manifest)'
  BY KeptPast DEF Traced

\* A transaction was added, and what was current before it is its first half.
LEMMA AddedTraced ==
  ASSUME TraceInv, PastKept, UNCHANGED abandoned,
         NEW manifest, NEW p, Added(manifest, p),
         ~abandoned => Traced(manifest)', Revision(manifest.before) = integrity.revision,
         \A r \in DOMAIN past' : r \in DOMAIN past \/ r = integrity'.revision
  PROVE  TraceInv'
<1> SUFFICES ASSUME ~abandoned PROVE TraceInv'
  BY DEF TraceInv
<1>1. ASSUME NEW j \in DOMAIN manifests' PROVE Traced(manifests[j])'
  <2>1. CASE j = p
    BY <2>1 DEF Added, Traced, Past, Revision
  <2>2. CASE j # p
    <3>1. PICK i \in DOMAIN manifests : manifests'[j] = manifests[i]
      BY <2>2 DEF Added
    <3>2. PICK old : old = manifests[i]
      OBVIOUS
    <3>3. Traced(old)'
      BY <3>2, KeptTraced DEF TraceInv
    <3>4. QED
      BY <3>1, <3>2, <3>3 DEF Traced, Past, Revision
  <2>3. QED
    BY <2>1, <2>2
<1>2. ASSUME NEW r \in DOMAIN past', r # integrity'.revision
      PROVE  \E j \in DOMAIN manifests' : Tells(manifests'[j], r)
  <2>1. r \in DOMAIN past
    BY <1>2
  <2>2. CASE r = integrity.revision
    BY <2>2 DEF Added, Tells
  <2>3. CASE r # integrity.revision
    BY <2>1, <2>3 DEF Added, TraceInv
  <2>4. QED
    BY <2>2, <2>3
<1>3. QED
  BY <1>1, <1>2 DEF TraceInv, Tells, Leads, Revision

LEMMA SameTraced ==
  ASSUME TraceInv, UNCHANGED <<manifests, past, abandoned>>, integrity'.revision = integrity.revision
  PROVE  TraceInv'
  BY DEF TraceInv, Traced, Past, Tells, Leads, Revision

\* A mutation or a migration commits.
LEMMA CommitStep ==
  ASSUME Core, TraceInv, Settled, RawLoadable, NEW after, NextPair(after), Committed(after),
         BackedUp, Pair.business.schema = Legacy => Contains(backups', Pair),
         HolderTyped', UNCHANGED abandoned
  PROVE  Core' /\ TraceInv' /\ Remembers /\ Past(after)'
<1>1. Core' /\ GrowsBy(after) /\ PastKept /\ \E p : Added(Transaction(after, "committed"), p)
  BY CommitKeepsCore
<1>2. TypeInv /\ PastInv /\ FilesTyped /\ PastTyped /\ after \in Pairs
  BY DEF Core, TypeInv, NextPair
<1>3. Past(Pair) /\ Revision(Pair) = integrity.revision
  BY <1>2, LoadedIsRecorded
<1>4. Past(after)'
  BY <1>1, <1>2, RememberGrows DEF GrowsBy, Past, Revision
<1>5. integrity'.revision = Revision(after) /\ DOMAIN past' = DOMAIN past \cup {Revision(after)}
  BY <1>1, <1>2, RememberGrows DEF GrowsBy, Committed, Install
<1>6. TraceInv'
  <2>1. PICK manifest, p : Added(manifest, p) /\ manifest = Transaction(after, "committed")
    BY <1>1
  <2>2. manifest.before = Pair /\ manifest.after = after
    BY <1>2, <2>1, TransactionTyped
  <2>3. Traced(manifest)'
    <3>1. Past(manifest.before)'
      BY <1>1, <1>3, <2>2, KeptPast
    <3>2. QED
      BY <1>4, <2>2, <3>1 DEF Traced
  <2>4. QED
    BY <1>1, <1>3, <1>5, <2>1, <2>2, <2>3, AddedTraced
<1>7. QED
  BY <1>1, <1>4, <1>6 DEF Remembers

\* The process of a mutation or of a migration dies.
LEMMA DyingStep ==
  ASSUME Core, TraceInv, Settled, RawLoadable, NEW after, NextPair(after),
         DiesPrepared(after) \/ DiesUnprepared, BackedUp,
         DiesPrepared(after) /\ Pair.business.schema = Legacy => Contains(backups', Pair),
         Free, UNCHANGED <<holder, abandoned>>
  PROVE  Core' /\ TraceInv' /\ Remembers
<1>1. /\ Core' /\ UNCHANGED <<integrity, past>>
      /\ UNCHANGED manifests \/ \E p : Added(Transaction(after, "prepared"), p)
  BY DyingKeepsCore
<1>2. TypeInv /\ PastInv /\ FilesTyped /\ after \in Pairs
  BY DEF Core, TypeInv, NextPair
<1>3. Past(Pair) /\ Revision(Pair) = integrity.revision
  BY <1>2, LoadedIsRecorded
<1>4. PastKept /\ Remembers
  BY <1>1 DEF PastKept, Remembers
<1>5. CASE UNCHANGED manifests
  BY <1>1, <1>4, <1>5, SameTraced
<1>6. CASE \E p : Added(Transaction(after, "prepared"), p)
  <2>1. PICK manifest, p : Added(manifest, p) /\ manifest = Transaction(after, "prepared")
    BY <1>6
  <2>2. manifest.before = Pair /\ manifest.status = "prepared"
    BY <1>2, <2>1, TransactionTyped
  <2>3. Traced(manifest)'
    <3>1. Past(manifest.before)'
      BY <1>3, <1>4, <2>2, KeptPast
    <3>2. QED
      BY <2>2, <3>1 DEF Traced
  <2>4. TraceInv'
    BY <1>1, <1>3, <1>4, <2>1, <2>2, <2>3, AddedTraced
  <2>5. QED
    BY <1>1, <1>4, <2>4
<1>7. QED
  BY <1>1, <1>5, <1>6

\* A step that leaves the integrity manifest, the transactions and the past alone.
LEMMA QuietStep ==
  ASSUME FilesInv, UNCHANGED <<integrity, manifests, backups, ghosts>>,
         business' \in Documents, software' \in Documents, HolderTyped',
         Settled \/ UNCHANGED holder,
         holder' \in Indexings => holder \in Indexings /\ holder'.pair = holder.pair
  PROVE  FilesInv' /\ Remembers
<1>1. UNCHANGED <<past, abandoned>>
  BY DEF ghosts
<1>2. Core' /\ PastKept
  BY <1>1, StayingCore DEF FilesInv
<1>3. TraceInv'
  BY <1>1, SameTraced DEF FilesInv
<1>4. HolderInv'
  BY <1>1 DEF FilesInv, HolderInv, Past, Revision
<1>5. QED
  BY <1>1, <1>2, <1>3, <1>4 DEF FilesInv, Remembers

LEMMA FreeHolder ==
  ASSUME holder' = [step |-> "free"]
  PROVE  HolderTyped' /\ HolderInv' /\ holder' \notin Indexings
<1>1. holder'.step = "free" /\ \A x \in Indexings : x.step # "free"
  BY DEF Indexings
<1>2. QED
  BY <1>1, FreedTyped DEF HolderInv

LEMMA ExecuteStep ==
  ASSUME FilesInv, NEW process \in {"server", "other"}, Execute(process)
  PROVE  FilesInv' /\ Remembers
<1>1. Free /\ Settled /\ RawLoadable /\ business.schema = CurrentSchema
  BY DEF Execute, Loadable
<1>2. PICK levels \in (SUBSET Levels) \ {{}}, text \in Texts :
        LET after == Edited(levels, text) IN
        \/ /\ Committed(after)
           /\ holder' = [step |-> "write index", process |-> process, pair |-> after]
           /\ UNCHANGED <<server, leftovers, backups, abandoned>>
        \/ /\ DiesPrepared(after) \/ DiesUnprepared
           /\ UNCHANGED <<holder, leftovers, backups, abandoned>>
  BY DEF Execute
<1>3. PICK after : after = Edited(levels, text)
  OBVIOUS
<1>4. Core /\ TraceInv /\ TypeInv /\ FilesTyped /\ PastInv /\ HolderInv
  BY DEF FilesInv, Core, TypeInv
<1>5. NextPair(after)
  BY <1>1, <1>3, <1>4, EditedNext DEF RawLoadable
<1>6. UNCHANGED <<backups, abandoned>> /\ BackedUp /\ Pair.business.schema # Legacy
  BY <1>1, <1>2, <1>4, NoneBacksUp DEF Pair, Legacy, CurrentSchema
<1>7. CASE /\ Committed(after)
           /\ holder' = [step |-> "write index", process |-> process, pair |-> after]
  <2>1. holder' \in Indexings /\ holder' \notin Restorations /\ holder'.pair = after
    <3>1. holder' \in Indexings /\ holder'.pair = after /\ holder'.step = "write index"
      BY <1>5, <1>7 DEF Indexings, NextPair
    <3>2. \A x \in Restorations : x.step # "write index"
      BY DEF Restorations
    <3>3. QED
      BY <3>1, <3>2
  <2>2. HolderTyped'
    BY <2>1 DEF HolderTyped, Restorations, Indexings
  <2>3. Core' /\ TraceInv' /\ Remembers /\ Past(after)'
    BY <1>1, <1>4, <1>5, <1>6, <1>7, <2>2, CommitStep
  <2>4. HolderInv'
    BY <2>1, <2>3 DEF HolderInv, Past, Revision
  <2>5. QED
    BY <2>3, <2>4 DEF FilesInv
<1>8. CASE (DiesPrepared(after) \/ DiesUnprepared) /\ UNCHANGED holder
  <2>1. Core' /\ TraceInv' /\ Remembers
    BY <1>1, <1>4, <1>5, <1>6, <1>8, DyingStep
  <2>2. HolderInv'
    BY <1>1, <1>8 DEF HolderInv, Indexings, Free
  <2>3. QED
    BY <2>1, <2>2 DEF FilesInv
<1>9. QED
  BY <1>2, <1>3, <1>7, <1>8

LEMMA MigrateStep ==
  ASSUME FilesInv, Migrate
  PROVE  FilesInv' /\ Remembers
<1>1. Free /\ Settled /\ RawLoadable /\ business.schema = Legacy /\ UNCHANGED <<holder, abandoned>>
  BY DEF Migrate
<1>2. Core /\ TraceInv /\ TypeInv /\ FilesTyped /\ PastInv /\ HolderInv /\ HolderTyped
  BY DEF FilesInv, Core, TypeInv
<1>3. Pair = Recorded /\ Recorded.business.schema = Legacy
  <2>1. Pair = Recorded
    BY <1>1, <1>2, LoadedIsRecorded
  <2>2. Pair.business.schema = Legacy
    BY <1>1 DEF Pair
  <2>3. QED
    BY <2>1, <2>2
<1>4. PICK after : after = Migrated
  OBVIOUS
<1>5. NextPair(after)
  BY <1>1, <1>2, <1>4, MigratedNext DEF RawLoadable
<1>6. BackedUp
  <2>1. backups' = Append(backups, Pair) \/ UNCHANGED backups
    BY DEF Migrate
  <2>2. QED
    BY <1>2, <1>3, <2>1, AppendBacksUp, NoneBacksUp
<1>7. backups' = Append(backups, Pair) => Contains(backups', Pair)
  BY <1>2, <1>3, AppendBacksUp
<1>8. HolderTyped'
  BY <1>1, <1>2 DEF HolderTyped, Free, Restorations
<1>9. HolderInv'
  BY <1>1 DEF HolderInv, Indexings, Free
<1>10. CASE Committed(after) /\ backups' = Append(backups, Pair)
  BY <1>1, <1>2, <1>5, <1>6, <1>7, <1>8, <1>9, <1>10, CommitStep DEF FilesInv
<1>11. CASE backups' = Append(backups, Pair) /\ (DiesPrepared(after) \/ DiesUnprepared)
  BY <1>1, <1>2, <1>5, <1>6, <1>7, <1>9, <1>11, DyingStep DEF FilesInv
<1>12. CASE UNCHANGED backups /\ DiesUnprepared
  <2>1. business' \in Documents /\ software' \in Documents /\ UNCHANGED <<integrity, manifests, backups, ghosts>>
    BY <1>1, <1>2, <1>12 DEF DiesUnprepared, FilesTyped, ghosts
  <2>2. holder' \notin Indexings
    BY <1>1 DEF Free, Indexings
  <2>3. QED
    BY <1>1, <1>8, <2>1, <2>2, QuietStep
<1>13. QED
  BY <1>4, <1>10, <1>11, <1>12 DEF Migrate

\* The prepared transaction is decided, and no other one changes.
LEMMA Decided ==
  ASSUME FilesTyped, PreparedInv, NEW i \in DOMAIN manifests, Prepared(i),
         NEW status \in {"committed", "rolled-back"},
         manifests' = [manifests EXCEPT ![i].status = status]
  PROVE  /\ manifests' \in Seq(Manifests) /\ DOMAIN manifests' = DOMAIN manifests
         /\ \A j \in DOMAIN manifests : j # i => manifests'[j] = manifests[j]
         /\ manifests'[i].before = manifests[i].before /\ manifests'[i].after = manifests[i].after
         /\ manifests'[i].status = status
         /\ PreparedInv'
<1>1. manifests \in Seq(Manifests) /\ manifests[i] \in Manifests
  BY DEF FilesTyped
<1> DEFINE new == [manifests[i] EXCEPT !.status = status]
<1>2. new \in Manifests /\ new.before = manifests[i].before /\ new.after = manifests[i].after /\ new.status = status
  BY <1>1 DEF Manifests
<1>3. manifests' = [manifests EXCEPT ![i] = new]
  OBVIOUS
<1> HIDE DEF new
<1>4. /\ manifests' \in Seq(Manifests) /\ DOMAIN manifests' = DOMAIN manifests
      /\ \A j \in DOMAIN manifests : j # i => manifests'[j] = manifests[j]
      /\ manifests'[i] = new
  BY <1>1, <1>2, <1>3
<1>5. \A j \in DOMAIN manifests' : manifests'[j].status # "prepared"
  <2> SUFFICES ASSUME NEW j \in DOMAIN manifests' PROVE manifests'[j].status # "prepared"
    OBVIOUS
  <2>1. CASE j = i
    BY <1>2, <1>4, <2>1
  <2>2. CASE j # i
    BY <1>4, <2>2 DEF PreparedInv, Prepared
  <2>3. QED
    BY <2>1, <2>2
<1>6. PreparedInv'
  BY <1>5 DEF PreparedInv, Prepared
<1>7. QED
  BY <1>2, <1>4, <1>6

LEMMA RollForwardStep ==
  ASSUME FilesInv, NEW i \in DOMAIN manifests, Prepared(i), UNCHANGED <<holder, backups, abandoned>>,
         Install(manifests[i].after, manifests[i].id), Remember(manifests[i].after),
         manifests' = [manifests EXCEPT ![i].status = "committed"]
  PROVE  FilesInv' /\ Remembers
<1>1. /\ Core /\ TraceInv /\ TypeInv /\ FilesTyped /\ PastTyped /\ HolderTyped
      /\ PastInv /\ BackupInv /\ PreparedInv
  BY DEF FilesInv, Core, TypeInv
<1>2. PICK before, after, id : before = manifests[i].before /\ after = manifests[i].after /\ id = manifests[i].id
  OBVIOUS
<1>3. before \in Pairs /\ after \in Pairs /\ id \in Nat
  <2>1. manifests[i] \in Manifests
    BY <1>1 DEF FilesTyped
  <2>2. QED
    BY <1>2, <2>1 DEF Manifests
<1>4. Free /\ Pending(before, after)
  BY <1>1, <1>2 DEF PreparedInv
<1>5. GrowsBy(after) /\ Install(after, id)
  BY <1>2, <1>3, <1>4 DEF GrowsBy, Pending
<1>6. before = Recorded
  BY <1>1, <1>4 DEF Pending, PastInv, Past
<1>7. /\ manifests' \in Seq(Manifests) /\ DOMAIN manifests' = DOMAIN manifests
      /\ \A j \in DOMAIN manifests : j # i => manifests'[j] = manifests[j]
      /\ manifests'[i].before = before /\ manifests'[i].after = after
      /\ manifests'[i].status = "committed"
      /\ PreparedInv'
  BY <1>1, <1>2, Decided
<1>8. PastKept /\ Remembers
  BY <1>1, <1>5, GrowingKeeps DEF Remembers
<1>9. FilesTyped' /\ PastInv'
  BY <1>1, <1>3, <1>5, <1>7, InstallTyped, GrowingPast DEF FilesTyped
<1>10. PastTyped'
  BY <1>1, <1>3, <1>5, RememberGrows DEF PastTyped, GrowsBy
<1>11. BackupInv'
  <2>1. BackedUp
    BY <1>1, NoneBacksUp
  <2>2. Recorded.business.schema = Legacy => Contains(backups', Recorded)
    <3>1. Recorded.business.schema = Legacy => Contains(backups, Recorded)
      BY <1>4, <1>6 DEF Pending
    <3>2. QED
      BY <3>1
  <2>3. QED
    BY <1>1, <1>5, <2>1, <2>2, GrowingBackups
<1>12. HolderTyped' /\ HolderInv'
  <2>1. holder' \notin Indexings /\ holder' \notin Restorations
    BY <1>4 DEF Free, Indexings, Restorations
  <2>2. QED
    BY <1>1, <2>1 DEF HolderTyped, HolderInv, Restorations, Indexings
<1>13. /\ DOMAIN past' = DOMAIN past \cup {Revision(after)} /\ past'[Revision(after)] = after
       /\ integrity'.revision = Revision(after)
  <2>1. DOMAIN past' = DOMAIN past \cup {Revision(after)} /\ past'[Revision(after)] = after
    BY <1>1, <1>3, <1>5, RememberGrows DEF GrowsBy
  <2>2. integrity'.revision = Revision(after)
    BY <1>3, <1>5, InstallTyped
  <2>3. QED
    BY <2>1, <2>2
<1>14. TraceInv'
  <2> SUFFICES ASSUME ~abandoned PROVE TraceInv'
    BY DEF TraceInv
  <2>1. ASSUME NEW j \in DOMAIN manifests' PROVE Traced(manifests[j])'
    <3>1. PICK old : old = manifests[j]
      OBVIOUS
    <3>2. Traced(old)'
      BY <1>1, <1>7, <1>8, <3>1, KeptTraced DEF TraceInv
    <3>3. CASE j # i
      BY <1>7, <3>1, <3>2, <3>3 DEF Traced, Past, Revision
    <3>4. CASE j = i
      <4>1. old.before = before
        BY <1>2, <3>1, <3>4
      <4>2. QED
        BY <1>7, <1>13, <3>2, <3>4, <4>1 DEF Traced, Past, Revision
    <3>5. QED
      BY <3>3, <3>4
  <2>2. ASSUME NEW r \in DOMAIN past', r # integrity'.revision
        PROVE  \E j \in DOMAIN manifests' : Tells(manifests'[j], r)
    <3>1. r \in DOMAIN past
      BY <1>13, <2>2
    <3>2. CASE r = integrity.revision
      BY <1>4, <1>7, <3>2 DEF Tells, Pending
    <3>3. CASE r # integrity.revision
      <4>1. PICK j \in DOMAIN manifests : Tells(manifests[j], r)
        BY <1>1, <3>1, <3>3 DEF TraceInv
      <4>2. CASE j # i
        BY <1>7, <4>1, <4>2
      <4>3. CASE j = i
        BY <1>2, <1>7, <4>1, <4>3 DEF Tells, Leads, Prepared
      <4>4. QED
        BY <4>2, <4>3
    <3>4. QED
      BY <3>2, <3>3
  <2>3. QED
    BY <2>1, <2>2 DEF TraceInv, Tells, Leads, Revision
<1>15. QED
  BY <1>7, <1>8, <1>9, <1>10, <1>11, <1>12, <1>14 DEF FilesInv, Core, TypeInv

LEMMA RollBackStep ==
  ASSUME FilesInv, NEW i \in DOMAIN manifests, Prepared(i), UNCHANGED <<holder, backups, past, abandoned>>,
         Install(manifests[i].before, 0),
         manifests' = [manifests EXCEPT ![i].status = "rolled-back"]
  PROVE  FilesInv' /\ Remembers
<1>1. /\ Core /\ TraceInv /\ TypeInv /\ FilesTyped /\ PastTyped /\ HolderTyped
      /\ PastInv /\ BackupInv /\ PreparedInv
  BY DEF FilesInv, Core, TypeInv
<1>2. PICK before, after : before = manifests[i].before /\ after = manifests[i].after
  OBVIOUS
<1>3. before \in Pairs
  <2>1. manifests[i] \in Manifests
    BY <1>1 DEF FilesTyped
  <2>2. QED
    BY <1>2, <2>1 DEF Manifests
<1>4. Free /\ Pending(before, after)
  BY <1>1, <1>2 DEF PreparedInv
<1>5. before = Recorded
  BY <1>1, <1>4 DEF Pending, PastInv, Past
<1>6. /\ manifests' \in Seq(Manifests) /\ DOMAIN manifests' = DOMAIN manifests
      /\ \A j \in DOMAIN manifests : j # i => manifests'[j] = manifests[j]
      /\ manifests'[i].before = before /\ manifests'[i].after = after
      /\ manifests'[i].status = "rolled-back"
      /\ PreparedInv'
  BY <1>1, <1>2, Decided
<1>7. /\ integrity'.revision = integrity.revision
      /\ integrity'.business = integrity.business /\ integrity'.software = integrity.software
      /\ FilesTyped'
  <2>1. Install(before, 0)
    BY <1>2
  <2>2. /\ business' \in Documents /\ software' \in Documents
        /\ integrity' \in [revision : Nat, business : Documents, software : Documents, transaction : Nat]
        /\ integrity' = [revision |-> Revision(before), business |-> before.business,
                         software |-> before.software, transaction |-> 0]
    BY <1>3, <2>1, InstallTyped
  <2>3. Revision(before) = integrity.revision /\ before.business = integrity.business /\ before.software = integrity.software
    BY <1>4, <1>5 DEF Pending, Recorded
  <2>4. QED
    BY <1>1, <1>6, <2>2, <2>3 DEF FilesTyped
<1>8. PastTyped' /\ PastKept /\ Remembers
  BY <1>1 DEF PastTyped, PastKept, Remembers
<1>9. PastInv'
  BY <1>1, <1>7 DEF PastInv, Past, Recorded, Consistent, Revision
<1>10. BackupInv'
  BY <1>1, NoneBacksUp, StayingBackups
<1>11. HolderTyped' /\ HolderInv'
  <2>1. holder' \notin Indexings /\ holder' \notin Restorations
    BY <1>4 DEF Free, Indexings, Restorations
  <2>2. QED
    BY <1>1, <2>1 DEF HolderTyped, HolderInv, Restorations, Indexings
<1>12. TraceInv'
  <2>1. ASSUME ~abandoned, NEW j \in DOMAIN manifests' PROVE Traced(manifests[j])'
    <3>1. Traced(manifests[j])
      BY <1>1, <1>6, <2>1 DEF TraceInv
    <3>2. CASE j # i
      BY <1>6, <3>1, <3>2 DEF Traced, Past, Revision
    <3>3. CASE j = i
      BY <1>2, <1>6, <3>1, <3>3 DEF Traced, Past, Revision
    <3>4. QED
      BY <3>2, <3>3
  <2>2. ASSUME ~abandoned, NEW r \in DOMAIN past, r # integrity.revision
        PROVE  \E j \in DOMAIN manifests' : Tells(manifests'[j], r)
    <3>1. PICK j \in DOMAIN manifests : Tells(manifests[j], r)
      BY <1>1, <2>2 DEF TraceInv
    <3>2. CASE j # i
      BY <1>6, <3>1, <3>2
    <3>3. CASE j = i
      BY <1>2, <1>6, <3>1, <3>3 DEF Tells, Leads, Prepared
    <3>4. QED
      BY <3>2, <3>3
  <2>3. QED
    BY <1>7, <2>1, <2>2 DEF TraceInv, Tells, Leads, Revision
<1>13. QED
  BY <1>6, <1>7, <1>8, <1>9, <1>10, <1>11, <1>12 DEF FilesInv, Core, TypeInv

LEMMA RecoverStep ==
  ASSUME FilesInv, Recover
  PROVE  FilesInv' /\ Remembers
<1>1. PICK i \in DOMAIN manifests :
        /\ Prepared(i)
        /\ \/ /\ Install(manifests[i].after, manifests[i].id)
              /\ manifests' = [manifests EXCEPT ![i].status = "committed"]
              /\ Remember(manifests[i].after)
           \/ /\ Install(manifests[i].before, 0)
              /\ manifests' = [manifests EXCEPT ![i].status = "rolled-back"]
              /\ UNCHANGED past
        /\ UNCHANGED <<backups, holder, abandoned>>
  BY DEF Recover, Prepared
<1>2. QED
  BY <1>1, RollForwardStep, RollBackStep

LEMMA RestoreBeginStep ==
  ASSUME FilesInv, RestoreBegin
  PROVE  FilesInv' /\ Remembers
<1>1. FilesTyped /\ Settled /\ UNCHANGED <<business, software, integrity, manifests, backups, ghosts>>
  BY DEF FilesInv, Core, TypeInv, RestoreBegin, files
<1>2. PICK b \in DOMAIN backups : holder' = [step |-> "business", backup |-> b]
  BY DEF RestoreBegin
<1>3. b \in Nat /\ DOMAIN backups' = DOMAIN backups
  BY <1>1 DEF FilesTyped
<1>4. holder' \in Restorations /\ holder'.backup = b /\ holder'.step = "business"
  BY <1>2, <1>3 DEF Restorations
<1>5. holder' \notin Indexings
  BY <1>4 DEF Indexings
<1>6. HolderTyped'
  BY <1>3, <1>4 DEF HolderTyped, Restorations, Indexings
<1>7. QED
  BY <1>1, <1>5, <1>6, QuietStep DEF FilesTyped

LEMMA RestoreInstallStep ==
  ASSUME FilesInv, NEW level \in Levels, NEW next \in {"software", "integrity"}, RestoreInstall(level, next)
  PROVE  FilesInv' /\ Remembers
<1>1. /\ Core /\ FilesTyped /\ HolderTyped /\ PreparedInv
      /\ UNCHANGED <<integrity, manifests, backups, ghosts>>
  BY DEF FilesInv, Core, TypeInv, RestoreInstall
<1>2. holder \in Restorations /\ holder.backup \in DOMAIN backups /\ holder.step = level
  BY <1>1, HolderSteps DEF RestoreInstall, Levels
<1>3. Settled
  BY <1>1, <1>2, BusySettled DEF Free, Levels
<1>4. backups[holder.backup] \in Pairs
  BY <1>1, <1>2 DEF FilesTyped
<1>5. business' \in Documents /\ software' \in Documents
  BY <1>1, <1>4 DEF RestoreInstall, FilesTyped, Pairs
<1>6. CASE holder' = [step |-> "free"]
  BY <1>1, <1>3, <1>5, <1>6, FreeHolder, QuietStep
<1>7. CASE holder' = [holder EXCEPT !.step = next]
  <2>1. holder' \in Restorations /\ holder'.backup = holder.backup /\ holder'.step = next
    BY <1>2, <1>7 DEF Restorations
  <2>2. HolderTyped'
    BY <1>1, <1>2, <2>1 DEF HolderTyped, Restorations, Indexings
  <2>3. holder' \notin Indexings
    BY <2>1 DEF Indexings
  <2>4. QED
    BY <1>1, <1>3, <1>5, <2>2, <2>3, QuietStep
<1>8. QED
  BY <1>6, <1>7 DEF RestoreInstall

\* What a restoration installs was current before any migration, and is the
\* first of all revisions that are remembered.
LEMMA RestoreIntegrityStep ==
  ASSUME FilesInv, RestoreIntegrity
  PROVE  FilesInv' /\ Remembers
<1>1. /\ Core /\ TypeInv /\ FilesTyped /\ PastTyped /\ HolderTyped /\ TraceInv
      /\ PastInv /\ BackupInv /\ PreparedInv
  BY DEF FilesInv, Core, TypeInv
<1>2. PICK restored : restored = backups[holder.backup]
  OBVIOUS
<1>3. holder \in Restorations /\ holder.backup \in DOMAIN backups
  BY <1>1, HolderSteps DEF RestoreIntegrity
<1>4. restored \in Pairs /\ restored.business.schema = Legacy /\ Past(restored)
  BY <1>1, <1>2, <1>3 DEF FilesTyped, BackupInv, BackupsPast
<1>5. PICK first : first = Revision(restored)
  OBVIOUS
<1>6. first \in DOMAIN past /\ first \in Nat /\ past[first] = restored /\ Consistent(restored)
  BY <1>1, <1>4, <1>5 DEF Past, PastInv, PastTyped
<1>7. \A r \in DOMAIN past : first <= r
  BY <1>1, <1>4, <1>6 DEF PastInv
<1>8. /\ past' = [r \in {r \in DOMAIN past : r <= first} |-> past[r]]
      /\ abandoned' = (abandoned \/ \E r \in DOMAIN past : r > first)
      /\ Install(restored, 0) /\ holder' = [step |-> "free"]
      /\ UNCHANGED <<manifests, backups>>
  BY <1>2, <1>5 DEF RestoreIntegrity
<1>9. {r \in DOMAIN past : r <= first} = {first}
  <2>1. \A r \in DOMAIN past : r \in Nat
    BY <1>1 DEF PastTyped
  <2>2. QED
    BY <1>6, <1>7, <2>1
<1>10. DOMAIN past' = {first} /\ past'[first] = restored
  BY <1>6, <1>8, <1>9
<1>11. /\ FilesTyped'
       /\ integrity'.revision = first
       /\ integrity'.business = restored.business /\ integrity'.software = restored.software
  BY <1>1, <1>4, <1>5, <1>8, InstallTyped DEF FilesTyped
<1>12. Recorded' = restored
  BY <1>4, <1>11 DEF Recorded, Pairs
<1>13. PastTyped'
  <2>1. past' = [r \in {first} |-> past'[r]] /\ past'[first] \in Pairs
    BY <1>4, <1>8, <1>9, <1>10
  <2>2. past' \in [DOMAIN past' -> Pairs]
    BY <1>10, <2>1
  <2>3. abandoned' \in BOOLEAN
    BY <1>1, <1>8 DEF PastTyped
  <2>4. QED
    BY <1>6, <1>10, <2>2, <2>3 DEF PastTyped
<1>14. PastInv'
  BY <1>5, <1>6, <1>10, <1>11, <1>12 DEF PastInv, Past, Revision, Consistent
<1>15. BackupInv'
  <2>1. ASSUME NEW b \in DOMAIN backups PROVE backups[b] = restored
    <3>1. backups[b].business.schema = Legacy /\ Past(backups[b])
      BY <1>1 DEF BackupInv, BackupsPast
    <3>2. PICK r : r = Revision(backups[b])
      OBVIOUS
    <3>3. r \in DOMAIN past /\ past[r] = backups[b] /\ r \in Nat
      BY <1>1, <3>1, <3>2 DEF Past, PastTyped
    <3>4. r <= first /\ first <= r
      BY <1>1, <1>6, <1>7, <3>1, <3>3 DEF PastInv
    <3>5. r = first
      BY <1>6, <3>3, <3>4
    <3>6. QED
      BY <1>6, <3>3, <3>5
  <2>2. BackupsPast'
    BY <1>4, <1>5, <1>8, <1>10, <2>1 DEF BackupsPast, Past, Revision
  <2>3. \A r \in DOMAIN past' : r + 1 \notin DOMAIN past'
    BY <1>6, <1>10
  <2>4. QED
    BY <2>2, <2>3 DEF BackupInv
<1>16. PreparedInv'
  BY <1>1, <1>3, <1>8, BusySettled, SettledPrepared DEF RestoreIntegrity, Free
<1>17. HolderTyped' /\ HolderInv'
  BY <1>8, FreeHolder
<1>18. ASSUME ~abandoned' PROVE ~abandoned /\ PastKept /\ TraceInv'
  <2>1. ~abandoned /\ \A r \in DOMAIN past : ~(r > first)
    BY <1>8, <1>18
  <2>2. \A r \in DOMAIN past : r = first
    <3>1. \A r \in DOMAIN past : r \in Nat
      BY <1>1 DEF PastTyped
    <3>2. QED
      BY <1>6, <1>7, <2>1, <3>1
  <2>3. DOMAIN past = {first} /\ integrity.revision = first
    BY <1>1, <1>6, <2>2 DEF PastInv, Past
  <2>4. PastKept
    BY <1>6, <1>10, <2>3 DEF PastKept
  <2>5. past' = past
    <3>1. past = [r \in {first} |-> past[r]]
      BY <1>1, <2>3 DEF PastTyped
    <3>2. past' = [r \in {first} |-> past[r]]
      BY <1>8, <1>9
    <3>3. QED
      BY <3>1, <3>2
  <2>6. TraceInv'
    <3>1. abandoned = FALSE /\ abandoned' = FALSE
      BY <1>1, <1>13, <1>18, <2>1 DEF PastTyped
    <3>2. UNCHANGED <<manifests, past, abandoned>> /\ integrity'.revision = integrity.revision
      BY <1>8, <1>11, <2>3, <2>5, <3>1
    <3>3. QED
      BY <1>1, <3>2, SameTraced
  <2>7. QED
    BY <2>1, <2>4, <2>6
<1>19. TraceInv' /\ Remembers
  BY <1>8, <1>18 DEF TraceInv, Remembers
<1>20. QED
  BY <1>11, <1>13, <1>14, <1>15, <1>16, <1>17, <1>19 DEF FilesInv, Core, TypeInv

LEMMA HolderDiesStep ==
  ASSUME FilesInv, HolderDies
  PROVE  FilesInv' /\ Remembers
<1>1. FilesTyped /\ PreparedInv /\ UNCHANGED <<business, software, integrity, manifests, backups, ghosts>>
  BY DEF FilesInv, Core, TypeInv, HolderDies
<1>2. Settled /\ holder' = [step |-> "free"]
  BY <1>1, BusySettled DEF HolderDies
<1>3. QED
  BY <1>1, <1>2, FreeHolder, QuietStep DEF FilesTyped

LEMMA IndexCommitStep ==
  ASSUME FilesInv, IndexCommit
  PROVE  FilesInv' /\ Remembers
<1>1. /\ FilesTyped /\ HolderTyped /\ PreparedInv
      /\ UNCHANGED <<business, software, integrity, manifests, backups, ghosts>>
  BY DEF FilesInv, Core, TypeInv, IndexCommit, files
<1>2. holder \in Indexings /\ Settled
  BY <1>1, HolderSteps, BusySettled DEF IndexCommit, Free
<1>3. CASE holder' = [step |-> "free"]
  BY <1>1, <1>2, <1>3, FreeHolder, QuietStep DEF FilesTyped
<1>4. CASE holder' = [holder EXCEPT !.step = "assign index"]
  <2>1. holder' \in Indexings /\ holder'.pair = holder.pair /\ holder'.step = "assign index"
    BY <1>2, <1>4 DEF Indexings
  <2>2. HolderTyped'
    BY <2>1 DEF HolderTyped, Restorations, Indexings
  <2>3. QED
    BY <1>1, <1>2, <2>1, <2>2, QuietStep DEF FilesTyped
<1>5. QED
  BY <1>3, <1>4 DEF IndexCommit

LEMMA AssignCommitStep ==
  ASSUME FilesInv, AssignCommit
  PROVE  FilesInv' /\ Remembers
<1>1. /\ FilesTyped /\ PreparedInv /\ holder' = [step |-> "free"]
      /\ UNCHANGED <<business, software, integrity, manifests, backups, ghosts>>
  BY DEF FilesInv, Core, TypeInv, AssignCommit, files
<1>2. Settled
  BY <1>1, BusySettled DEF AssignCommit, Free
<1>3. QED
  BY <1>1, <1>2, FreeHolder, QuietStep DEF FilesTyped

\* A step of a search, a rebuild, or none.
LEMMA OtherStep ==
  ASSUME FilesInv, UNCHANGED <<files, holder, ghosts>>
  PROVE  FilesInv' /\ Remembers
<1>1. /\ FilesTyped /\ HolderTyped
      /\ UNCHANGED <<business, software, integrity, manifests, backups, ghosts>>
  BY DEF FilesInv, Core, TypeInv, files
<1>2. HolderTyped'
  BY <1>1 DEF HolderTyped
<1>3. QED
  BY <1>1, <1>2, QuietStep DEF FilesTyped

LEMMA SearchSteps ==
  ASSUME NEW s \in Searches,
         Selected(s) \/ Health(s) \/ ReadIndexFile(s) \/ LoadIndex(s)
                     \/ RebuildWrite(s) \/ RebuildAssign(s) \/ QueryIndex(s)
  PROVE  UNCHANGED <<files, holder, ghosts>>
  BY DEF Selected, Health, ReadIndexFile, LoadIndex, RebuildWrite, RebuildAssign, QueryIndex

LEMMA FilesInit ==
  ASSUME Init
  PROVE  FilesInv
<1>1. PICK start \in Starts :
        /\ business = start.pair.business
        /\ software = start.pair.software
        /\ integrity = [revision |-> Revision(start.pair), business |-> start.pair.business,
                        software |-> start.pair.software, transaction |-> 0]
        /\ manifests = <<>> /\ backups = <<>>
        /\ holder = [step |-> "free"]
        /\ past = [r \in {Revision(start.pair)} |-> start.pair]
        /\ abandoned = FALSE
  BY DEF Init
<1>2. PICK pair : pair = start.pair
  OBVIOUS
<1>3. pair \in Pairs /\ Consistent(pair)
  BY <1>2, RevisionsAssumption
<1>4. Revision(pair) \in Nat /\ pair.business \in Documents /\ pair.software \in Documents
  BY <1>3 DEF Pairs, Documents, Revision
<1>5. FilesTyped
  BY <1>1, <1>2, <1>4 DEF FilesTyped
<1>6. DOMAIN past = {Revision(pair)} /\ past[Revision(pair)] = pair
  BY <1>1, <1>2
<1>7. PastTyped
  BY <1>1, <1>2, <1>3, <1>4 DEF PastTyped
<1>8. Recorded = pair /\ integrity.revision = Revision(pair)
  BY <1>1, <1>2, <1>3 DEF Recorded, Pairs
<1>9. PastInv
  BY <1>3, <1>4, <1>6, <1>8 DEF PastInv, Past
<1>10. holder.step = "free" /\ holder \notin Indexings /\ holder \notin Restorations
  BY <1>1 DEF Indexings, Restorations
<1>11. HolderTyped /\ HolderInv
  BY <1>1, <1>10 DEF HolderTyped, HolderInv
<1>12. BackupInv
  <2>1. BackupsPast
    BY <1>1 DEF BackupsPast
  <2>2. \A r \in DOMAIN past : r + 1 \notin DOMAIN past
    BY <1>4, <1>6
  <2>3. QED
    BY <2>1, <2>2 DEF BackupInv
<1>13. PreparedInv
  BY <1>1 DEF PreparedInv
<1>14. TraceInv
  BY <1>1, <1>6, <1>8 DEF TraceInv
<1>15. QED
  BY <1>5, <1>7, <1>9, <1>11, <1>12, <1>13, <1>14 DEF FilesInv, Core, TypeInv

LEMMA FilesNext ==
  ASSUME FilesInv, [Next]_vars
  PROVE  FilesInv' /\ Remembers
<1>1. ASSUME NEW process \in {"server", "other"}, Execute(process) PROVE FilesInv' /\ Remembers
  BY <1>1, ExecuteStep
<1>2. CASE IndexCommit
  BY <1>2, IndexCommitStep
<1>3. CASE AssignCommit
  BY <1>3, AssignCommitStep
<1>4. CASE Recover
  BY <1>4, RecoverStep
<1>5. CASE Migrate
  BY <1>5, MigrateStep
<1>6. CASE RestoreBegin
  BY <1>6, RestoreBeginStep
<1>7. CASE RestoreInstall("business", "software")
  BY <1>7, RestoreInstallStep DEF Levels
<1>8. CASE RestoreInstall("software", "integrity")
  BY <1>8, RestoreInstallStep DEF Levels
<1>9. CASE RestoreIntegrity
  BY <1>9, RestoreIntegrityStep
<1>10. CASE HolderDies
  BY <1>10, HolderDiesStep
<1>11. CASE RebuildDerivedState
  BY <1>11, OtherStep DEF RebuildDerivedState
<1>12. ASSUME NEW s \in Searches,
              Selected(s) \/ Health(s) \/ ReadIndexFile(s) \/ LoadIndex(s)
                          \/ RebuildWrite(s) \/ RebuildAssign(s) \/ QueryIndex(s)
       PROVE  FilesInv' /\ Remembers
  BY <1>12, SearchSteps, OtherStep
<1>13. CASE UNCHANGED vars
  BY <1>13, OtherStep DEF vars
<1>14. QED
  BY <1>1, <1>2, <1>3, <1>4, <1>5, <1>6, <1>7, <1>8, <1>9, <1>10, <1>11, <1>12, <1>13 DEF Next

\* The files and the past keep together, whatever commits, dies, recovers,
\* migrates or is restored.
THEOREM FilesSound == Spec => []FilesInv
<1>1. Init => FilesInv
  BY FilesInit
<1>2. FilesInv /\ [Next]_vars => FilesInv'
  BY FilesNext
<1>3. QED
  BY <1>1, <1>2, PTL DEF Spec

\* Whatever migration is in force has a backup, and what loads was current: for
\* any commits, crashes, damages, migrations and restorations.
THEOREM Reversible == Spec => []MigrationReversible
<1>1. FilesInv => MigrationReversible
  <2> SUFFICES ASSUME FilesInv PROVE MigrationReversible
    OBVIOUS
  <2>1. TypeInv /\ PastInv /\ BackupInv
    BY DEF FilesInv, Core
  <2>2. ASSUME RawLoadable
        PROVE  Pair = past[business.revision] /\ \A r \in DOMAIN past : r <= business.revision
    <3>1. Past(Pair) /\ Revision(Pair) = business.revision /\ business.revision = integrity.revision
      BY <2>1, <2>2, LoadedIsRecorded
    <3>2. QED
      BY <2>1, <3>1 DEF Past, PastInv
  <2>3. QED
    BY <2>1, <2>2 DEF MigrationReversible, BackupInv
<1>2. QED
  BY <1>1, FilesSound, PTL

----------------------------------------------------------------------------
(* The line of the revisions.  Transactions are listed in the order of the *)
(* revisions they lead to, each leads one revision further than it started *)
(* from, every revision but the first was led to by exactly one committed  *)
(* transaction, and none is left out.                                      *)

Sorted == \A i, j \in DOMAIN manifests : i < j => Revision(manifests[i].after) <= Revision(manifests[j].after)
Single == \A i \in DOMAIN manifests : Revision(manifests[i].after) = Revision(manifests[i].before) + 1
Followed ==
    ~abandoned =>
      /\ \A r \in DOMAIN past : r # integrity.revision => r + 1 \in DOMAIN past
      /\ \A r \in DOMAIN past : r - 1 \in DOMAIN past => \E i \in DOMAIN manifests : Leads(manifests[i], r)
      /\ \A i, j \in Committeds : Revision(manifests[i].after) = Revision(manifests[j].after) => i = j
LineInv == Sorted /\ Single /\ Followed

\* A transaction that becomes committed leads to the next revision.
Advance(status, after) ==
    IF status = "committed" THEN GrowsBy(after) /\ integrity'.revision = Revision(after)
    ELSE UNCHANGED past /\ integrity'.revision = integrity.revision

NothingNew ==
    /\ UNCHANGED manifests
    /\ ~abandoned' => ~abandoned /\ UNCHANGED past /\ integrity'.revision = integrity.revision
Starting(manifest, p) ==
    /\ manifest \in Manifests /\ Shifted(manifest, p) /\ UNCHANGED abandoned
    /\ Revision(manifest.after) = Revision(manifest.before) + 1
    /\ Advance(manifest.status, manifest.after)
Deciding(i) ==
    /\ manifests' \in Seq(Manifests) /\ DOMAIN manifests' = DOMAIN manifests /\ UNCHANGED abandoned
    /\ i \in DOMAIN manifests /\ Prepared(i)
    /\ \A j \in DOMAIN manifests : j # i => manifests'[j] = manifests[j]
    /\ manifests'[i].before = manifests[i].before /\ manifests'[i].after = manifests[i].after
    /\ Advance(manifests'[i].status, manifests[i].after)

\* A transaction of the pair that is loaded starts.
LEMMA PairStarts ==
  ASSUME Core, RawLoadable, NEW after, NextPair(after), UNCHANGED abandoned,
         Committed(after) \/ DiesPrepared(after)
  PROVE  \E manifest, p : Starting(manifest, p)
<1>1. TypeInv /\ PastInv /\ FilesTyped /\ PastTyped /\ after \in Pairs
  BY DEF Core, TypeInv, NextPair
<1>2. Revision(Pair) = business.revision /\ business.revision = integrity.revision
  BY <1>1, LoadedIsRecorded
<1>3. ASSUME NEW status \in {"committed", "prepared"}, manifests' \in Listed(Transaction(after, status)),
             Advance(status, after)
      PROVE  \E manifest, p : Starting(manifest, p)
  <2>1. PICK manifest : manifest = Transaction(after, status)
    OBVIOUS
  <2>2. manifest \in Manifests /\ manifest.before = Pair /\ manifest.after = after /\ manifest.status = status
    BY <1>1, <2>1, TransactionTyped
  <2>3. PICK p : Shifted(manifest, p)
    BY <1>1, <1>3, <2>1, <2>2, ListedShifts DEF FilesTyped
  <2>4. Revision(manifest.after) = Revision(manifest.before) + 1
    BY <1>2, <2>2 DEF NextPair
  <2>5. Starting(manifest, p)
    BY <1>3, <2>2, <2>3, <2>4 DEF Starting
  <2>6. QED
    BY <2>5
<1>4. CASE Committed(after)
  <2>1. GrowsBy(after)
    BY <1>2, <1>4 DEF Committed, NextPair, GrowsBy
  <2>2. integrity'.revision = Revision(after)
    BY <1>4 DEF Committed, Install
  <2>3. QED
    BY <1>3, <1>4, <2>1, <2>2 DEF Committed, Advance
<1>5. CASE DiesPrepared(after)
  BY <1>3, <1>5 DEF DiesPrepared, Advance
<1>6. QED
  BY <1>4, <1>5

\* What a step does to the transactions.
LEMMA TransactionSteps ==
  ASSUME FilesInv, [Next]_vars
  PROVE  NothingNew \/ (\E manifest, p : Starting(manifest, p)) \/ \E i : Deciding(i)
<1>1. /\ Core /\ TypeInv /\ FilesTyped /\ PastTyped /\ PastInv /\ PreparedInv
      /\ FilesInv' /\ Remembers /\ PastInv' /\ PastTyped'
  BY FilesNext DEF FilesInv, Core, TypeInv
<1>2. CASE UNCHANGED <<manifests, past, abandoned>> /\ integrity'.revision = integrity.revision
  BY <1>2 DEF NothingNew
<1>3. ASSUME NEW process \in {"server", "other"}, Execute(process)
      PROVE  NothingNew \/ \E manifest, p : Starting(manifest, p)
  <2>1. RawLoadable /\ business.schema = CurrentSchema
    BY <1>3, Zenon DEF Execute, Loadable
  <2>2. PICK levels \in (SUBSET Levels) \ {{}}, text \in Texts :
          LET after == Edited(levels, text) IN
          /\ Committed(after) \/ DiesPrepared(after) \/ DiesUnprepared
          /\ UNCHANGED abandoned
    BY <1>3, Zenon DEF Execute
  <2>3. NextPair(Edited(levels, text))
    BY <1>1, <2>1, EditedNext DEF RawLoadable
  <2>4. CASE DiesUnprepared
    BY <2>2, <2>4 DEF DiesUnprepared, NothingNew
  <2>5. CASE ~DiesUnprepared
    <3>1. PICK after : after = Edited(levels, text)
      OBVIOUS
    <3>2. Committed(after) \/ DiesPrepared(after)
      BY <2>2, <2>5, <3>1
    <3>3. QED
      BY <1>1, <2>1, <2>2, <2>3, <3>1, <3>2, PairStarts
  <2>6. QED
    BY <2>4, <2>5
<1>4. ASSUME Migrate
      PROVE  NothingNew \/ \E manifest, p : Starting(manifest, p)
  <2>1. RawLoadable /\ UNCHANGED abandoned /\ (Committed(Migrated) \/ DiesPrepared(Migrated) \/ DiesUnprepared)
    BY <1>4 DEF Migrate
  <2>2. NextPair(Migrated)
    BY <1>1, <2>1, MigratedNext DEF RawLoadable
  <2>3. CASE DiesUnprepared
    BY <2>1, <2>3 DEF DiesUnprepared, NothingNew
  <2>4. CASE ~DiesUnprepared
    <3>1. PICK after : after = Migrated
      OBVIOUS
    <3>2. Committed(after) \/ DiesPrepared(after)
      BY <2>1, <2>4, <3>1
    <3>3. QED
      BY <1>1, <2>1, <2>2, <3>1, <3>2, PairStarts
  <2>5. QED
    BY <2>3, <2>4
<1>5. ASSUME Recover PROVE \E i : Deciding(i)
  <2>1. PICK i \in DOMAIN manifests :
          /\ Prepared(i)
          /\ \/ /\ Install(manifests[i].after, manifests[i].id)
                /\ manifests' = [manifests EXCEPT ![i].status = "committed"]
                /\ Remember(manifests[i].after)
             \/ /\ Install(manifests[i].before, 0)
                /\ manifests' = [manifests EXCEPT ![i].status = "rolled-back"]
                /\ UNCHANGED past
          /\ UNCHANGED abandoned
    BY <1>5 DEF Recover, Prepared
  <2>2. PICK before, after : before = manifests[i].before /\ after = manifests[i].after
    OBVIOUS
  <2>3. Pending(before, after) /\ after \in Pairs
    <3>1. manifests[i] \in Manifests
      BY <1>1 DEF FilesTyped
    <3>2. QED
      BY <1>1, <2>1, <2>2, <3>1 DEF PreparedInv, Manifests
  <2>4. ASSUME NEW status \in {"committed", "rolled-back"}, manifests' = [manifests EXCEPT ![i].status = status],
               Advance(status, after)
        PROVE  Deciding(i)
    <3>1. /\ manifests' \in Seq(Manifests) /\ DOMAIN manifests' = DOMAIN manifests
          /\ \A j \in DOMAIN manifests : j # i => manifests'[j] = manifests[j]
          /\ manifests'[i].before = manifests[i].before /\ manifests'[i].after = manifests[i].after
          /\ manifests'[i].status = status
      BY <1>1, <2>1, <2>4, Decided
    <3>2. QED
      BY <2>1, <2>2, <2>4, <3>1 DEF Deciding
  <2>5. CASE manifests' = [manifests EXCEPT ![i].status = "committed"] /\ Install(after, manifests[i].id) /\ Remember(after)
    <3>1. Advance("committed", after)
      BY <2>3, <2>5 DEF Advance, GrowsBy, Pending, Install
    <3>2. QED
      BY <2>4, <2>5, <3>1
  <2>6. CASE manifests' = [manifests EXCEPT ![i].status = "rolled-back"] /\ Install(before, 0) /\ UNCHANGED past
    <3>1. Advance("rolled-back", after)
      BY <2>3, <2>6 DEF Advance, Pending, Install
    <3>2. QED
      BY <2>4, <2>6, <3>1
  <2>7. QED
    BY <2>1, <2>2, <2>5, <2>6
<1>6. ASSUME RestoreIntegrity PROVE NothingNew
  <2>1. UNCHANGED manifests /\ DOMAIN past' \subseteq DOMAIN past /\ \A r \in DOMAIN past' : past'[r] = past[r]
    BY <1>6 DEF RestoreIntegrity
  <2>2. ASSUME ~abandoned' PROVE ~abandoned /\ UNCHANGED past /\ integrity'.revision = integrity.revision
    <3>1. ~abandoned /\ PastKept
      BY <1>1, <2>2 DEF Remembers
    <3>2. DOMAIN past' = DOMAIN past
      BY <2>1, <3>1 DEF PastKept
    <3>3. past' = past
      BY <1>1, <2>1, <3>2 DEF PastTyped
    <3>4. /\ integrity.revision \in DOMAIN past /\ integrity'.revision \in DOMAIN past
          /\ integrity'.revision <= integrity.revision /\ integrity.revision <= integrity'.revision
      BY <1>1, <3>2 DEF PastInv, Past
    <3>5. integrity'.revision = integrity.revision
      BY <1>1, <3>4 DEF PastTyped
    <3>6. QED
      BY <3>1, <3>3, <3>5
  <2>3. QED
    BY <2>1, <2>2 DEF NothingNew
<1>7. ASSUME NEW s \in Searches,
             Selected(s) \/ Health(s) \/ ReadIndexFile(s) \/ LoadIndex(s)
                         \/ RebuildWrite(s) \/ RebuildAssign(s) \/ QueryIndex(s)
      PROVE  UNCHANGED <<manifests, past, abandoned, integrity>>
  BY <1>7, SearchSteps DEF files, ghosts
<1>8. ASSUME \/ IndexCommit \/ AssignCommit \/ RestoreBegin \/ HolderDies \/ RebuildDerivedState \/ UNCHANGED vars
           \/ RestoreInstall("business", "software") \/ RestoreInstall("software", "integrity")
      PROVE  UNCHANGED <<manifests, past, abandoned, integrity>>
  <2>1. CASE IndexCommit \/ AssignCommit \/ RestoreBegin \/ HolderDies
    BY <2>1, Zenon DEF IndexCommit, AssignCommit, RestoreBegin, HolderDies, files, ghosts
  <2>2. CASE RebuildDerivedState \/ UNCHANGED vars
    BY <2>2, Zenon DEF RebuildDerivedState, vars, files, ghosts
  <2>3. CASE RestoreInstall("business", "software") \/ RestoreInstall("software", "integrity")
    BY <2>3, Zenon DEF RestoreInstall, ghosts
  <2>4. QED
    BY <1>8, <2>1, <2>2, <2>3
<1>9. QED
  BY <1>2, <1>3, <1>4, <1>5, <1>6, <1>7, <1>8 DEF Next

\* Where the transaction at place j was before one was listed at place p.
Before(j, p) == IF j < p THEN j ELSE j - 1

LEMMA ShiftedPlaces ==
  ASSUME manifests \in Seq(Manifests), NEW manifest, NEW p, Shifted(manifest, p)
  PROVE  /\ p \in DOMAIN manifests' /\ p \in Nat
         /\ \A j \in DOMAIN manifests' : j \in Nat /\ (j # p => /\ Before(j, p) \in DOMAIN manifests
                                                                /\ manifests'[j] = manifests[Before(j, p)])
         /\ \A j, k \in DOMAIN manifests' : (j # p /\ k # p /\ Before(j, p) = Before(k, p)) => j = k
         /\ \A j, k \in DOMAIN manifests' : (j # p /\ k # p /\ j < k) => Before(j, p) < Before(k, p)
         /\ \A i \in DOMAIN manifests : \E j \in DOMAIN manifests' : j # p /\ Before(j, p) = i
<1>1. PICK n \in Nat : n = Len(manifests) /\ DOMAIN manifests = 1..n
  OBVIOUS
<1>2. /\ p \in Nat /\ p \in 1..(n + 1) /\ DOMAIN manifests' = 1..(n + 1)
      /\ \A j \in 1..(p - 1) : manifests'[j] = manifests[j]
      /\ \A j \in (p + 1)..(n + 1) : manifests'[j] = manifests[j - 1]
  BY <1>1 DEF Shifted
<1>3. ASSUME NEW j \in 1..(n + 1), j # p
      PROVE  Before(j, p) \in 1..n /\ manifests'[j] = manifests[Before(j, p)]
  <2>1. CASE j < p
    BY <1>2, <2>1 DEF Before
  <2>2. CASE ~(j < p)
    BY <1>2, <1>3, <2>2 DEF Before
  <2>3. QED
    BY <2>1, <2>2
<1>4. \A j, k \in 1..(n + 1) : (j # p /\ k # p /\ Before(j, p) = Before(k, p)) => j = k
  BY <1>2 DEF Before
<1>5. \A j, k \in 1..(n + 1) : (j # p /\ k # p /\ j < k) => Before(j, p) < Before(k, p)
  BY <1>2 DEF Before
<1>6. ASSUME NEW i \in 1..n PROVE \E j \in 1..(n + 1) : j # p /\ Before(j, p) = i
  <2>1. CASE i < p
    <3>1. i \in 1..(n + 1) /\ i # p
      BY <1>1, <1>2, <2>1
    <3>2. QED
      BY <2>1, <3>1 DEF Before
  <2>2. CASE ~(i < p)
    <3>1. i + 1 \in 1..(n + 1) /\ i + 1 # p /\ ~(i + 1 < p) /\ (i + 1) - 1 = i
      BY <1>1, <1>2, <2>2
    <3>2. QED
      BY <3>1 DEF Before
  <2>3. QED
    BY <2>1, <2>2
<1>7. p \in DOMAIN manifests' /\ p \in Nat /\ \A j \in DOMAIN manifests' : j \in Nat
  BY <1>2
<1> HIDE DEF Before
<1>8. QED
  BY <1>1, <1>2, <1>3, <1>4, <1>5, <1>6, <1>7

\* One transaction is new or newly decided; the committed ones among the others
\* stay what they were.
LEMMA OneMoreFollows ==
  ASSUME FilesInv, Followed, UNCHANGED abandoned,
         NEW q \in DOMAIN manifests', NEW old,
         \A j \in DOMAIN manifests' : j # q => old[j] \in DOMAIN manifests /\ manifests'[j] = manifests[old[j]],
         \A j, k \in DOMAIN manifests' : (j # q /\ k # q /\ old[j] = old[k]) => j = k,
         \A i \in Committeds : \E j \in DOMAIN manifests' : j # q /\ old[j] = i,
         Advance(manifests'[q].status, manifests'[q].after)
  PROVE  Followed'
<1>1. PICK ms, now, rev, new, before : /\ ms = manifests /\ now = manifests' /\ rev = integrity.revision
                                       /\ new = past' /\ before = past
  OBVIOUS
<1>2. TypeInv /\ PastInv /\ PastTyped /\ TraceInv /\ rev \in Nat
  BY <1>1 DEF FilesInv, Core, TypeInv, FilesTyped
<1>3. \A r \in DOMAIN before : r \in Nat /\ r <= rev
  BY <1>1, <1>2 DEF PastInv, PastTyped
<1>4. SUFFICES ASSUME ~abandoned PROVE Followed'
  BY DEF Followed
<1>5. /\ \A r \in DOMAIN before : r # rev => r + 1 \in DOMAIN before
      /\ \A r \in DOMAIN before : r - 1 \in DOMAIN before => \E i \in DOMAIN ms : Leads(ms[i], r)
      /\ \A i, j \in DOMAIN ms : (/\ ms[i].status = "committed" /\ ms[j].status = "committed"
                                  /\ Revision(ms[i].after) = Revision(ms[j].after)) => i = j
  BY <1>1, <1>4 DEF Followed, Committeds
<1>6. /\ \A j \in DOMAIN now : j # q => old[j] \in DOMAIN ms /\ now[j] = ms[old[j]]
      /\ \A j, k \in DOMAIN now : (j # q /\ k # q /\ old[j] = old[k]) => j = k
      /\ \A i \in DOMAIN ms : ms[i].status = "committed" => \E j \in DOMAIN now : j # q /\ old[j] = i
      /\ q \in DOMAIN now
  BY <1>1 DEF Committeds
<1>7. \A i \in DOMAIN ms : ms[i].status = "committed" => Revision(ms[i].after) \in DOMAIN before
  BY <1>1, <1>2, <1>4 DEF TraceInv, Traced, Past
<1>8. ASSUME NEW r, NEW i \in DOMAIN ms, Leads(ms[i], r) PROVE \E j \in DOMAIN now : Leads(now[j], r)
  BY <1>6, <1>8 DEF Leads
<1>9. CASE now[q].status = "committed"
  <2>1. /\ GrowsBy(now[q].after) /\ Revision(now[q].after) = rev + 1 /\ integrity'.revision = rev + 1
    BY <1>1, <1>9 DEF Advance, GrowsBy
  <2>2. DOMAIN new = DOMAIN before \cup {rev + 1}
    BY <1>1, <1>2, <2>1, RememberGrows DEF GrowsBy
  <2>3. \A r \in DOMAIN new : r # rev + 1 => r + 1 \in DOMAIN new
    BY <1>5, <2>2
  <2>4. ASSUME NEW r \in DOMAIN new, r - 1 \in DOMAIN new PROVE \E j \in DOMAIN now : Leads(now[j], r)
    <3>1. CASE r = rev + 1
      BY <1>6, <1>9, <2>1, <3>1 DEF Leads
    <3>2. CASE r # rev + 1
      <4>1. r \in DOMAIN before /\ r - 1 # rev + 1
        BY <1>2, <1>3, <2>2, <3>2
      <4>2. r - 1 \in DOMAIN before
        BY <2>2, <2>4, <4>1
      <4>3. QED
        BY <1>5, <1>8, <4>1, <4>2
    <3>3. QED
      BY <3>1, <3>2
  <2>5. \A j \in DOMAIN now : (j # q /\ now[j].status = "committed") => Revision(now[j].after) # rev + 1
    <3> TAKE j \in DOMAIN now
    <3> HAVE j # q /\ now[j].status = "committed"
    <3>1. Revision(now[j].after) \in DOMAIN before
      BY <1>6, <1>7
    <3>2. QED
      BY <1>2, <1>3, <3>1
  <2>6. \A i, j \in DOMAIN now : (/\ now[i].status = "committed" /\ now[j].status = "committed"
                                  /\ Revision(now[i].after) = Revision(now[j].after)) => i = j
    <3> SUFFICES ASSUME NEW i \in DOMAIN now, NEW j \in DOMAIN now,
                        now[i].status = "committed", now[j].status = "committed",
                        Revision(now[i].after) = Revision(now[j].after)
                 PROVE  i = j
      OBVIOUS
    <3>1. CASE i = q \/ j = q
      BY <2>1, <2>5, <3>1
    <3>2. CASE i # q /\ j # q
      <4>1. old[i] = old[j]
        BY <1>5, <1>6, <3>2
      <4>2. QED
        BY <1>6, <3>2, <4>1
    <3>3. QED
      BY <3>1, <3>2
  <2>7. QED
    BY <1>1, <2>1, <2>3, <2>4, <2>6 DEF Followed, Committeds, Leads, Revision
<1>10. CASE now[q].status # "committed"
  <2>1. new = before /\ integrity'.revision = rev
    BY <1>1, <1>10 DEF Advance
  <2>2. \A i, j \in DOMAIN now : (/\ now[i].status = "committed" /\ now[j].status = "committed"
                                  /\ Revision(now[i].after) = Revision(now[j].after)) => i = j
    <3> SUFFICES ASSUME NEW i \in DOMAIN now, NEW j \in DOMAIN now,
                        now[i].status = "committed", now[j].status = "committed",
                        Revision(now[i].after) = Revision(now[j].after)
                 PROVE  i = j
      OBVIOUS
    <3>1. i # q /\ j # q
      BY <1>10
    <3>2. old[i] = old[j]
      BY <1>5, <1>6, <3>1
    <3>3. QED
      BY <1>6, <3>1, <3>2
  <2>3. \A r \in DOMAIN new : r - 1 \in DOMAIN new => \E j \in DOMAIN now : Leads(now[j], r)
    BY <1>5, <1>8, <2>1
  <2>4. QED
    BY <1>1, <1>5, <2>1, <2>2, <2>3 DEF Followed, Committeds, Leads, Revision
<1>11. QED
  BY <1>9, <1>10

LEMMA StartingStep ==
  ASSUME FilesInv, LineInv, NEW manifest, NEW p, Starting(manifest, p)
  PROVE  LineInv'
<1>1. PICK ms, now : ms = manifests /\ now = manifests'
  OBVIOUS
<1>2. /\ p \in DOMAIN now /\ p \in Nat /\ now[p] = manifest
      /\ \A j \in DOMAIN now : j \in Nat /\ (j # p => Before(j, p) \in DOMAIN ms /\ now[j] = ms[Before(j, p)])
      /\ \A j, k \in DOMAIN now : (j # p /\ k # p /\ Before(j, p) = Before(k, p)) => j = k
      /\ \A j, k \in DOMAIN now : (j # p /\ k # p /\ j < k) => Before(j, p) < Before(k, p)
      /\ \A i \in DOMAIN ms : \E j \in DOMAIN now : j # p /\ Before(j, p) = i
  <2>1. manifests \in Seq(Manifests) /\ Shifted(manifest, p) /\ manifests'[p] = manifest
    BY DEF FilesInv, Core, TypeInv, FilesTyped, Starting, Shifted
  <2>2. QED
    BY <1>1, <2>1, ShiftedPlaces
<1>3. /\ Revision(manifest.after) = Revision(manifest.before) + 1
      /\ \A i \in 1..(p - 1) : Revision(ms[i].after) <= Revision(manifest.after)
      /\ \A i \in p..Len(ms) : Revision(manifest.after) <= Revision(ms[i].after)
      /\ DOMAIN ms = 1..Len(ms) /\ Len(ms) \in Nat
  <2>1. manifest \in Manifests /\ manifests \in Seq(Manifests)
    <3>1. manifests \in Seq(Manifests)
      BY DEF FilesInv, Core, TypeInv, FilesTyped
    <3>2. QED
      BY <3>1 DEF Starting
  <2>2. Revision(manifest.after) \in Nat /\ \A i \in DOMAIN ms : Revision(ms[i].after) \in Nat
    <3>1. ASSUME NEW m \in Manifests PROVE Revision(m.after) \in Nat
      BY DEF Manifests, Pairs, Documents, Revision
    <3>2. \A i \in DOMAIN ms : ms[i] \in Manifests
      BY <1>1, <2>1
    <3>3. QED
      BY <2>1, <3>1, <3>2
  <2>3. DOMAIN ms = 1..Len(ms) /\ Len(ms) \in Nat
    BY <1>1, <2>1
  <2>4. \A i \in p..Len(ms) : Revision(ms[i].after) \in Nat /\ Revision(ms[i].after) >= Revision(manifest.after)
    BY <1>1, <1>2, <2>2, <2>3 DEF Starting, Shifted
  <2>5. QED
    BY <1>1, <2>2, <2>3, <2>4 DEF Starting, Shifted
<1>4. /\ \A i, j \in DOMAIN ms : i < j => Revision(ms[i].after) <= Revision(ms[j].after)
      /\ \A i \in DOMAIN ms : Revision(ms[i].after) = Revision(ms[i].before) + 1
  BY <1>1 DEF LineInv, Sorted, Single
<1>5. \A i, j \in DOMAIN now : i < j => Revision(now[i].after) <= Revision(now[j].after)
  <2> SUFFICES ASSUME NEW i \in DOMAIN now, NEW j \in DOMAIN now, i < j
               PROVE  Revision(now[i].after) <= Revision(now[j].after)
    OBVIOUS
  <2>1. CASE i = p
    <3>1. j - 1 \in p..Len(ms) /\ now[j] = ms[j - 1]
      BY <1>2, <1>3, <2>1 DEF Before
    <3>2. QED
      BY <1>2, <1>3, <2>1, <3>1
  <2>2. CASE j = p
    <3>1. i \in 1..(p - 1) /\ now[i] = ms[i]
      BY <1>2, <1>3, <2>2 DEF Before
    <3>2. QED
      BY <1>2, <1>3, <2>2, <3>1
  <2>3. CASE i # p /\ j # p
    BY <1>2, <1>4, <2>3
  <2>4. QED
    BY <2>1, <2>2, <2>3
<1>6. \A i \in DOMAIN now : Revision(now[i].after) = Revision(now[i].before) + 1
  BY <1>2, <1>3, <1>4
<1>7. Followed'
  <2>1. PICK old : old = [j \in DOMAIN now |-> Before(j, p)]
    OBVIOUS
  <2>2. \A j \in DOMAIN now : old[j] = Before(j, p)
    BY <2>1
  <2>3. \A j \in DOMAIN manifests' : j # p => old[j] \in DOMAIN manifests /\ manifests'[j] = manifests[old[j]]
    BY <1>1, <1>2, <2>2
  <2>4. \A j, k \in DOMAIN manifests' : (j # p /\ k # p /\ old[j] = old[k]) => j = k
    BY <1>1, <1>2, <2>2
  <2>5. \A i \in Committeds : \E j \in DOMAIN manifests' : j # p /\ old[j] = i
    BY <1>1, <1>2, <2>2 DEF Committeds
  <2>6. Advance(manifests'[p].status, manifests'[p].after) /\ UNCHANGED abandoned /\ p \in DOMAIN manifests'
    BY <1>1, <1>2 DEF Starting
  <2>7. QED
    BY <2>3, <2>4, <2>5, <2>6, OneMoreFollows DEF LineInv
<1>8. QED
  BY <1>1, <1>5, <1>6, <1>7 DEF LineInv, Sorted, Single, Revision

LEMMA DecidingStep ==
  ASSUME FilesInv, LineInv, NEW i, Deciding(i)
  PROVE  LineInv'
<1>1. PICK ms, now : ms = manifests /\ now = manifests'
  OBVIOUS
<1>2. /\ DOMAIN now = DOMAIN ms /\ i \in DOMAIN ms /\ ms[i].status = "prepared"
      /\ \A j \in DOMAIN ms : j # i => now[j] = ms[j]
      /\ \A j \in DOMAIN ms : now[j].before = ms[j].before /\ now[j].after = ms[j].after
  BY <1>1 DEF Deciding, Prepared
<1>3. Sorted' /\ Single'
  BY <1>1, <1>2 DEF LineInv, Sorted, Single, Revision
<1>4. Followed'
  <2>1. PICK old : old = [j \in DOMAIN ms |-> j]
    OBVIOUS
  <2>2. \A j \in DOMAIN ms : old[j] = j
    BY <2>1
  <2>3. \A j \in DOMAIN manifests' : j # i => old[j] \in DOMAIN manifests /\ manifests'[j] = manifests[old[j]]
    BY <1>1, <1>2, <2>2
  <2>4. \A j, k \in DOMAIN manifests' : (j # i /\ k # i /\ old[j] = old[k]) => j = k
    BY <1>1, <1>2, <2>2
  <2>5. \A k \in Committeds : \E j \in DOMAIN manifests' : j # i /\ old[j] = k
    BY <1>1, <1>2, <2>2 DEF Committeds
  <2>6. Advance(manifests'[i].status, manifests'[i].after) /\ UNCHANGED abandoned /\ i \in DOMAIN manifests'
    BY <1>1, <1>2 DEF Deciding
  <2>7. QED
    BY <2>3, <2>4, <2>5, <2>6, OneMoreFollows DEF LineInv
<1>5. QED
  BY <1>3, <1>4 DEF LineInv

LEMMA LineStep ==
  ASSUME FilesInv, LineInv, [Next]_vars
  PROVE  LineInv'
<1>1. CASE NothingNew
  <2>1. PICK ms, now : ms = manifests /\ now = manifests' /\ now = ms
    BY <1>1 DEF NothingNew
  <2>2. Sorted' /\ Single'
    BY <1>1 DEF NothingNew, LineInv, Sorted, Single, Revision
  <2>3. Followed'
    BY <1>1 DEF NothingNew, LineInv, Followed, Committeds, Leads, Revision
  <2>4. QED
    BY <2>2, <2>3 DEF LineInv
<1>2. QED
  BY <1>1, TransactionSteps, StartingStep, DecidingStep

LEMMA LineInit ==
  ASSUME Init
  PROVE  LineInv
<1>1. manifests = <<>> /\ DOMAIN manifests = {}
  BY DEF Init
<1>2. PICK r : DOMAIN past = {r} /\ integrity.revision = r /\ r \in Nat
  <2>1. PICK start \in Starts :
          /\ integrity = [revision |-> Revision(start.pair), business |-> start.pair.business,
                          software |-> start.pair.software, transaction |-> 0]
          /\ past = [r \in {Revision(start.pair)} |-> start.pair]
    BY DEF Init
  <2>2. Revision(start.pair) \in Nat
    BY RevisionsAssumption DEF Revision, Pairs, Documents
  <2>3. QED
    BY <2>1, <2>2
<1>3. Followed
  BY <1>1, <1>2 DEF Followed, Committeds
<1>4. QED
  BY <1>1, <1>3 DEF LineInv, Sorted, Single

LEMMA LineHolds == Spec => [](FilesInv /\ LineInv)
<1>1. Init => FilesInv /\ LineInv
  BY FilesInit, LineInit
<1>2. FilesInv /\ LineInv /\ [Next]_vars => (FilesInv /\ LineInv)'
  BY FilesNext, LineStep
<1>3. QED
  BY <1>1, <1>2, PTL DEF Spec

----------------------------------------------------------------------------
(* Numbers in their order                                                  *)

LowerThan(S, x) == {y \in S : y < x}
Rank(S, x) == Cardinality(LowerThan(S, x))

LEMMA RankRises ==
  ASSUME NEW S \in SUBSET Nat, IsFiniteSet(S), NEW x \in S, NEW y \in S, x < y
  PROVE  Rank(S, x) \in Nat /\ Rank(S, y) \in Nat /\ Rank(S, x) < Rank(S, y)
<1>1. LowerThan(S, x) \in SUBSET S /\ LowerThan(S, y) \in SUBSET S
  BY DEF LowerThan
<1>2. LowerThan(S, x) \in SUBSET LowerThan(S, y) /\ x \in LowerThan(S, y) /\ x \notin LowerThan(S, x)
  <2>1. \A z \in S : z \in Nat /\ (z < x => z < y) /\ ~(x < x)
    OBVIOUS
  <2>2. QED
    BY <2>1 DEF LowerThan
<1>3. IsFiniteSet(LowerThan(S, x)) /\ IsFiniteSet(LowerThan(S, y))
  BY <1>1, FS_Subset
<1>4. Cardinality(LowerThan(S, x)) \in Nat /\ Cardinality(LowerThan(S, y)) \in Nat
  BY <1>3, FS_CardinalityType
<1>5. /\ Cardinality(LowerThan(S, x)) <= Cardinality(LowerThan(S, y))
      /\ Cardinality(LowerThan(S, y)) # Cardinality(LowerThan(S, x))
  BY <1>2, <1>3, FS_Subset
<1>6. QED
  BY <1>4, <1>5 DEF Rank

\* Every place is taken, by one member.
LEMMA Ranks ==
  ASSUME NEW S \in SUBSET Nat, IsFiniteSet(S)
  PROVE  /\ Cardinality(S) \in Nat
         /\ \A x \in S : Rank(S, x) \in 0..(Cardinality(S) - 1)
         /\ \A x, y \in S : Rank(S, x) = Rank(S, y) => x = y
         /\ \A k \in 1..Cardinality(S) : \E x \in S : Rank(S, x) = k - 1
<1> DEFINE n == Cardinality(S)
           places == 0..(n - 1)
           rank == [x \in S |-> Rank(S, x)]
<1>1. n \in Nat
  BY FS_CardinalityType
<1>2. ASSUME NEW x \in S PROVE Rank(S, x) \in places
  <2>1. LowerThan(S, x) \in SUBSET S /\ x \notin LowerThan(S, x)
    BY DEF LowerThan
  <2>2. /\ IsFiniteSet(LowerThan(S, x))
        /\ Cardinality(LowerThan(S, x)) <= n /\ Cardinality(LowerThan(S, x)) # n
    BY <2>1, FS_Subset
  <2>3. Cardinality(LowerThan(S, x)) \in Nat
    BY <2>2, FS_CardinalityType
  <2>4. QED
    BY <1>1, <2>2, <2>3 DEF Rank
<1>3. ASSUME NEW x \in S, NEW y \in S, Rank(S, x) = Rank(S, y) PROVE x = y
  <2>1. ~(x < y) /\ ~(y < x)
    BY <1>3, RankRises
  <2>2. QED
    BY <2>1
<1> HIDE DEF n
<1>4. rank \in Injection(S, places)
  <2>1. rank \in [S -> places]
    BY <1>2
  <2>2. \A x, y \in S : rank[x] = rank[y] => x = y
    BY <1>3
  <2> HIDE DEF rank
  <2>3. QED
    BY <2>1, <2>2 DEF Injection, IsInjective
<1>5. IsFiniteSet(places) /\ Cardinality(places) = n
  <2>1. n - 1 \in Int /\ (n = 0 => 0 > n - 1)
    BY <1>1
  <2>2. QED
    BY <1>1, <2>1, FS_Interval
<1>6. rank \in Surjection(S, places)
  BY <1>4, <1>5, FS_Injection DEF n
<1>7. ASSUME NEW k \in 1..n PROVE \E x \in S : Rank(S, x) = k - 1
  <2>1. k - 1 \in places
    BY <1>1
  <2>2. PICK x \in S : rank[x] = k - 1
    BY <1>6, <2>1 DEF Surjection
  <2>3. QED
    BY <2>2
<1>8. QED
  BY <1>1, <1>2, <1>3, <1>7 DEF n

\* InOrder lists the members of a set of numbers, each once, from the least up.
LEMMA Ordered ==
  ASSUME NEW S \in SUBSET Nat, IsFiniteSet(S)
  PROVE  /\ Cardinality(S) \in Nat /\ DOMAIN InOrder(S) = 1..Cardinality(S)
         /\ \A k \in 1..Cardinality(S) : InOrder(S)[k] \in S /\ Rank(S, InOrder(S)[k]) = k - 1
         /\ \A j, k \in 1..Cardinality(S) : j < k => InOrder(S)[j] < InOrder(S)[k]
         /\ \A x \in S : \E k \in 1..Cardinality(S) : InOrder(S)[k] = x
<1> DEFINE n == Cardinality(S)
<1>1. /\ n \in Nat
      /\ \A x \in S : Rank(S, x) \in 0..(n - 1)
      /\ \A x, y \in S : Rank(S, x) = Rank(S, y) => x = y
      /\ \A k \in 1..n : \E x \in S : Rank(S, x) = k - 1
  BY Ranks
<1>2. InOrder(S) = [k \in 1..n |-> CHOOSE x \in S : Rank(S, x) = k - 1]
  BY DEF InOrder, Rank, LowerThan
<1> HIDE DEF n
<1>3. ASSUME NEW k \in 1..n PROVE InOrder(S)[k] \in S /\ Rank(S, InOrder(S)[k]) = k - 1
  BY <1>1, <1>2
<1>4. ASSUME NEW j \in 1..n, NEW k \in 1..n, j < k PROVE InOrder(S)[j] < InOrder(S)[k]
  <2>1. PICK x, y : x = InOrder(S)[j] /\ y = InOrder(S)[k]
    OBVIOUS
  <2>2. x \in S /\ y \in S /\ Rank(S, x) = j - 1 /\ Rank(S, y) = k - 1
    BY <1>3, <2>1
  <2>3. x # y /\ ~(y < x)
    BY <1>1, <1>4, <2>2, RankRises
  <2>4. QED
    BY <2>1, <2>2, <2>3
<1>5. ASSUME NEW x \in S PROVE \E k \in 1..n : InOrder(S)[k] = x
  <2>1. PICK r : r = Rank(S, x)
    OBVIOUS
  <2>2. r + 1 \in 1..n /\ (r + 1) - 1 = r
    BY <1>1, <2>1
  <2>3. InOrder(S)[r + 1] \in S /\ Rank(S, InOrder(S)[r + 1]) = r
    BY <1>3, <2>2
  <2>4. InOrder(S)[r + 1] = x
    BY <1>1, <2>1, <2>3
  <2>5. QED
    BY <2>2, <2>4
<1>6. QED
  BY <1>1, <1>2, <1>3, <1>4, <1>5 DEF n

\* A map that rises and reaches every member keeps the places.
LEMMA OrderKept ==
  ASSUME NEW A \in SUBSET Nat, IsFiniteSet(A), NEW B \in SUBSET Nat,
         NEW f \in [A -> B],
         \A x, y \in A : x < y => f[x] < f[y],
         \A z \in B : \E x \in A : f[x] = z
  PROVE  /\ IsFiniteSet(B) /\ Cardinality(B) = Cardinality(A)
         /\ \A k \in 1..Cardinality(A) : InOrder(B)[k] = f[InOrder(A)[k]]
<1>0. \A x \in A : x \in Nat /\ f[x] \in B /\ f[x] \in Nat
  OBVIOUS
<1>1. \A x, y \in A : f[x] = f[y] => x = y
  <2> SUFFICES ASSUME NEW x \in A, NEW y \in A, f[x] = f[y] PROVE x = y
    OBVIOUS
  <2>1. x \in Nat /\ y \in Nat /\ ~(f[x] < f[y]) /\ ~(f[y] < f[x])
    BY <1>0
  <2>2. ~(x < y) /\ ~(y < x)
    BY <2>1
  <2>3. QED
    BY <2>1, <2>2
<1>2. \A x, y \in A : f[x] < f[y] => x < y
  <2> SUFFICES ASSUME NEW x \in A, NEW y \in A, f[x] < f[y] PROVE x < y
    OBVIOUS
  <2>1. x \in Nat /\ y \in Nat /\ ~(f[y] < f[x]) /\ f[x] # f[y]
    BY <1>0
  <2>2. ~(y < x) /\ x # y
    BY <2>1
  <2>3. QED
    BY <2>1, <2>2
<1>3. f \in Bijection(A, B)
  BY <1>1 DEF Bijection, Injection, Surjection, IsInjective
<1>4. IsFiniteSet(B) /\ Cardinality(B) = Cardinality(A)
  BY <1>3, FS_Bijection DEF ExistsBijection
<1>5. ASSUME NEW x \in A PROVE Rank(B, f[x]) = Rank(A, x)
  <2> DEFINE below == [y \in LowerThan(A, x) |-> f[y]]
  <2>1. below \in [LowerThan(A, x) -> LowerThan(B, f[x])]
    BY DEF LowerThan
  <2>2. \A y, z \in LowerThan(A, x) : below[y] = below[z] => y = z
    BY <1>1 DEF LowerThan
  <2>3. \A z \in LowerThan(B, f[x]) : \E y \in LowerThan(A, x) : below[y] = z
    <3> SUFFICES ASSUME NEW z \in LowerThan(B, f[x]) PROVE \E y \in LowerThan(A, x) : below[y] = z
      OBVIOUS
    <3>1. z \in B /\ z < f[x]
      BY DEF LowerThan
    <3>2. PICK y \in A : f[y] = z
      BY <3>1
    <3>3. y \in LowerThan(A, x)
      BY <1>2, <3>1, <3>2 DEF LowerThan
    <3>4. QED
      BY <3>2, <3>3
  <2> HIDE DEF below
  <2>4. below \in Bijection(LowerThan(A, x), LowerThan(B, f[x]))
    BY <2>1, <2>2, <2>3 DEF Bijection, Injection, Surjection, IsInjective
  <2>5. IsFiniteSet(LowerThan(A, x))
    <3>1. LowerThan(A, x) \in SUBSET A
      BY DEF LowerThan
    <3>2. QED
      BY <3>1, FS_Subset
  <2>6. QED
    BY <2>4, <2>5, FS_Bijection DEF ExistsBijection, Rank
<1>6. ASSUME NEW k \in 1..Cardinality(A) PROVE InOrder(B)[k] = f[InOrder(A)[k]]
  <2>1. PICK x : x = InOrder(A)[k]
    OBVIOUS
  <2>2. x \in A /\ Rank(A, x) = k - 1
    BY <1>6, <2>1, Ordered
  <2>3. f[x] \in B /\ Rank(B, f[x]) = k - 1
    BY <1>5, <2>2
  <2>4. InOrder(B)[k] \in B /\ Rank(B, InOrder(B)[k]) = k - 1
    BY <1>4, <1>6, Ordered
  <2>5. \A y, z \in B : Rank(B, y) = Rank(B, z) => y = z
    BY <1>4, Ranks
  <2>6. InOrder(B)[k] = f[x]
    BY <2>3, <2>4, <2>5
  <2>7. QED
    BY <2>1, <2>6
<1>7. QED
  BY <1>4, <1>6

----------------------------------------------------------------------------
(* Reading back                                                            *)

LEMMA LeastMember ==
  ASSUME NEW S \in SUBSET Nat, S # {}
  PROVE  \E m \in S : \A k \in S : m <= k
<1> DEFINE R == {ss \in Nat \X Nat : ss[1] < ss[2]}
<1>1. IsWellFoundedOn(R, Nat)
  BY NatLessThanWellFounded DEF OpToRel
<1>2. \A k, m \in Nat : k < m => <<k, m>> \in R
  OBVIOUS
<1>3. PICK m \in S : \A k \in S : ~ (<<k, m>> \in R)
  <2> HIDE DEF R
  <2>1. QED
    BY <1>1, WFMin
<1>4. ASSUME NEW k \in S PROVE m <= k
  <2>1. ~(k < m)
    BY <1>2, <1>3
  <2>2. QED
    BY <2>1
<1>5. QED
  BY <1>4

LEMMA MinMember ==
  ASSUME NEW S \in SUBSET Nat, S # {}
  PROVE  Min(S) \in S
<1>1. \E m \in S : \A k \in S : m <= k
  BY LeastMember
<1>2. QED
  BY <1>1, Zenon DEF Min

LEMMA MinLeast ==
  ASSUME NEW S \in SUBSET Nat, NEW m \in S, \A k \in S : m <= k
  PROVE  Min(S) = m
<1>1. Min(S) = CHOOSE x \in S : \A k \in S : x <= k
  BY Zenon DEF Min
<1>2. PICK x : x = Min(S)
  OBVIOUS
<1>3. x \in S /\ \A k \in S : x <= k
  BY <1>1, <1>2
<1>4. x \in Nat /\ m \in Nat /\ x <= m /\ m <= x
  BY <1>3
<1>5. x = m
  BY <1>4
<1>6. QED
  BY <1>2, <1>5

\* The committed transactions are listed in the order of the revisions they led
\* to, and tell of a revision and of the one before it.
LEMMA CommittedsTell ==
  ASSUME FilesInv, LineInv, ~abandoned
  PROVE  /\ IsFiniteSet(Committeds) /\ Committeds \in SUBSET Nat
         /\ \A i \in Committeds :
               /\ Past(manifests[i].after) /\ Revision(manifests[i].after) \in Nat
               /\ Revision(manifests[i].after) - 1 \in DOMAIN past
               /\ past[Revision(manifests[i].after) - 1] = manifests[i].before
         /\ \A i, j \in Committeds : i < j => Revision(manifests[i].after) < Revision(manifests[j].after)
         /\ \A r \in DOMAIN past : r - 1 \in DOMAIN past => \E i \in Committeds : Revision(manifests[i].after) = r
<1>1. manifests \in Seq(Manifests) /\ PastTyped /\ PastInv /\ TraceInv
  BY DEF FilesInv, Core, TypeInv, FilesTyped
<1>2. PICK n \in Nat : DOMAIN manifests = 1..n
  BY <1>1
<1>3. IsFiniteSet(Committeds) /\ Committeds \in SUBSET Nat
  <2>1. IsFiniteSet(1..n) /\ Committeds \in SUBSET (1..n)
    BY <1>2, FS_Interval DEF Committeds
  <2>2. IsFiniteSet(Committeds)
    BY <2>1, FS_Subset
  <2>3. \A i \in 1..n : i \in Nat
    OBVIOUS
  <2>4. QED
    BY <2>1, <2>2, <2>3
<1>4. ASSUME NEW i \in Committeds
      PROVE  /\ Past(manifests[i].after) /\ Revision(manifests[i].after) \in Nat
             /\ Revision(manifests[i].after) - 1 \in DOMAIN past
             /\ past[Revision(manifests[i].after) - 1] = manifests[i].before
  <2>1. PICK manifest : manifest = manifests[i] /\ Traced(manifest) /\ manifest.status = "committed"
    BY <1>1 DEF TraceInv, Committeds
  <2>2. Revision(manifest.after) = Revision(manifest.before) + 1
    BY <2>1 DEF LineInv, Single, Committeds
  <2>3. Past(manifest.after) /\ Past(manifest.before)
    BY <2>1 DEF Traced
  <2>4. Revision(manifest.before) \in Nat /\ Revision(manifest.after) \in Nat
    BY <1>1, <2>3 DEF Past, PastTyped
  <2>5. Revision(manifest.after) - 1 = Revision(manifest.before)
    BY <2>2, <2>4
  <2>6. QED
    BY <2>1, <2>3, <2>4, <2>5 DEF Past
<1>5. ASSUME NEW i \in Committeds, NEW j \in Committeds, i < j
      PROVE  Revision(manifests[i].after) < Revision(manifests[j].after)
  <2>1. Revision(manifests[i].after) <= Revision(manifests[j].after)
    BY <1>5 DEF LineInv, Sorted, Committeds
  <2>2. Revision(manifests[i].after) # Revision(manifests[j].after)
    BY <1>3, <1>5 DEF LineInv, Followed
  <2>3. QED
    BY <1>4, <2>1, <2>2
<1>6. \A r \in DOMAIN past : r - 1 \in DOMAIN past => \E i \in Committeds : Revision(manifests[i].after) = r
  BY DEF LineInv, Followed, Committeds, Leads
<1>7. QED
  BY <1>3, <1>4, <1>5, <1>6

\* There are no gaps: only one revision has none before it.
LEMMA OneFirst ==
  ASSUME FilesInv, LineInv, ~abandoned,
         NEW q \in DOMAIN past, NEW r \in DOMAIN past, q - 1 \notin DOMAIN past, r - 1 \notin DOMAIN past
  PROVE  q = r
<1>1. /\ \A p \in DOMAIN past : p \in Nat /\ p <= integrity.revision /\ integrity.revision \in Nat
      /\ \A p \in DOMAIN past : p # integrity.revision => p + 1 \in DOMAIN past
  BY DEF FilesInv, Core, TypeInv, FilesTyped, PastTyped, PastInv, LineInv, Followed
<1>2. ASSUME NEW x \in DOMAIN past, NEW y \in DOMAIN past, x < y PROVE y - 1 \in DOMAIN past
  <2> DEFINE distances == {d \in Nat : d # 0 /\ y - d \in DOMAIN past}
  <2>1. x \in Nat /\ y \in Nat /\ y <= integrity.revision /\ integrity.revision \in Nat
    BY <1>1
  <2>2. y - x \in distances
    <3>1. y - x \in Nat /\ y - x # 0 /\ y - (y - x) = x
      BY <1>2, <2>1
    <3>2. QED
      BY <3>1
  <2>3. PICK d \in distances : \A e \in distances : d <= e
    <3>1. distances \in SUBSET Nat /\ distances # {}
      BY <2>2
    <3> HIDE DEF distances
    <3>2. QED
      BY <3>1, LeastMember
  <2>4. y - d \in DOMAIN past /\ d \in Nat /\ d # 0
    BY <2>3
  <2>5. (y - d) + 1 \in DOMAIN past
    <3>1. y - d # integrity.revision
      BY <2>1, <2>4
    <3>2. QED
      BY <1>1, <2>4, <3>1
  <2>6. (y - d) + 1 = y - (d - 1) /\ d - 1 \in Nat /\ ~(d <= d - 1)
    BY <2>1, <2>4
  <2>7. d - 1 \notin distances
    BY <2>3, <2>6
  <2>8. d = 1
    BY <2>4, <2>5, <2>6, <2>7
  <2>9. QED
    BY <2>4, <2>8
<1>3. ~(q < r) /\ ~(r < q)
  BY <1>2
<1>4. QED
  BY <1>1, <1>3

LEMMA ConsSequence ==
  ASSUME NEW T, NEW x \in T, NEW n \in Nat, NEW t \in [1..n -> T]
  PROVE  /\ DOMAIN (<<x>> \o t) = 1..(n + 1)
         /\ (<<x>> \o t)[1] = x
         /\ \A k \in 2..(n + 1) : (<<x>> \o t)[k] = t[k - 1]
<1>1. t \in Seq(T) /\ Len(t) = n
  OBVIOUS
<1>2. <<x>> \in Seq(T) /\ Len(<<x>>) = 1 /\ <<x>>[1] = x
  OBVIOUS
<1>3. PICK head : head = <<x>>
  OBVIOUS
<1>4. DOMAIN (head \o t) = 1..(n + 1) /\ (head \o t)[1] = x
  BY <1>1, <1>2, <1>3
<1>5. \A k \in 2..(n + 1) : (head \o t)[k] = t[k - 1]
  BY <1>1, <1>2, <1>3
<1>6. QED
  BY <1>3, <1>4, <1>5

\* The snapshots are what was current, revision after revision, and none is missing.
Telling(rev, n) ==
    /\ n \in Nat /\ rev \in [1..n -> DOMAIN past] /\ DOMAIN Snapshots = 1..n
    /\ \A k \in 1..n : Snapshots[k] = past[rev[k]]
    /\ \A j, k \in 1..n : j < k => rev[j] < rev[k]
    /\ \A r \in DOMAIN past : \E k \in 1..n : rev[k] = r

LEMMA SnapshotsTell ==
  ASSUME FilesInv, LineInv, Readable
  PROVE  \E rev, n : Telling(rev, n)
<1>1. /\ ~abandoned /\ TypeInv /\ PastInv /\ PastTyped /\ TraceInv /\ manifests \in Seq(Manifests)
      /\ Past(Pair) /\ Pair \in Pairs /\ Revision(Pair) = integrity.revision
  BY LoadedIsRecorded DEF FilesInv, Core, TypeInv, FilesTyped, Readable, Loadable
<1>2. CASE manifests = <<>>
  <2>1. PICK pair, r : pair = Pair /\ r = integrity.revision
    OBVIOUS
  <2>2. r \in DOMAIN past /\ past[r] = pair
    BY <1>1, <2>1 DEF Past
  <2>3. \A q \in DOMAIN past : q = r
    BY <1>1, <1>2, <2>1 DEF TraceInv
  <2>4. Snapshots = <<pair>>
    BY <1>2, <2>1 DEF Snapshots
  <2>5. PICK rev : rev = [k \in 1..1 |-> r]
    OBVIOUS
  <2>6. rev \in [1..1 -> DOMAIN past] /\ \A k \in 1..1 : rev[k] = r /\ k = 1
    BY <2>2, <2>5
  <2>7. DOMAIN Snapshots = 1..1 /\ Snapshots[1] = pair
    BY <2>4
  <2>8. Telling(rev, 1)
    BY <2>2, <2>3, <2>6, <2>7 DEF Telling
  <2>9. QED
    BY <2>8
<1>3. CASE manifests # <<>>
  <2>1. 1 \in DOMAIN manifests /\ manifests[1] \in Manifests
    BY <1>1, <1>3
  <2>2. PICK before, b, n, order :
          before = manifests[1].before /\ b = Revision(before) /\ n = Cardinality(Committeds) /\ order = InOrder(Committeds)
    OBVIOUS
  <2>3. b \in DOMAIN past /\ past[b] = before /\ before \in Pairs /\ Revision(manifests[1].after) = b + 1
    BY <1>1, <2>1, <2>2 DEF TraceInv, Traced, Past, LineInv, Single, Manifests
  <2>4. /\ IsFiniteSet(Committeds) /\ Committeds \in SUBSET Nat
        /\ \A i \in Committeds : Past(manifests[i].after) /\ Revision(manifests[i].after) \in Nat
        /\ \A i, j \in Committeds : i < j => Revision(manifests[i].after) < Revision(manifests[j].after)
        /\ \A r \in DOMAIN past : r - 1 \in DOMAIN past => \E i \in Committeds : Revision(manifests[i].after) = r
    BY <1>1, CommittedsTell
  <2>5. /\ n \in Nat
        /\ \A k \in 1..n : order[k] \in Committeds
        /\ \A j, k \in 1..n : j < k => order[j] < order[k]
        /\ \A i \in Committeds : \E k \in 1..n : order[k] = i
    BY <2>2, <2>4, Ordered
  <2>6. \A i \in Committeds : b < Revision(manifests[i].after)
    <3> TAKE i \in Committeds
    <3>1. i \in DOMAIN manifests /\ i \in Nat /\ i >= 1 /\ Revision(manifests[i].after) \in Nat /\ b \in Nat
      BY <1>1, <2>3, <2>4 DEF Committeds, PastTyped
    <3>2. Revision(manifests[1].after) <= Revision(manifests[i].after)
      BY <2>1, <2>3, <3>1 DEF LineInv, Sorted
    <3>3. QED
      BY <2>3, <3>1, <3>2
  <2>7. PICK tail : tail = [k \in 1..n |-> manifests[order[k]].after]
    OBVIOUS
  <2>8. tail \in [1..n -> Pairs] /\ Snapshots = <<before>> \o tail
    <3>1. \A i \in Committeds : manifests[i].after \in Pairs
      <4>1. \A i \in DOMAIN manifests : manifests[i] \in Manifests
        BY <1>1
      <4>2. QED
        BY <4>1 DEF Committeds, Manifests
    <3>2. \A k \in 1..n : manifests[order[k]].after \in Pairs
      BY <2>5, <3>1
    <3>3. QED
      BY <1>3, <2>2, <2>7, <3>2 DEF Snapshots
  <2>9. /\ DOMAIN Snapshots = 1..(n + 1) /\ Snapshots[1] = before
        /\ \A k \in 2..(n + 1) : Snapshots[k] = tail[k - 1]
    BY <2>3, <2>5, <2>8, ConsSequence
  <2>10. PICK rev : rev = [k \in 1..(n + 1) |-> IF k = 1 THEN b ELSE Revision(manifests[order[k - 1]].after)]
    OBVIOUS
  <2>11. /\ rev[1] = b /\ n + 1 \in Nat
         /\ \A k \in 2..(n + 1) : /\ k - 1 \in 1..n /\ order[k - 1] \in Committeds
                                  /\ rev[k] = Revision(manifests[order[k - 1]].after)
                                  /\ tail[k - 1] = manifests[order[k - 1]].after
    <3>1. 1 \in 1..(n + 1) /\ n + 1 \in Nat /\ \A k \in 2..(n + 1) : k - 1 \in 1..n /\ k \in 1..(n + 1) /\ k # 1
      BY <2>5
    <3>2. rev[1] = b /\ \A k \in 2..(n + 1) : rev[k] = Revision(manifests[order[k - 1]].after)
      BY <2>10, <3>1
    <3>3. QED
      BY <2>5, <2>7, <3>1, <3>2
  <2>12. ASSUME NEW k \in 1..(n + 1) PROVE rev[k] \in DOMAIN past /\ Snapshots[k] = past[rev[k]]
    <3>1. CASE k = 1
      BY <2>3, <2>9, <2>11, <3>1
    <3>2. CASE k # 1
      <4>1. k \in 2..(n + 1)
        BY <2>5, <3>2
      <4>2. PICK after : after = manifests[order[k - 1]].after
        OBVIOUS
      <4>3. Past(after) /\ rev[k] = Revision(after) /\ Snapshots[k] = after
        BY <2>4, <2>9, <2>11, <4>1, <4>2
      <4>4. QED
        BY <4>3 DEF Past
    <3>3. QED
      BY <3>1, <3>2
  <2>13. ASSUME NEW j \in 1..(n + 1), NEW k \in 1..(n + 1), j < k PROVE rev[j] < rev[k]
    <3>1. k \in 2..(n + 1) /\ k - 1 \in 1..n
      BY <2>5, <2>13
    <3>2. CASE j = 1
      BY <2>6, <2>11, <3>1, <3>2
    <3>3. CASE j # 1
      <4>1. j \in 2..(n + 1) /\ j - 1 \in 1..n /\ j - 1 < k - 1
        BY <2>5, <2>13, <3>3
      <4>2. order[j - 1] < order[k - 1]
        BY <2>5, <3>1, <4>1
      <4>3. PICK x, y : x = order[j - 1] /\ y = order[k - 1]
        OBVIOUS
      <4>4. x \in Committeds /\ rev[j] = Revision(manifests[x].after)
        BY <2>11, <4>1, <4>3
      <4>5. y \in Committeds /\ rev[k] = Revision(manifests[y].after)
        BY <2>11, <3>1, <4>3
      <4>6. QED
        BY <2>4, <4>2, <4>3, <4>4, <4>5
    <3>4. QED
      BY <3>2, <3>3
  <2>14. ASSUME NEW r \in DOMAIN past PROVE \E k \in 1..(n + 1) : rev[k] = r
    <3>1. CASE r - 1 \in DOMAIN past
      <4>1. PICK i \in Committeds : Revision(manifests[i].after) = r
        BY <2>4, <3>1
      <4>2. PICK k \in 1..n : order[k] = i
        BY <2>5
      <4>3. k + 1 \in 2..(n + 1) /\ (k + 1) - 1 = k /\ k + 1 \in 1..(n + 1)
        BY <2>5
      <4>4. rev[k + 1] = r
        BY <2>11, <4>1, <4>2, <4>3
      <4>5. QED
        BY <4>3, <4>4
    <3>2. CASE r - 1 \notin DOMAIN past
      <4>1. b - 1 \notin DOMAIN past
        <5>1. \A i \in Committeds : Revision(manifests[i].after) \in Nat /\ Revision(manifests[i].after) # b
          BY <1>1, <2>3, <2>4, <2>6 DEF PastTyped
        <5>2. QED
          BY <2>3, <2>4, <5>1
      <4>2. r = b
        BY <1>1, <2>3, <3>2, <4>1, OneFirst
      <4>3. 1 \in 1..(n + 1)
        BY <2>5
      <4>4. QED
        BY <2>11, <4>2, <4>3
    <3>3. QED
      BY <3>1, <3>2
  <2>15. Telling(rev, n + 1)
    <3>1. rev \in [1..(n + 1) -> DOMAIN past]
      BY <2>10, <2>12
    <3>2. QED
      BY <2>9, <2>11, <2>12, <2>13, <2>14, <3>1 DEF Telling
  <2>16. QED
    BY <2>15
<1>4. QED
  BY <1>2, <1>3

\* The first snapshot with a version is that of the first revision with it.
LEMMA VersionsRead ==
  ASSUME FilesInv, LineInv
  PROVE  VersionsReadBack
<1> SUFFICES ASSUME Readable, NEW level \in Levels, NEW v \in 1..(Pair[level].record.version + 1)
             PROVE  ReadVersion(level, v) =
                      IF FirstWith(level, v) = {} THEN NotFound
                      ELSE LET r == Min(FirstWith(level, v)) IN
                           [record |-> past[r][level].record,
                            revision |-> IF past[r].business.schema = Legacy THEN NoRevision ELSE r]
  BY DEF VersionsReadBack
<1>1. PICK rev, n : Telling(rev, n)
  BY SnapshotsTell
<1>2. PICK snapshots, first : snapshots = Snapshots /\ first = FirstWith(level, v)
  OBVIOUS
<1>3. /\ n \in Nat /\ rev \in [1..n -> DOMAIN past] /\ DOMAIN snapshots = 1..n
      /\ \A k \in 1..n : snapshots[k] = past[rev[k]]
      /\ \A j, k \in 1..n : j < k => rev[j] < rev[k]
      /\ \A r \in DOMAIN past : \E k \in 1..n : rev[k] = r
  BY <1>1, <1>2 DEF Telling
<1>4. \A r \in DOMAIN past : r \in Nat /\ Revision(past[r]) = r
  BY DEF FilesInv, Core, TypeInv, PastTyped, PastInv
<1> DEFINE found == {i \in DOMAIN snapshots : snapshots[i][level].record.version = v}
<1>5. ReadVersion(level, v) =
        IF found = {} THEN NotFound
        ELSE [record |-> snapshots[Min(found)][level].record, revision |-> RepositoryRevision(snapshots[Min(found)])]
  BY <1>2 DEF ReadVersion
<1>6. first = {r \in DOMAIN past : past[r][level].record.version = v}
  BY <1>2 DEF FirstWith
<1>7. \A i \in found : i \in 1..n /\ rev[i] \in first
  BY <1>3, <1>6
<1>8. \A r \in first : \E i \in found : rev[i] = r
  BY <1>3, <1>6
<1>9. CASE found = {}
  BY <1>2, <1>5, <1>8, <1>9
<1>10. CASE found # {}
  <2>1. found \in SUBSET Nat
    BY <1>3
  <2> HIDE DEF found
  <2>2. PICK m \in found : \A k \in found : m <= k
    BY <1>10, <2>1, LeastMember
  <2>3. Min(found) = m /\ m \in 1..n
    BY <1>7, <2>1, <2>2, MinLeast
  <2>4. first \in SUBSET Nat /\ rev[m] \in first
    BY <1>4, <1>6, <1>7, <2>2
  <2>5. \A r \in first : rev[m] <= r
    <3> TAKE r \in first
    <3>1. PICK i \in found : rev[i] = r
      BY <1>8
    <3>2. i \in 1..n /\ m \in 1..n /\ m <= i
      BY <1>7, <2>2
    <3>3. CASE m = i
      BY <1>3, <1>4, <3>1, <3>2, <3>3
    <3>4. CASE m # i
      <4>1. m < i
        BY <3>2, <3>4
      <4>2. rev[m] < rev[i]
        BY <1>3, <3>2, <4>1
      <4>3. rev[m] \in Nat /\ rev[i] \in Nat
        BY <1>3, <1>4, <3>2
      <4>4. QED
        BY <3>1, <4>2, <4>3
    <3>5. QED
      BY <3>2, <3>3, <3>4
  <2>6. Min(first) = rev[m] /\ first # {}
    BY <2>4, <2>5, MinLeast
  <2>7. snapshots[m] = past[rev[m]] /\ rev[m] \in DOMAIN past
    BY <1>3, <2>3
  <2>8. QED
    BY <1>2, <1>4, <1>5, <1>10, <2>3, <2>6, <2>7 DEF RepositoryRevision
<1>11. QED
  BY <1>9, <1>10

\* The transactions that changed a record led, in their order, to the revisions
\* that changed it.
LEMMA HistoryRead ==
  ASSUME FilesInv, LineInv
  PROVE  HistoryReadsBack
<1> SUFFICES ASSUME Readable, NEW level \in Levels
             PROVE  History(level) = [k \in DOMAIN Changes(level) |->
                      [revision |-> Changes(level)[k], version |-> past[Changes(level)[k]][level].record.version]]
  BY DEF HistoryReadsBack
<1>1. ~abandoned
  BY DEF Readable
<1>2. /\ IsFiniteSet(Committeds) /\ Committeds \in SUBSET Nat
      /\ \A i \in Committeds :
            /\ Past(manifests[i].after) /\ Revision(manifests[i].after) \in Nat
            /\ Revision(manifests[i].after) - 1 \in DOMAIN past
            /\ past[Revision(manifests[i].after) - 1] = manifests[i].before
      /\ \A i, j \in Committeds : i < j => Revision(manifests[i].after) < Revision(manifests[j].after)
      /\ \A r \in DOMAIN past : r - 1 \in DOMAIN past => \E i \in Committeds : Revision(manifests[i].after) = r
  BY <1>1, CommittedsTell
<1>3. PICK changing, changes, f :
        /\ changing = {i \in Committeds : manifests[i].before[level].record # manifests[i].after[level].record}
        /\ changes = {r \in DOMAIN past : r - 1 \in DOMAIN past /\ past[r - 1][level].record # past[r][level].record}
        /\ f = [i \in changing |-> Revision(manifests[i].after)]
  OBVIOUS
<1>4. IsFiniteSet(changing) /\ changing \in SUBSET Nat /\ changing \in SUBSET Committeds
  <2>1. changing \in SUBSET Committeds
    BY <1>3
  <2>2. QED
    BY <1>2, <2>1, FS_Subset
<1>5. changes \in SUBSET Nat
  BY <1>3 DEF FilesInv, Core, TypeInv, PastTyped
<1>6. ASSUME NEW i \in changing
      PROVE  /\ f[i] = Revision(manifests[i].after) /\ f[i] \in changes
             /\ past[f[i]] = manifests[i].after
  <2>1. f[i] = Revision(manifests[i].after) /\ i \in Committeds
    BY <1>3
  <2>2. past[f[i]] = manifests[i].after /\ f[i] \in DOMAIN past
    BY <1>2, <2>1 DEF Past
  <2>3. f[i] - 1 \in DOMAIN past /\ past[f[i] - 1] = manifests[i].before
    BY <1>2, <2>1
  <2>4. QED
    BY <1>3, <2>1, <2>2, <2>3
<1>7. f \in [changing -> changes]
  BY <1>3, <1>6
<1>8. \A i, j \in changing : i < j => f[i] < f[j]
  BY <1>2, <1>4, <1>6
<1>9. \A r \in changes : \E i \in changing : f[i] = r
  <2> TAKE r \in changes
  <2>1. r \in DOMAIN past /\ r - 1 \in DOMAIN past /\ past[r - 1][level].record # past[r][level].record
    BY <1>3
  <2>2. PICK i \in Committeds : Revision(manifests[i].after) = r
    BY <1>2, <2>1
  <2>3. past[r] = manifests[i].after /\ past[r - 1] = manifests[i].before
    BY <1>2, <2>2 DEF Past
  <2>4. i \in changing
    BY <1>3, <2>1, <2>3
  <2>5. QED
    BY <1>6, <2>2, <2>4
<1>10. /\ IsFiniteSet(changes) /\ Cardinality(changes) = Cardinality(changing)
       /\ \A k \in 1..Cardinality(changing) : InOrder(changes)[k] = f[InOrder(changing)[k]]
  BY <1>4, <1>5, <1>7, <1>8, <1>9, OrderKept
<1>11. PICK n, from, to : n = Cardinality(changing) /\ from = InOrder(changing) /\ to = InOrder(changes)
  OBVIOUS
<1>12. /\ DOMAIN from = 1..n /\ DOMAIN to = 1..n
       /\ \A k \in 1..n : from[k] \in changing /\ to[k] = f[from[k]]
  BY <1>4, <1>5, <1>10, <1>11, Ordered
<1>13. Changes(level) = to
  BY <1>3, <1>11 DEF Changes
<1>14. History(level) = [k \in DOMAIN from |-> [revision |-> Revision(manifests[from[k]].after),
                                                 version |-> manifests[from[k]].after[level].record.version]]
  BY <1>3, <1>11 DEF History
<1>15. \A k \in 1..n : Revision(manifests[from[k]].after) = to[k] /\ manifests[from[k]].after = past[to[k]]
  BY <1>6, <1>12
<1>16. QED
  BY <1>12, <1>13, <1>14, <1>15

\* A transaction tells a revision only as it was.
LEMMA ToldAsItWas ==
  ASSUME TraceInv, ~abandoned, NEW i \in DOMAIN manifests, NEW r, Tells(manifests[i], r)
  PROVE  /\ r \in DOMAIN past
         /\ past[r] = IF Leads(manifests[i], r) THEN manifests[i].after ELSE manifests[i].before
<1>1. Traced(manifests[i])
  BY DEF TraceInv
<1>2. CASE Leads(manifests[i], r)
  BY <1>1, <1>2 DEF Traced, Leads, Past
<1>3. CASE ~Leads(manifests[i], r)
  BY <1>1, <1>3 DEF Traced, Tells, Past
<1>4. QED
  BY <1>2, <1>3

LEMMA RevisionsRead ==
  ASSUME FilesInv
  PROVE  RevisionsReadBack
<1> SUFFICES ASSUME Readable, NEW r \in 0..(business.revision + 1)
             PROVE  ReadRevision(r) = IF r \in DOMAIN past THEN past[r] ELSE NotFound
  BY DEF RevisionsReadBack
<1>1. TypeInv /\ FilesTyped /\ PastInv /\ TraceInv /\ ~abandoned
  BY DEF FilesInv, Core, TypeInv, Readable
<1>2. Past(Pair) /\ Revision(Pair) = business.revision /\ business.revision = integrity.revision
  BY <1>1, LoadedIsRecorded DEF Readable, Loadable
<1> DEFINE found == {i \in DOMAIN manifests : Leads(manifests[i], r) \/ Revision(manifests[i].before) = r}
<1>3. CASE business.revision = r
  BY <1>2, <1>3 DEF ReadRevision, Past
<1>4. CASE business.revision # r /\ found = {}
  <2>1. r \notin DOMAIN past
    BY <1>1, <1>2, <1>4 DEF TraceInv, Tells
  <2>2. ReadRevision(r) = NotFound
    BY <1>4 DEF ReadRevision
  <2>3. QED
    BY <2>1, <2>2
<1>5. CASE business.revision # r /\ found # {}
  <2>1. found \in SUBSET Nat
    BY <1>1 DEF FilesTyped
  <2>2. PICK i : i = Min(found)
    OBVIOUS
  <2>3. i \in found
    BY <1>5, <2>1, <2>2, MinMember
  <2>4. ReadRevision(r) = IF Leads(manifests[i], r) THEN manifests[i].after ELSE manifests[i].before
    BY <1>5, <2>2 DEF ReadRevision
  <2>5. i \in DOMAIN manifests /\ Tells(manifests[i], r)
    BY <2>3 DEF Tells
  <2>6. QED
    BY <1>1, <2>4, <2>5, ToldAsItWas
<1>6. QED
  BY <1>3, <1>4, <1>5

\* What is read back from the transactions is what was: every revision, every
\* version of a record and the history of its changes, whichever transactions
\* were rolled forward or back and in any order of their names - but for the
\* number of a legacy revision, which a version read back does not carry.
THEOREM HistoryTold == Spec => []HistoryIsTrue
<1>1. FilesInv /\ LineInv => HistoryIsTrue
  BY RevisionsRead, VersionsRead, HistoryRead DEF HistoryIsTrue
<1>2. QED
  BY <1>1, LineHolds, PTL

----------------------------------------------------------------------------
(* The search                                                              *)

Overtake(search) == IF search.step = "query" THEN [search EXCEPT !.quiet = FALSE] ELSE search

LEMMA OvertakeTyped ==
  ASSUME NEW search \in States
  PROVE  /\ Overtake(search) \in States
         /\ Overtake(search).step = search.step /\ Overtake(search).pair = search.pair
         /\ Overtake(search).seen = search.seen /\ Overtake(search).hits = search.hits
         /\ Overtake(search).status = search.status
         /\ search.step = "query" => ~Overtake(search).quiet
         /\ search.step # "query" => Overtake(search) = search
  BY DEF Overtake, States

\* Whatever the new index is, the searches it overtakes rely on it no more.
LEMMA OvertakeTrue ==
  ASSUME NEW search \in States, NEW ix, NEW other, SearchTrue(search, ix)
  PROVE  SearchTrue(Overtake(search), other)
<1>1. CASE search.step = "query"
  BY <1>1, OvertakeTyped DEF SearchTrue
<1>2. CASE search.step # "query"
  BY <1>2, OvertakeTyped DEF SearchTrue
<1>3. QED
  BY <1>1, <1>2

LEMMA OvertakenIs ==
  ASSUME NEW other
  PROVE  /\ Overtaken(other) = [s \in Searches |-> IF s # other THEN Overtake(searches[s]) ELSE searches[s]]
  BY DEF Overtaken, Overtake

LEMMA BuiltTyped ==
  ASSUME NEW pair \in Pairs
  PROVE  BuildSearchIndex(pair) \in Indexes /\ BuildSearchIndex(pair).revision = Revision(pair)
<1>1. \A level \in Levels : pair[level] \in Documents
  BY DEF Levels, Pairs
<1>2. \A level \in Levels : pair[level].record.text \in Texts \cup {""}
  BY <1>1 DEF Documents
<1>3. Revision(pair) \in Int
  BY DEF Revision, Pairs, Documents
<1>4. QED
  BY <1>2, <1>3 DEF BuildSearchIndex, Indexes

LEMMA BuiltSays ==
  ASSUME NEW pair \in Pairs, Past(pair)
  PROVE  SaysWhatWas(BuildSearchIndex(pair))
  BY BuiltTyped DEF SaysWhatWas, Past

\* An index of the revision of a snapshot is the index of the snapshot.
LEMMA SaysSame ==
  ASSUME NEW pair \in Pairs, Past(pair), NEW built, SaysWhatWas(built), built.revision = Revision(pair)
  PROVE  built = BuildSearchIndex(pair)
<1>1. Revision(pair) \in Nat
  BY DEF Revision, Pairs, Documents
<1>2. built # NoIndex
  <2>1. NoIndex.revision = -1
    BY DEF NoIndex
  <2>2. \A n \in Nat : n # -1
    OBVIOUS
  <2>3. QED
    BY <1>1, <2>1, <2>2
<1>3. QED
  BY <1>2 DEF SaysWhatWas, Past

LEMMA KeptSays ==
  ASSUME PastKept, NEW built, SaysWhatWas(built)
  PROVE  SaysWhatWas(built)'
  BY DEF SaysWhatWas, PastKept, BuildSearchIndex, NoIndex, Revision

LEMMA KeptTrue ==
  ASSUME PastKept, NEW search, NEW ix, SearchTrue(search, ix)
  PROVE  SearchTrue(search, ix)'
<1>1. SaysWhatWas(search.seen)'
  BY KeptSays DEF SearchTrue
<1>2. search.step # "idle" => Past(search.pair)'
  BY KeptPast DEF SearchTrue
<1>3. QED
  BY <1>1, <1>2 DEF SearchTrue, SearchIndex, BuildSearchIndex, NoIndex, Revision

LEMMA NoIndexTyped == NoIndex \in Indexes
  BY DEF NoIndex, Indexes

\* What the server knew before a step is still true after it.
LEMMA Recalled ==
  ASSUME SearchInv, Remembers, ~abandoned'
  PROVE  /\ PastKept /\ SaysWhatWas(index.current) /\ SaysWhatWas(indexFile)
         /\ \A s \in Searches : SearchTrue(searches[s], index)
  BY DEF SearchInv, Remembers

\* One search changes, the others do not; the index in memory and its file may.
LEMMA OneSearch ==
  ASSUME ServerInv, Remembers, NEW s \in Searches,
         NEW ix, ix = index', NEW file, file = indexFile', NEW new, new = searches'[s],
         ix \in [current : Indexes, stale : BOOLEAN], file \in Indexes,
         searches' \in [Searches -> States], new.step # "idle" => new.pair \in Pairs,
         \A t \in Searches : t # s => \/ searches'[t] = Overtake(searches[t])
                                      \/ searches'[t] = searches[t] /\ (ix = index \/ ix.stale),
         ~abandoned /\ SearchInv => SaysWhatWas(ix.current) /\ SaysWhatWas(file) /\ SearchTrue(new, ix)
  PROVE  ServerInv'
<1>1. ServerTyped /\ SearchInv
  BY DEF ServerInv
<1>2. ServerTyped'
  <2>1. ASSUME NEW t \in Searches, searches'[t].step # "idle" PROVE searches'[t].pair \in Pairs
    <3>1. CASE t = s
      BY <2>1, <3>1
    <3>2. CASE t # s
      BY <1>1, <2>1, <3>2, OvertakeTyped DEF ServerTyped
    <3>3. QED
      BY <3>1, <3>2
  <2>2. QED
    BY <2>1 DEF ServerTyped
<1>3. ASSUME ~abandoned' PROVE SearchInv'
  <2>1. PastKept /\ ~abandoned
    BY <1>3 DEF Remembers
  <2>2. SaysWhatWas(ix.current)' /\ SaysWhatWas(file)' /\ SearchTrue(new, ix)'
    BY <1>1, <2>1, KeptSays, KeptTrue
  <2>3. ASSUME NEW t \in Searches, t # s PROVE SearchTrue(searches[t], index)'
    <3>1. PICK old, oldIndex : old = searches[t] /\ oldIndex = index
      OBVIOUS
    <3>2. SearchTrue(old, oldIndex) /\ old \in States
      BY <1>1, <2>1, <3>1 DEF SearchInv, ServerTyped
    <3>3. PICK then : then = searches'[t]
      OBVIOUS
    <3>4. SearchTrue(then, ix)
      <4>1. CASE then = Overtake(old)
        BY <3>2, <4>1, OvertakeTrue
      <4>2. CASE then = old /\ (ix = oldIndex \/ ix.stale)
        BY <3>2, <4>2 DEF SearchTrue
      <4>3. QED
        BY <2>3, <3>1, <3>3, <4>1, <4>2
    <3>5. SearchTrue(then, ix)'
      BY <2>1, <3>4, KeptTrue
    <3>6. QED
      BY <3>3, <3>5 DEF SearchTrue, SaysWhatWas, Past, SearchIndex, BuildSearchIndex, NoIndex, Revision
  <2>4. SearchTrue(searches[s], index)'
    BY <2>2 DEF SearchTrue, SaysWhatWas, Past, SearchIndex, BuildSearchIndex, NoIndex, Revision
  <2>5. SaysWhatWas(index.current)' /\ SaysWhatWas(indexFile)'
    BY <2>2 DEF SaysWhatWas, BuildSearchIndex, NoIndex, Revision
  <2>6. QED
    BY <2>3, <2>4, <2>5 DEF SearchInv
<1>4. SearchInv'
  BY <1>3 DEF SearchInv
<1>5. QED
  BY <1>2, <1>4 DEF ServerInv

\* What a search may rely on.
LEMMA SearchKnown ==
  ASSUME ServerInv, NEW s \in Searches, NEW search, search = searches[s], NEW ix, ix = index
  PROVE  /\ search \in States /\ ix \in [current : Indexes, stale : BOOLEAN] /\ indexFile \in Indexes
         /\ search.step # "idle" => search.pair \in Pairs
         /\ ~abandoned => /\ SaysWhatWas(ix.current) /\ SaysWhatWas(indexFile)
                          /\ SearchTrue(search, ix)
  BY DEF ServerInv, ServerTyped, SearchInv

LEMMA SelectedStep ==
  ASSUME ServerInv, Remembers, FilesInv, NEW s \in Searches, Selected(s)
  PROVE  ServerInv'
<1>1. /\ index' = index /\ indexFile' = indexFile /\ RawLoadable
      /\ searches' = [searches EXCEPT ![s] = [Waiting EXCEPT !.step = "health", !.pair = Pair]]
  BY DEF Selected, Loadable
<1>2. Past(Pair) /\ Pair \in Pairs
  BY <1>1, LoadedIsRecorded DEF FilesInv, Core
<1>3. PICK pair \in Pairs : pair = Pair
  BY <1>2
<1>4. PICK new : new = [Waiting EXCEPT !.step = "health", !.pair = pair]
  OBVIOUS
<1>5. /\ new \in States /\ new.step = "health" /\ new.pair = pair
      /\ new.seen = NoIndex
  <2>1. Waiting \in States /\ Waiting.seen = NoIndex
    BY NoIndexTyped DEF Waiting, States
  <2> DEFINE begun == [Waiting EXCEPT !.step = "health"]
  <2>2. begun \in States /\ begun.step = "health" /\ begun.seen = NoIndex
    BY <2>1 DEF States
  <2>3. new = [begun EXCEPT !.pair = pair]
    BY <1>4
  <2> HIDE DEF begun
  <2>4. QED
    BY <2>2, <2>3 DEF States
<1>6. searches' = [searches EXCEPT ![s] = new]
  BY <1>1, <1>3, <1>4
<1>7. /\ searches' \in [Searches -> States] /\ searches'[s] = new
      /\ \A t \in Searches : t # s => searches'[t] = searches[t]
  BY <1>5, <1>6 DEF ServerInv, ServerTyped
<1>8. new.step # "idle" => new.pair \in Pairs
  BY <1>5
<1>9. PICK ix, file : ix = index' /\ file = indexFile'
  OBVIOUS
<1>10. /\ ix \in [current : Indexes, stale : BOOLEAN] /\ file \in Indexes
       /\ ~abandoned /\ SearchInv => SaysWhatWas(ix.current) /\ SaysWhatWas(file)
  BY <1>1, <1>9 DEF ServerInv, ServerTyped, SearchInv
<1>11. SearchTrue(new, ix)
  BY <1>2, <1>3, <1>5 DEF SearchTrue, SaysWhatWas
<1>12. ix = index
  BY <1>1, <1>9
<1>13. QED
  BY <1>7, <1>8, <1>9, <1>10, <1>11, <1>12, OneSearch

LEMMA HealthStep ==
  ASSUME ServerInv, Remembers, NEW s \in Searches, Health(s)
  PROVE  ServerInv'
<1>1. PICK search, ix, file : search = searches[s] /\ ix = index /\ file = indexFile
  OBVIOUS
<1>2. /\ search \in States /\ search.pair \in Pairs /\ search.step = "health"
      /\ ix \in [current : Indexes, stale : BOOLEAN] /\ file \in Indexes
      /\ ~abandoned => SaysWhatWas(ix.current) /\ SaysWhatWas(file) /\ SearchTrue(search, ix)
  BY <1>1, SearchKnown DEF Health
<1>3. PICK step : step = IF index.current = NoIndex /\ index.stale THEN "load"
                         ELSE IF Usable(searches[s].pair) THEN "query" ELSE "rebuild"
  OBVIOUS
<1>4. PICK new : new = [search EXCEPT !.step = step]
  OBVIOUS
<1>5. step \in {"load", "query", "rebuild"}
  BY <1>3
<1>6. /\ new \in States /\ new.step = step /\ new.pair = search.pair /\ new.seen = search.seen
      /\ new.quiet = search.quiet
  BY <1>2, <1>4, <1>5 DEF States
<1>7. searches' = [searches EXCEPT ![s] = new]
  BY <1>1, <1>3, <1>4 DEF Health
<1>8. /\ searches' \in [Searches -> States] /\ searches'[s] = new
      /\ \A t \in Searches : t # s => searches'[t] = searches[t]
  BY <1>6, <1>7 DEF ServerInv, ServerTyped
<1>9. ix = index' /\ file = indexFile'
  BY <1>1 DEF Health
<1>10. ASSUME ~abandoned PROVE SearchTrue(new, ix)
  <2>1. SaysWhatWas(new.seen) /\ Past(new.pair)
    BY <1>2, <1>6, <1>10 DEF SearchTrue
  <2>2. step = "query" => ix.current = BuildSearchIndex(new.pair)
    <3>1. step = "query" => ix.current.revision = Revision(new.pair)
      BY <1>1, <1>3, <1>6 DEF Usable
    <3>2. QED
      BY <1>2, <1>6, <1>10, <2>1, <3>1, SaysSame
  <2>3. QED
    BY <1>5, <1>6, <2>1, <2>2 DEF SearchTrue
<1>11. new.step # "idle" => new.pair \in Pairs
  BY <1>2, <1>6
<1>12. QED
  BY <1>1, <1>2, <1>8, <1>9, <1>10, <1>11, OneSearch

LEMMA ReadIndexFileStep ==
  ASSUME ServerInv, Remembers, NEW s \in Searches, ReadIndexFile(s)
  PROVE  ServerInv'
<1>1. PICK search, ix, file : search = searches[s] /\ ix = index /\ file = indexFile
  OBVIOUS
<1>2. /\ search \in States /\ search.pair \in Pairs /\ search.step = "load"
      /\ ix \in [current : Indexes, stale : BOOLEAN] /\ file \in Indexes
      /\ ~abandoned => SaysWhatWas(ix.current) /\ SaysWhatWas(file) /\ SearchTrue(search, ix)
  BY <1>1, SearchKnown DEF ReadIndexFile
<1>3. PICK new : new = [search EXCEPT !.seen = file, !.step = "loaded"]
  OBVIOUS
<1>4. new \in States /\ new.step = "loaded" /\ new.pair = search.pair /\ new.seen = file
  <2> DEFINE read == [search EXCEPT !.seen = file]
  <2>1. read \in States /\ read.pair = search.pair /\ read.seen = file
    BY <1>2 DEF States
  <2>2. new = [read EXCEPT !.step = "loaded"]
    BY <1>3
  <2> HIDE DEF read
  <2>3. QED
    BY <2>1, <2>2 DEF States
<1>5. searches' = [searches EXCEPT ![s] = new]
  BY <1>1, <1>3 DEF ReadIndexFile
<1>6. /\ searches' \in [Searches -> States] /\ searches'[s] = new
      /\ \A t \in Searches : t # s => searches'[t] = searches[t]
  BY <1>4, <1>5 DEF ServerInv, ServerTyped
<1>7. ix = index' /\ file = indexFile'
  BY <1>1 DEF ReadIndexFile
<1>8. ~abandoned => SearchTrue(new, ix)
  BY <1>2, <1>4 DEF SearchTrue
<1>9. new.step # "idle" => new.pair \in Pairs
  BY <1>2, <1>4
<1>10. QED
  BY <1>1, <1>2, <1>6, <1>7, <1>8, <1>9, OneSearch

\* A search that puts a new index in memory overtakes the others.
LEMMA OvertakingSearches ==
  ASSUME ServerTyped, NEW s \in Searches, NEW new \in States, searches' = [Overtaken(s) EXCEPT ![s] = new]
  PROVE  /\ searches' \in [Searches -> States] /\ searches'[s] = new
         /\ \A t \in Searches : t # s => searches'[t] = Overtake(searches[t])
<1> DEFINE others == [t \in Searches |-> IF t # s THEN Overtake(searches[t]) ELSE searches[t]]
<1>1. searches' = [others EXCEPT ![s] = new]
  BY OvertakenIs
<1>2. \A t \in Searches : others[t] \in States
  BY OvertakeTyped DEF ServerTyped
<1>3. others \in [Searches -> States] /\ \A t \in Searches : t # s => others[t] = Overtake(searches[t])
  BY <1>2
<1> HIDE DEF others
<1>4. QED
  BY <1>1, <1>3

LEMMA OvertakenSelf ==
  ASSUME NEW s \in Searches
  PROVE  Overtaken(s)[s] = searches[s]
  BY OvertakenIs

\* A file that holds no index leaves the one in memory stale.
LEMMA LoadFails ==
  ASSUME ServerInv, Remembers, NEW s \in Searches, LoadIndex(s), searches[s].seen = NoIndex
  PROVE  ServerInv'
<1>1. PICK search, ix, file : search = searches[s] /\ ix = [index EXCEPT !.stale = TRUE] /\ file = indexFile
  OBVIOUS
<1>2. /\ search \in States /\ search.pair \in Pairs /\ search.step = "loaded" /\ file \in Indexes
      /\ index \in [current : Indexes, stale : BOOLEAN]
      /\ ~abandoned => SaysWhatWas(index.current) /\ SaysWhatWas(file) /\ SearchTrue(search, index)
  BY <1>1, SearchKnown DEF LoadIndex
<1>3. ix \in [current : Indexes, stale : BOOLEAN] /\ ix.current = index.current /\ ix.stale
  BY <1>1, <1>2
<1>4. PICK new : new = [search EXCEPT !.step = "rebuild"]
  OBVIOUS
<1>5. new \in States /\ new.step = "rebuild" /\ new.pair = search.pair /\ new.seen = search.seen
  BY <1>2, <1>4 DEF States
<1>6. searches' = [searches EXCEPT ![s] = new]
  BY <1>1, <1>4 DEF LoadIndex
<1>7. /\ searches' \in [Searches -> States] /\ searches'[s] = new
      /\ \A t \in Searches : t # s => searches'[t] = searches[t]
  BY <1>5, <1>6 DEF ServerInv, ServerTyped
<1>8. ix = index' /\ file = indexFile'
  BY <1>1 DEF LoadIndex
<1>9. ~abandoned => SaysWhatWas(ix.current) /\ SaysWhatWas(file) /\ SearchTrue(new, ix)
  BY <1>2, <1>3, <1>5 DEF SearchTrue
<1>10. new.step # "idle" => new.pair \in Pairs
  BY <1>2, <1>5
<1>11. QED
  BY <1>2, <1>3, <1>7, <1>8, <1>9, <1>10, OneSearch

LEMMA LoadSucceeds ==
  ASSUME ServerInv, Remembers, NEW s \in Searches, LoadIndex(s), searches[s].seen # NoIndex
  PROVE  ServerInv'
<1>1. PICK search, ix, file : search = searches[s] /\ ix = Fresh(searches[s].seen) /\ file = indexFile
  OBVIOUS
<1>2. /\ search \in States /\ search.pair \in Pairs /\ search.step = "loaded" /\ file \in Indexes
      /\ ~abandoned => SaysWhatWas(file) /\ SearchTrue(search, index)
  BY <1>1, SearchKnown DEF LoadIndex
<1>3. /\ ix \in [current : Indexes, stale : BOOLEAN] /\ ix.current = search.seen
  BY <1>1, <1>2 DEF Fresh, States
<1>4. PICK step : step = IF searches[s].seen.revision = Revision(searches[s].pair) THEN "query" ELSE "rebuild"
  OBVIOUS
<1>5. PICK new : new = [search EXCEPT !.step = step]
  OBVIOUS
<1>6. /\ new \in States /\ new.step = step /\ new.pair = search.pair /\ new.seen = search.seen
      /\ step \in {"query", "rebuild"}
  BY <1>2, <1>4, <1>5 DEF States
<1>7. searches' = [Overtaken(s) EXCEPT ![s] = new]
  BY <1>1, <1>4, <1>5, OvertakenSelf DEF LoadIndex
<1>8. /\ searches' \in [Searches -> States] /\ searches'[s] = new
      /\ \A t \in Searches : t # s => searches'[t] = Overtake(searches[t])
  BY <1>6, <1>7, OvertakingSearches DEF ServerInv
<1>9. ix = index' /\ file = indexFile'
  BY <1>1 DEF LoadIndex
<1>10. ASSUME ~abandoned PROVE SaysWhatWas(ix.current) /\ SaysWhatWas(file) /\ SearchTrue(new, ix)
  <2>1. SaysWhatWas(search.seen) /\ Past(search.pair) /\ SaysWhatWas(file)
    BY <1>2, <1>10 DEF SearchTrue
  <2>2. step = "query" => ix.current = BuildSearchIndex(new.pair)
    BY <1>1, <1>2, <1>3, <1>4, <1>6, <2>1, SaysSame
  <2>3. QED
    BY <1>3, <1>6, <2>1, <2>2 DEF SearchTrue
<1>11. new.step # "idle" => new.pair \in Pairs
  BY <1>2, <1>6
<1>12. QED
  BY <1>2, <1>3, <1>8, <1>9, <1>10, <1>11, OneSearch

LEMMA LoadIndexStep ==
  ASSUME ServerInv, Remembers, NEW s \in Searches, LoadIndex(s)
  PROVE  ServerInv'
  BY LoadFails, LoadSucceeds

LEMMA RebuildAssignStep ==
  ASSUME ServerInv, Remembers, NEW s \in Searches, RebuildAssign(s)
  PROVE  ServerInv'
<1>1. PICK search, built, file : search = searches[s] /\ built = BuildSearchIndex(searches[s].pair) /\ file = indexFile
  OBVIOUS
<1>2. /\ search \in States /\ search.pair \in Pairs /\ search.step = "assign" /\ file \in Indexes
      /\ ~abandoned => SaysWhatWas(file) /\ SearchTrue(search, index)
  BY <1>1, SearchKnown DEF RebuildAssign
<1>3. PICK ix : ix = Fresh(built)
  OBVIOUS
<1>4. ix \in [current : Indexes, stale : BOOLEAN] /\ ix.current = built
  BY <1>1, <1>2, <1>3, BuiltTyped DEF Fresh
<1>5. PICK new : new = [search EXCEPT !.step = "query"]
  OBVIOUS
<1>6. new \in States /\ new.step = "query" /\ new.pair = search.pair /\ new.seen = search.seen
  BY <1>2, <1>5 DEF States
<1>7. searches' = [Overtaken(s) EXCEPT ![s] = new]
  BY <1>1, <1>5, OvertakenSelf DEF RebuildAssign
<1>8. /\ searches' \in [Searches -> States] /\ searches'[s] = new
      /\ \A t \in Searches : t # s => searches'[t] = Overtake(searches[t])
  BY <1>6, <1>7, OvertakingSearches DEF ServerInv
<1>9. ix = index' /\ file = indexFile'
  BY <1>1, <1>3 DEF RebuildAssign
<1>10. ASSUME ~abandoned PROVE SaysWhatWas(ix.current) /\ SaysWhatWas(file) /\ SearchTrue(new, ix)
  <2>1. SaysWhatWas(search.seen) /\ Past(search.pair) /\ SaysWhatWas(file)
    BY <1>2, <1>10 DEF SearchTrue
  <2>2. SaysWhatWas(built)
    BY <1>1, <1>2, <2>1, BuiltSays
  <2>3. QED
    BY <1>1, <1>4, <1>6, <2>1, <2>2 DEF SearchTrue
<1>11. new.step # "idle" => new.pair \in Pairs
  BY <1>2, <1>6
<1>12. QED
  BY <1>2, <1>4, <1>8, <1>9, <1>10, <1>11, OneSearch

\* The answer made without the index.
LEMMA FallbackStep ==
  ASSUME ServerInv, Remembers, NEW s \in Searches, searches[s].step # "idle", Fallback(s), UNCHANGED indexFile
  PROVE  ServerInv'
<1>1. PICK search, ix, file : search = searches[s] /\ ix = [index EXCEPT !.stale = TRUE] /\ file = indexFile
  OBVIOUS
<1>2. /\ search \in States /\ search.pair \in Pairs /\ search.step # "idle" /\ file \in Indexes
      /\ index \in [current : Indexes, stale : BOOLEAN]
      /\ ~abandoned => SaysWhatWas(index.current) /\ SaysWhatWas(file) /\ SearchTrue(search, index)
  BY <1>1, SearchKnown
<1>3. ix \in [current : Indexes, stale : BOOLEAN] /\ ix.current = index.current /\ ix.stale
  BY <1>1, <1>2
<1>4. PICK hits : hits = SearchIndex(BuildSearchIndex(search.pair))
  OBVIOUS
<1>5. hits \in SUBSET Levels
  BY <1>4 DEF SearchIndex
<1>6. PICK new : new = [search EXCEPT !.step = "answered", !.status = "canonical-fallback", !.hits = hits]
  OBVIOUS
<1>7. /\ new \in States /\ new.step = "answered" /\ new.pair = search.pair /\ new.seen = search.seen
      /\ new.hits = hits
  <2> DEFINE first == [search EXCEPT !.step = "answered"]
             second == [first EXCEPT !.status = "canonical-fallback"]
  <2>1. first \in States /\ first.step = "answered" /\ first.pair = search.pair /\ first.seen = search.seen
    BY <1>2 DEF States
  <2>2. new = [second EXCEPT !.hits = hits]
    BY <1>6
  <2> HIDE DEF first
  <2>3. second \in States /\ second.step = "answered" /\ second.pair = search.pair /\ second.seen = search.seen
    BY <2>1 DEF States
  <2> HIDE DEF second
  <2>4. QED
    BY <1>5, <2>2, <2>3 DEF States
<1>8. searches' = [searches EXCEPT ![s] = new]
  BY <1>1, <1>4, <1>6 DEF Fallback
<1>9. /\ searches' \in [Searches -> States] /\ searches'[s] = new
      /\ \A t \in Searches : t # s => searches'[t] = searches[t]
  BY <1>7, <1>8 DEF ServerInv, ServerTyped
<1>10. ix = index' /\ file = indexFile'
  BY <1>1 DEF Fallback
<1>11. ~abandoned => SaysWhatWas(ix.current) /\ SaysWhatWas(file) /\ SearchTrue(new, ix)
  BY <1>2, <1>3, <1>4, <1>7 DEF SearchTrue
<1>12. new.step # "idle" => new.pair \in Pairs
  BY <1>2, <1>7
<1>13. QED
  BY <1>2, <1>3, <1>9, <1>10, <1>11, <1>12, OneSearch

LEMMA RebuildWriteStep ==
  ASSUME ServerInv, Remembers, NEW s \in Searches, RebuildWrite(s)
  PROVE  ServerInv'
<1>1. searches[s].step = "rebuild"
  BY DEF RebuildWrite
<1>2. CASE Fallback(s) /\ UNCHANGED indexFile
  BY <1>1, <1>2, FallbackStep
<1>3. CASE /\ indexFile' = BuildSearchIndex(searches[s].pair)
           /\ searches' = [searches EXCEPT ![s].step = "assign"]
           /\ UNCHANGED index
  <2>1. PICK search, ix, file : search = searches[s] /\ ix = index /\ file = BuildSearchIndex(searches[s].pair)
    OBVIOUS
  <2>2. /\ search \in States /\ search.pair \in Pairs /\ search.step = "rebuild"
        /\ ix \in [current : Indexes, stale : BOOLEAN]
        /\ ~abandoned => SaysWhatWas(ix.current) /\ SearchTrue(search, ix)
    BY <1>1, <2>1, SearchKnown
  <2>3. file \in Indexes
    BY <2>1, <2>2, BuiltTyped
  <2>4. PICK new : new = [search EXCEPT !.step = "assign"]
    OBVIOUS
  <2>5. new \in States /\ new.step = "assign" /\ new.pair = search.pair /\ new.seen = search.seen
    BY <2>2, <2>4 DEF States
  <2>6. searches' = [searches EXCEPT ![s] = new]
    BY <1>3, <2>1, <2>4
  <2>7. /\ searches' \in [Searches -> States] /\ searches'[s] = new
        /\ \A t \in Searches : t # s => searches'[t] = searches[t]
    BY <2>5, <2>6 DEF ServerInv, ServerTyped
  <2>8. ix = index' /\ file = indexFile'
    BY <1>3, <2>1
  <2>9. ASSUME ~abandoned PROVE SaysWhatWas(file) /\ SearchTrue(new, ix)
    <3>1. SaysWhatWas(search.seen) /\ Past(search.pair)
      BY <2>2, <2>9 DEF SearchTrue
    <3>2. SaysWhatWas(file)
      BY <2>1, <2>2, <3>1, BuiltSays
    <3>3. QED
      BY <2>5, <3>1, <3>2 DEF SearchTrue
  <2>10. new.step # "idle" => new.pair \in Pairs
    BY <2>2, <2>5
  <2>11. QED
    BY <2>1, <2>2, <2>3, <2>7, <2>8, <2>9, <2>10, OneSearch
<1>4. QED
  BY <1>2, <1>3 DEF RebuildWrite

LEMMA QueryIndexStep ==
  ASSUME ServerInv, Remembers, NEW s \in Searches, QueryIndex(s)
  PROVE  ServerInv'
<1>1. searches[s].step = "query" /\ UNCHANGED indexFile
  BY DEF QueryIndex
<1>2. CASE index.current = NoIndex \/ index.stale
  BY <1>1, <1>2, FallbackStep DEF QueryIndex
<1>3. CASE ~(index.current = NoIndex \/ index.stale)
  <2>1. PICK search, ix, file : search = searches[s] /\ ix = index /\ file = indexFile
    OBVIOUS
  <2>2. /\ search \in States /\ search.pair \in Pairs /\ search.step = "query"
        /\ ix \in [current : Indexes, stale : BOOLEAN] /\ file \in Indexes
        /\ ~abandoned => SaysWhatWas(ix.current) /\ SaysWhatWas(file) /\ SearchTrue(search, ix)
    BY <1>1, <2>1, SearchKnown
  <2>3. PICK hits : hits = SearchIndex(ix.current)
    OBVIOUS
  <2>4. hits \in SUBSET Levels
    BY <2>3 DEF SearchIndex
  <2>5. PICK new : new = [search EXCEPT !.step = "answered", !.status = "current", !.hits = hits]
    OBVIOUS
  <2>6. /\ new \in States /\ new.step = "answered" /\ new.pair = search.pair /\ new.seen = search.seen
        /\ new.hits = hits /\ new.quiet = search.quiet /\ new.status = "current"
    <3> DEFINE first == [search EXCEPT !.step = "answered"]
               second == [first EXCEPT !.status = "current"]
    <3>1. /\ first \in States /\ first.step = "answered" /\ first.pair = search.pair
          /\ first.seen = search.seen /\ first.quiet = search.quiet
      BY <2>2 DEF States
    <3>2. new = [second EXCEPT !.hits = hits]
      BY <2>5
    <3> HIDE DEF first
    <3>3. /\ second \in States /\ second.step = "answered" /\ second.pair = search.pair
          /\ second.seen = search.seen /\ second.quiet = search.quiet /\ second.status = "current"
      BY <3>1 DEF States
    <3> HIDE DEF second
    <3>4. QED
      BY <2>4, <3>2, <3>3 DEF States
  <2>7. searches' = [searches EXCEPT ![s] = new] /\ ix = index' /\ file = indexFile'
    BY <1>3, <2>1, <2>3, <2>5 DEF QueryIndex
  <2>8. /\ searches' \in [Searches -> States] /\ searches'[s] = new
        /\ \A t \in Searches : t # s => searches'[t] = searches[t]
    BY <2>6, <2>7 DEF ServerInv, ServerTyped
  <2>9. ASSUME ~abandoned PROVE SearchTrue(new, ix)
    <3>1. new.quiet => ix.current = BuildSearchIndex(new.pair)
      BY <1>3, <2>1, <2>2, <2>6, <2>9 DEF SearchTrue
    <3>2. SaysWhatWas(new.seen) /\ Past(new.pair)
      BY <2>2, <2>6, <2>9 DEF SearchTrue
    <3>3. QED
      BY <2>3, <2>6, <3>1, <3>2 DEF SearchTrue
  <2>10. new.step # "idle" => new.pair \in Pairs
    BY <2>2, <2>6
  <2>11. QED
    BY <2>1, <2>2, <2>7, <2>8, <2>9, <2>10, OneSearch
<1>4. QED
  BY <1>2, <1>3

\* The index in memory or its file changes, by another hand than a search's.
LEMMA NoSearch ==
  ASSUME ServerInv, Remembers, NEW ix, ix = index', NEW file, file = indexFile',
         ix \in [current : Indexes, stale : BOOLEAN], file \in Indexes,
         \/ searches' = [t \in Searches |-> Overtake(searches[t])]
         \/ searches' = searches /\ (ix = index \/ ix.stale),
         ~abandoned /\ SearchInv => SaysWhatWas(ix.current) /\ SaysWhatWas(file)
  PROVE  ServerInv'
<1>1. ServerTyped /\ SearchInv /\ searches \in [Searches -> States]
  BY DEF ServerInv, ServerTyped
<1>2. ASSUME NEW t \in Searches
      PROVE  /\ searches'[t] \in States /\ searches'[t].step = searches[t].step
             /\ searches'[t].pair = searches[t].pair
             /\ searches'[t] = Overtake(searches[t]) \/ (searches'[t] = searches[t] /\ (ix = index \/ ix.stale))
  <2>1. searches[t] \in States
    BY <1>1
  <2>2. searches'[t] = Overtake(searches[t]) \/ (searches'[t] = searches[t] /\ (ix = index \/ ix.stale))
    <3>1. CASE searches' = [u \in Searches |-> Overtake(searches[u])]
      BY <3>1
    <3>2. CASE searches' = searches /\ (ix = index \/ ix.stale)
      BY <3>2
    <3>3. QED
      BY <3>1, <3>2
  <2>3. QED
    BY <2>1, <2>2, OvertakeTyped
<1>3. ServerTyped'
  <2>1. searches' \in [Searches -> States]
    BY <1>1, <1>2, OvertakeTyped
  <2>2. QED
    BY <1>1, <1>2, <2>1 DEF ServerTyped
<1>4. ASSUME ~abandoned' PROVE SearchInv'
  <2>1. PastKept /\ ~abandoned
    BY <1>4 DEF Remembers
  <2>2. SaysWhatWas(ix.current)' /\ SaysWhatWas(file)'
    BY <1>1, <2>1, KeptSays
  <2>3. ASSUME NEW t \in Searches PROVE SearchTrue(searches[t], index)'
    <3>1. PICK old, oldIndex : old = searches[t] /\ oldIndex = index
      OBVIOUS
    <3>2. SearchTrue(old, oldIndex) /\ old \in States
      BY <1>1, <2>1, <3>1 DEF SearchInv
    <3>3. PICK then : then = searches'[t]
      OBVIOUS
    <3>4. SearchTrue(then, ix)
      <4>1. CASE then = Overtake(old)
        BY <3>2, <4>1, OvertakeTrue
      <4>2. CASE then = old /\ (ix = oldIndex \/ ix.stale)
        BY <3>2, <4>2 DEF SearchTrue
      <4>3. QED
        BY <1>2, <3>1, <3>3, <4>1, <4>2
    <3>5. SearchTrue(then, ix)'
      BY <2>1, <3>4, KeptTrue
    <3>6. QED
      BY <3>3, <3>5 DEF SearchTrue, SaysWhatWas, Past, SearchIndex, BuildSearchIndex, NoIndex, Revision
  <2>4. SaysWhatWas(index.current)' /\ SaysWhatWas(indexFile)'
    BY <2>2 DEF SaysWhatWas, BuildSearchIndex, NoIndex, Revision
  <2>5. QED
    BY <2>3, <2>4 DEF SearchInv
<1>5. SearchInv'
  BY <1>4 DEF SearchInv
<1>6. QED
  BY <1>3, <1>5 DEF ServerInv

LEMMA ServerSame ==
  ASSUME ServerInv, Remembers, UNCHANGED server
  PROVE  ServerInv'
<1>1. PICK ix, file : ix = index /\ file = indexFile
  OBVIOUS
<1>2. ix = index' /\ file = indexFile' /\ searches' = searches
  BY <1>1 DEF server
<1>3. ix \in [current : Indexes, stale : BOOLEAN] /\ file \in Indexes
  BY <1>1 DEF ServerInv, ServerTyped
<1>4. ~abandoned /\ SearchInv => SaysWhatWas(ix.current) /\ SaysWhatWas(file)
  BY <1>1 DEF SearchInv
<1>5. QED
  BY <1>1, <1>2, <1>3, <1>4, NoSearch

\* The server's memory is gone, its index file is not.
LEMMA ServerDiesStep ==
  ASSUME ServerInv, Remembers, ServerDies, UNCHANGED indexFile
  PROVE  ServerInv'
<1>1. index' = Unloaded /\ searches' = [s \in Searches |-> Waiting]
  BY DEF ServerDies
<1>2. Waiting \in States /\ Waiting.step = "idle" /\ Waiting.seen = NoIndex
  BY NoIndexTyped DEF Waiting, States
<1>3. Unloaded \in [current : Indexes, stale : BOOLEAN] /\ Unloaded.current = NoIndex
  BY NoIndexTyped DEF Unloaded
<1>4. ServerTyped'
  BY <1>1, <1>2, <1>3 DEF ServerInv, ServerTyped
<1>5. ASSUME ~abandoned' PROVE SearchInv'
  <2>1. PICK file : file = indexFile
    OBVIOUS
  <2>2. SaysWhatWas(file)'
    BY <1>5, <2>1, KeptSays DEF ServerInv, SearchInv, Remembers
  <2>3. SaysWhatWas(indexFile)'
    BY <2>1, <2>2 DEF SaysWhatWas, BuildSearchIndex, NoIndex, Revision
  <2>4. SaysWhatWas(index.current)'
    BY <1>1, <1>3 DEF SaysWhatWas, NoIndex
  <2>5. ASSUME NEW s \in Searches PROVE SearchTrue(searches[s], index)'
    <3>1. searches'[s].step = "idle" /\ searches'[s].seen = NoIndex
      BY <1>1, <1>2
    <3>2. QED
      BY <3>1 DEF SearchTrue, SaysWhatWas, NoIndex
  <2>6. QED
    BY <2>3, <2>4, <2>5 DEF SearchInv
<1>6. SearchInv'
  BY <1>5 DEF SearchInv
<1>7. QED
  BY <1>4, <1>6 DEF ServerInv

LEMMA IndexWritten ==
  ASSUME ServerInv, Remembers, UNCHANGED <<index, searches>>,
         NEW pair \in Pairs, Past(pair), indexFile' = BuildSearchIndex(pair)
  PROVE  ServerInv'
<1>1. PICK ix, file : ix = index /\ file = BuildSearchIndex(pair)
  OBVIOUS
<1>2. ix = index' /\ file = indexFile'
  BY <1>1
<1>3. ix \in [current : Indexes, stale : BOOLEAN] /\ file \in Indexes
  BY <1>1, BuiltTyped DEF ServerInv, ServerTyped
<1>4. ~abandoned /\ SearchInv => SaysWhatWas(ix.current) /\ SaysWhatWas(file)
  BY <1>1, BuiltSays DEF SearchInv
<1>5. QED
  BY <1>1, <1>2, <1>3, <1>4, NoSearch

LEMMA IndexMarkedStale ==
  ASSUME ServerInv, Remembers, UNCHANGED <<indexFile, searches>>, index' = [index EXCEPT !.stale = TRUE]
  PROVE  ServerInv'
<1>1. PICK ix, file : ix = [index EXCEPT !.stale = TRUE] /\ file = indexFile
  OBVIOUS
<1>2. ix = index' /\ file = indexFile'
  BY <1>1
<1>3. ix \in [current : Indexes, stale : BOOLEAN] /\ file \in Indexes /\ ix.stale /\ ix.current = index.current
  BY <1>1 DEF ServerInv, ServerTyped
<1>4. ~abandoned /\ SearchInv => SaysWhatWas(ix.current) /\ SaysWhatWas(file)
  BY <1>1, <1>3 DEF SearchInv
<1>5. QED
  BY <1>1, <1>2, <1>3, <1>4, NoSearch

LEMMA ServerIndexCommit ==
  ASSUME ServerInv, FilesInv, Remembers, IndexCommit
  PROVE  ServerInv'
<1>1. HolderTyped /\ HolderInv /\ UNCHANGED searches
  BY DEF FilesInv, Core, TypeInv, IndexCommit
<1>2. holder.pair \in Pairs /\ Past(holder.pair)
  BY <1>1, HolderSteps DEF IndexCommit, HolderInv
<1>3. CASE indexFile' = BuildSearchIndex(holder.pair) /\ UNCHANGED index
  <2>1. PICK pair \in Pairs : pair = holder.pair
    BY <1>2
  <2>2. QED
    BY <1>1, <1>2, <1>3, <2>1, IndexWritten
<1>4. CASE /\ index' = IF holder.process = "server" THEN [index EXCEPT !.stale = TRUE] ELSE index
           /\ UNCHANGED indexFile
  <2>1. CASE index' = [index EXCEPT !.stale = TRUE]
    BY <1>1, <1>4, <2>1, IndexMarkedStale
  <2>2. CASE index' = index
    BY <1>1, <1>4, <2>2, ServerSame DEF server
  <2>3. QED
    BY <1>4, <2>1, <2>2
<1>5. QED
  BY <1>3, <1>4 DEF IndexCommit

LEMMA ServerAssignCommit ==
  ASSUME ServerInv, FilesInv, Remembers, AssignCommit
  PROVE  ServerInv'
<1>1. HolderTyped /\ HolderInv /\ UNCHANGED indexFile
  BY DEF FilesInv, Core, TypeInv, AssignCommit
<1>2. PICK pair \in Pairs : pair = holder.pair /\ Past(pair)
  BY <1>1, HolderSteps DEF AssignCommit, HolderInv
<1>3. CASE UNCHANGED <<index, searches>>
  BY <1>1, <1>3, ServerSame DEF server
<1>4. CASE index' = Fresh(BuildSearchIndex(holder.pair)) /\ searches' = Overtaken("commit")
  <2>1. PICK built, file : built = BuildSearchIndex(pair) /\ file = indexFile
    OBVIOUS
  <2>2. PICK ix : ix = Fresh(built)
    OBVIOUS
  <2>3. ix = index' /\ file = indexFile'
    BY <1>1, <1>2, <1>4, <2>1, <2>2
  <2>4. ix \in [current : Indexes, stale : BOOLEAN] /\ ix.current = built /\ file \in Indexes
    BY <2>1, <2>2, BuiltTyped DEF Fresh, ServerInv, ServerTyped
  <2>5. ~abandoned /\ SearchInv => SaysWhatWas(ix.current) /\ SaysWhatWas(file)
    BY <1>2, <2>1, <2>4, BuiltSays DEF SearchInv
  <2>6. searches' = [t \in Searches |-> Overtake(searches[t])]
    <3>1. \A t \in Searches : t # "commit"
      BY RevisionsAssumption
    <3>2. QED
      BY <1>4, <3>1, OvertakenIs
  <2>7. QED
    BY <2>3, <2>4, <2>5, <2>6, NoSearch
<1>5. QED
  BY <1>3, <1>4 DEF AssignCommit

LEMMA ServerRebuild ==
  ASSUME ServerInv, FilesInv, Remembers, RebuildDerivedState
  PROVE  ServerInv'
<1>1. Past(Pair) /\ Pair \in Pairs
  BY LoadedIsRecorded DEF RebuildDerivedState, Loadable, FilesInv, Core
<1>2. PICK pair \in Pairs : pair = Pair /\ Past(pair)
  BY <1>1
<1>3. QED
  BY <1>2, IndexWritten DEF RebuildDerivedState

LEMMA ServerInit ==
  ASSUME Init
  PROVE  ServerInv
<1>1. index = Unloaded /\ indexFile = NoIndex /\ searches = [s \in Searches |-> Waiting]
  BY DEF Init
<1>2. Waiting \in States /\ Waiting.step = "idle" /\ Waiting.seen = NoIndex
  BY NoIndexTyped DEF Waiting, States
<1>3. Unloaded \in [current : Indexes, stale : BOOLEAN] /\ Unloaded.current = NoIndex
  BY NoIndexTyped DEF Unloaded
<1>4. ServerTyped
  BY <1>1, <1>2, <1>3, NoIndexTyped DEF ServerTyped
<1>5. \A s \in Searches : SearchTrue(searches[s], index)
  BY <1>1, <1>2 DEF SearchTrue, SaysWhatWas
<1>6. SearchInv
  BY <1>1, <1>3, <1>5 DEF SearchInv, SaysWhatWas
<1>7. QED
  BY <1>4, <1>6 DEF ServerInv

LEMMA ServerNext ==
  ASSUME FilesInv, ServerInv, Remembers, [Next]_vars
  PROVE  ServerInv'
<1>1. ASSUME NEW process \in {"server", "other"}, Execute(process) PROVE ServerInv'
  <2>1. UNCHANGED server \/ (ServerDies /\ UNCHANGED indexFile)
    BY <1>1 DEF Execute, server
  <2>2. QED
    BY <2>1, ServerSame, ServerDiesStep
<1>2. CASE IndexCommit
  BY <1>2, ServerIndexCommit
<1>3. CASE AssignCommit
  BY <1>3, ServerAssignCommit
<1>4. CASE HolderDies
  <2>1. UNCHANGED server \/ (ServerDies /\ UNCHANGED indexFile)
    BY <1>4 DEF HolderDies, server
  <2>2. QED
    BY <2>1, ServerSame, ServerDiesStep
<1>5. CASE RebuildDerivedState
  BY <1>5, ServerRebuild
<1>6. CASE Recover \/ Migrate \/ RestoreBegin \/ RestoreInstall("business", "software")
           \/ RestoreInstall("software", "integrity") \/ RestoreIntegrity \/ UNCHANGED vars
  BY <1>6, ServerSame DEF Recover, Migrate, RestoreBegin, RestoreInstall, RestoreIntegrity, vars
<1>7. ASSUME NEW s \in Searches,
             Selected(s) \/ Health(s) \/ ReadIndexFile(s) \/ LoadIndex(s)
                         \/ RebuildWrite(s) \/ RebuildAssign(s) \/ QueryIndex(s)
      PROVE  ServerInv'
  BY <1>7, SelectedStep, HealthStep, ReadIndexFileStep, LoadIndexStep,
     RebuildWriteStep, RebuildAssignStep, QueryIndexStep
<1>8. QED
  BY <1>1, <1>2, <1>3, <1>4, <1>5, <1>6, <1>7 DEF Next

\* A search whose index was not replaced under it answers for its own snapshot,
\* and so does one that could not use the index.
THEOREM SearchAnswers == Spec => []SearchExact
<1>1. Init => FilesInv /\ ServerInv
  BY FilesInit, ServerInit
<1>2. FilesInv /\ ServerInv /\ [Next]_vars => (FilesInv /\ ServerInv)'
  BY FilesNext, ServerNext
<1>3. ServerInv => SearchExact
  BY DEF ServerInv, SearchInv, SearchTrue, SearchExact
<1>4. QED
  BY <1>1, <1>2, <1>3, PTL DEF Spec

=============================================================================
