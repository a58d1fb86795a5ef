------------------------- MODULE ProjectLockProofs -------------------------
(***************************************************************************)
(* What the project lock guarantees for every number of contenders and     *)
(* processes, every placement of the one on the other and every bound on   *)
(* expired leases.                                                         *)
(***************************************************************************)
EXTENDS ProjectLock, TLAPS

\* Every variable stays in its type.
THEOREM Typing == Spec => []TypeOK
<1>1. Init => TypeOK
  <2> SUFFICES ASSUME Init PROVE TypeOK
    OBVIOUS
  <2>1. /\ dir \in [exists : BOOLEAN, aged : BOOLEAN]
        /\ owner \in [by : Contender \cup {Nobody}, valid : BOOLEAN, aged : BOOLEAN]
        /\ usurped \in BOOLEAN
    BY Zenon DEF Init, NoFile
  <2>2. /\ pc \in [Contender -> Steps]
        /\ goal \in [Contender -> Goals]
        /\ seen \in [Contender -> Contender \cup {Nobody}]
    BY DEF Init, Steps, Goals
  <2>3. expiries \in 0..MaxExpiries /\ errors \in 0..MaxErrors
    BY LockAssumption DEF Init
  <2>4. QED
    BY <2>1, <2>2, <2>3 DEF TypeOK
<1>2. TypeOK /\ [Next]_vars => TypeOK'
  <2> SUFFICES ASSUME TypeOK, [Next]_vars PROVE TypeOK'
    OBVIOUS
  <2> USE LockAssumption DEF TypeOK, Steps, Goals, Goto, StartRelease, NoFile
  <2>1. ASSUME NEW c \in Contender, Acquire(c) PROVE TypeOK'
    BY <2>1 DEF Acquire
  <2>2. ASSUME NEW c \in Contender, Mkdir(c) PROVE TypeOK'
    <3>1. CASE dir.exists
      BY <2>2, <3>1 DEF Mkdir
    <3>2. CASE ~dir.exists
      <4>1. dir' = [exists |-> TRUE, aged |-> FALSE]
        BY <2>2, <3>2 DEF Mkdir
      <4>2. dir' \in [exists : BOOLEAN, aged : BOOLEAN]
        BY <4>1, Zenon
      <4>3. QED
        BY <2>2, <3>2, <4>2 DEF Mkdir
    <3>3. QED
      BY <3>1, <3>2
  <2>3. ASSUME NEW c \in Contender, OpenOwner(c) PROVE TypeOK'
    BY <2>3 DEF OpenOwner
  <2>4. ASSUME NEW c \in Contender, OpenFindsOwner(c) PROVE TypeOK'
    BY <2>4 DEF OpenFindsOwner
  <2>5. ASSUME NEW c \in Contender, OpenFails(c) PROVE TypeOK'
    BY <2>5 DEF OpenFails
  <2>6. ASSUME NEW c \in Contender, WriteOwner(c) PROVE TypeOK'
    BY <2>6 DEF WriteOwner
  <2>7. ASSUME NEW c \in Contender, WriteFails(c) PROVE TypeOK'
    BY <2>7 DEF WriteFails
  <2>8. ASSUME NEW c \in Contender, Retry(c) \/ GiveUp(c) PROVE TypeOK'
    BY <2>8 DEF Retry, GiveUp
  <2>9. ASSUME NEW c \in Contender, ReadOwner(c) PROVE TypeOK'
    BY <2>9 DEF ReadOwner
  <2>10. ASSUME NEW c \in Contender, Judge(c) PROVE TypeOK'
    BY <2>10 DEF Judge
  <2>11. ASSUME NEW c \in Contender, Release(c) PROVE TypeOK'
    BY <2>11 DEF Release
  <2>12. ASSUME NEW c \in Contender, Unlink(c) PROVE TypeOK'
    BY <2>12 DEF Unlink
  <2>13. ASSUME NEW c \in Contender, Rmdir(c) PROVE TypeOK'
    BY <2>13 DEF Rmdir
  <2>14. ASSUME NEW p \in Process, Die(p) PROVE TypeOK'
    BY <2>14 DEF Die
  <2>15. CASE Expire
    <3>1. expiries' \in 0..MaxExpiries
      BY <2>15 DEF Expire
    <3>2. /\ dir' \in [exists : BOOLEAN, aged : BOOLEAN]
          /\ owner' \in [by : Contender \cup {Nobody}, valid : BOOLEAN, aged : BOOLEAN]
      BY <2>15, ZenonT(30) DEF Expire
    <3>3. QED
      BY <2>15, <3>1, <3>2 DEF Expire
  <2>16. CASE UNCHANGED vars
    BY <2>16 DEF vars
  <2>17. ASSUME NEW c \in Contender, MkdirFails(c) PROVE TypeOK'
    <3>1. errors' \in 0..MaxErrors
      BY <2>17 DEF MkdirFails
    <3>2. QED
      BY <2>17, <3>1 DEF MkdirFails
  <2>18. QED
    BY <2>1, <2>2, <2>3, <2>4, <2>5, <2>6, <2>7, <2>8, <2>9, <2>10, <2>11,
       <2>12, <2>13, <2>14, <2>15, <2>16, <2>17 DEF Next, Progress
<1>3. QED
  BY <1>1, <1>2, PTL DEF Spec

----------------------------------------------------------------------------

(***************************************************************************)
(* Exclusion up to the first usurpation.  The inductive fact is that a     *)
(* live contender between the creation of owner.json and the start of its  *)
(* release is the creator of the file that is there: only one can be.      *)
(***************************************************************************)
EngagedOwns == ~usurped => \A c \in Contender : Engaged(c) => owner.by = c

LEMMA EngagedOwnsStep == TypeOK /\ EngagedOwns /\ [Next]_vars => EngagedOwns'
<1> SUFFICES ASSUME TypeOK, EngagedOwns, [Next]_vars PROVE EngagedOwns'
  OBVIOUS
<1> USE LockAssumption DEF TypeOK, EngagedOwns, Engaged, Goto, StartRelease
<1>1. ASSUME NEW c \in Contender, Acquire(c) PROVE EngagedOwns'
  BY <1>1 DEF Acquire
<1>2. ASSUME NEW c \in Contender, Mkdir(c) PROVE EngagedOwns'
  BY <1>2 DEF Mkdir
<1>3. ASSUME NEW c \in Contender, OpenOwner(c) PROVE EngagedOwns'
  BY <1>3 DEF OpenOwner
<1>4. ASSUME NEW c \in Contender, OpenFindsOwner(c) PROVE EngagedOwns'
  BY <1>4 DEF OpenFindsOwner
<1>5. ASSUME NEW c \in Contender, OpenFails(c) \/ WriteFails(c) \/ MkdirFails(c)
      PROVE EngagedOwns'
  BY <1>5 DEF OpenFails, WriteFails, MkdirFails
<1>6. ASSUME NEW c \in Contender, WriteOwner(c) PROVE EngagedOwns'
  BY <1>6 DEF WriteOwner
<1>7. ASSUME NEW c \in Contender, Retry(c) \/ GiveUp(c) PROVE EngagedOwns'
  BY <1>7 DEF Retry, GiveUp
<1>8. ASSUME NEW c \in Contender, ReadOwner(c) PROVE EngagedOwns'
  BY <1>8 DEF ReadOwner
<1>9. ASSUME NEW c \in Contender, Judge(c) PROVE EngagedOwns'
  BY <1>9 DEF Judge
<1>10. ASSUME NEW c \in Contender, Release(c) PROVE EngagedOwns'
  BY <1>10 DEF Release
<1>11. ASSUME NEW c \in Contender, Unlink(c) PROVE EngagedOwns'
  <2>1. SUFFICES ASSUME ~usurped', NEW d \in Contender, pc'[d] \in {"write", "held"}
                 PROVE FALSE
    OBVIOUS
  <2>2. d # c /\ pc[d] \in {"write", "held"}
    BY <1>11, <2>1 DEF Unlink
  <2>3. owner.by = d
    BY <1>11, <2>1, <2>2 DEF Unlink
  <2>4. QED
    BY <1>11, <2>1, <2>2, <2>3 DEF Unlink
<1>12. ASSUME NEW c \in Contender, Rmdir(c) PROVE EngagedOwns'
  BY <1>12 DEF Rmdir
<1>13. ASSUME NEW p \in Process, Die(p) PROVE EngagedOwns'
  BY <1>13 DEF Die
<1>14. CASE Expire
  BY <1>14 DEF Expire
<1>15. CASE UNCHANGED vars
  BY <1>15 DEF vars
<1>16. QED
  BY <1>1, <1>2, <1>3, <1>4, <1>5, <1>6, <1>7, <1>8, <1>9, <1>10, <1>11, <1>12,
     <1>13, <1>14, <1>15 DEF Next, Progress

\* Two calls hold the lock only after release() removed the owner.json of a live
\* contender that was not its own.
THEOREM Exclusion == Spec => []ExclusionUnlessUsurped
<1>1. Init => EngagedOwns
  BY DEF Init, EngagedOwns, Engaged
<1>2. EngagedOwns => ExclusionUnlessUsurped
  BY DEF EngagedOwns, Engaged, ExclusionUnlessUsurped, MutualExclusion, Holders
<1>3. QED
  BY <1>1, <1>2, EngagedOwnsStep, Typing, PTL DEF Spec

----------------------------------------------------------------------------

(***************************************************************************)
(* Exclusion while every lock is younger than its lease and no mkdir has   *)
(* failed otherwise than by finding the directory there.  The directory    *)
(* then belongs to the contender that made it until that contender removes *)
(* it: at most one contender is between mkdir and rmdir, no call reaches a *)
(* stale verdict, and no owner.json in the directory is anybody else's.    *)
(***************************************************************************)
InSection(c) == pc[c] \in {"open", "write", "held", "unlink", "rmdir"}

YoungLock ==
    expiries = 0 /\ errors = 0 =>
        /\ ~dir.aged /\ ~owner.aged
        /\ \A c \in Contender : seen[c] = Nobody /\ goal[c] # "takeover"
        /\ \A c \in Contender : InSection(c) => dir.exists /\ owner.by \in {c, Nobody}
        /\ \A c, d \in Contender : InSection(c) /\ InSection(d) => c = d
        /\ ~dir.exists => owner.by = Nobody

LEMMA YoungLockStep == TypeOK /\ YoungLock /\ [Next]_vars => YoungLock'
<1> SUFFICES ASSUME TypeOK, YoungLock, [Next]_vars PROVE YoungLock'
  OBVIOUS
<1> USE LockAssumption DEF TypeOK, YoungLock, InSection, Goto, StartRelease, NoFile
<1>1. ASSUME NEW c \in Contender, Acquire(c) PROVE YoungLock'
  BY <1>1 DEF Acquire
<1>2. ASSUME NEW c \in Contender, Mkdir(c) PROVE YoungLock'
  BY <1>2 DEF Mkdir
<1>3. ASSUME NEW c \in Contender, OpenOwner(c) PROVE YoungLock'
  BY <1>3 DEF OpenOwner
<1>4. ASSUME NEW c \in Contender, OpenFindsOwner(c) PROVE YoungLock'
  BY <1>4 DEF OpenFindsOwner
<1>5. ASSUME NEW c \in Contender, OpenFails(c) \/ WriteFails(c) \/ MkdirFails(c)
      PROVE YoungLock'
  BY <1>5 DEF OpenFails, WriteFails, MkdirFails
<1>6. ASSUME NEW c \in Contender, WriteOwner(c) PROVE YoungLock'
  BY <1>6 DEF WriteOwner
<1>7. ASSUME NEW c \in Contender, Retry(c) \/ GiveUp(c) PROVE YoungLock'
  BY <1>7 DEF Retry, GiveUp
<1>8. ASSUME NEW c \in Contender, ReadOwner(c) PROVE YoungLock'
  BY <1>8 DEF ReadOwner
<1>9. ASSUME NEW c \in Contender, Judge(c) PROVE YoungLock'
  BY <1>9 DEF Judge, JudgedStale
<1>10. ASSUME NEW c \in Contender, Release(c) PROVE YoungLock'
  BY <1>10 DEF Release
<1>11. ASSUME NEW c \in Contender, Unlink(c) PROVE YoungLock'
  BY <1>11 DEF Unlink
<1>12. ASSUME NEW c \in Contender, Rmdir(c) PROVE YoungLock'
  BY <1>12 DEF Rmdir
<1>13. ASSUME NEW p \in Process, Die(p) PROVE YoungLock'
  BY <1>13 DEF Die
<1>14. CASE Expire
  BY <1>14 DEF Expire
<1>15. CASE UNCHANGED vars
  BY <1>15 DEF vars
<1>16. QED
  BY <1>1, <1>2, <1>3, <1>4, <1>5, <1>6, <1>7, <1>8, <1>9, <1>10, <1>11, <1>12,
     <1>13, <1>14, <1>15 DEF Next, Progress

\* While no lock has outlived its lease and no mkdir has failed with another code
\* than EEXIST, at most one call holds the lock, however many contend, fail from
\* open on, or die.
THEOREM ExclusionYoung == Spec => []ExclusionWithinLease
<1>1. Init => YoungLock
  BY LockAssumption DEF Init, YoungLock, InSection, NoFile
<1>2. YoungLock => ExclusionWithinLease
  BY DEF YoungLock, InSection, ExclusionWithinLease, MutualExclusion, Holders
<1>3. QED
  BY <1>1, <1>2, YoungLockStep, Typing, PTL DEF Spec
----------------------------------------------------------------------------

(***************************************************************************)
(* No lock is left behind.  An owner.json is there only as long as the     *)
(* call that made it is on its way to remove it, or is dead; so whoever    *)
(* goes without removing the directory leaves it to a call that will.      *)
(***************************************************************************)
Keepers == {c \in Contender : InSection(c) \/ pc[c] = "dead"}

Kept ==
    /\ ~dir.exists => owner.by = Nobody
    /\ owner.by # Nobody => pc[owner.by] \in {"write", "held", "unlink", "dead"}
    /\ dir.exists => Keepers # {}

LEMMA KeptStep == TypeOK /\ Kept /\ [Next]_vars => Kept'
<1> SUFFICES ASSUME TypeOK, Kept, [Next]_vars PROVE Kept'
  OBVIOUS
<1> USE LockAssumption DEF TypeOK, Kept, Keepers, InSection, Goto, StartRelease, NoFile
<1>1. ASSUME NEW c \in Contender, Acquire(c) \/ Retry(c) \/ GiveUp(c) PROVE Kept'
  BY <1>1 DEF Acquire, Retry, GiveUp
<1>2. ASSUME NEW c \in Contender, Mkdir(c) PROVE Kept'
  BY <1>2 DEF Mkdir
<1>3. ASSUME NEW c \in Contender, OpenOwner(c) PROVE Kept'
  BY <1>3 DEF OpenOwner
<1>4. ASSUME NEW c \in Contender, OpenFindsOwner(c) PROVE Kept'
  <2>1. owner.by \in Keepers' /\ owner' = owner /\ dir' = dir /\ owner.by # c
    BY <1>4 DEF OpenFindsOwner
  <2>2. QED
    BY <1>4, <2>1 DEF OpenFindsOwner
<1>5. ASSUME NEW c \in Contender, OpenFails(c) \/ WriteFails(c) \/ MkdirFails(c)
      PROVE Kept'
  <2>1. owner' = owner /\ dir' = dir /\ InSection(c)'
    BY <1>5 DEF OpenFails, WriteFails, MkdirFails
  <2>2. QED
    BY <1>5, <2>1 DEF OpenFails, WriteFails, MkdirFails
<1>6. ASSUME NEW c \in Contender, WriteOwner(c) PROVE Kept'
  BY <1>6 DEF WriteOwner
<1>7. ASSUME NEW c \in Contender, ReadOwner(c) PROVE Kept'
  BY <1>7 DEF ReadOwner
<1>8. ASSUME NEW c \in Contender, Judge(c) PROVE Kept'
  BY <1>8 DEF Judge
<1>9. ASSUME NEW c \in Contender, Release(c) PROVE Kept'
  BY <1>9 DEF Release
<1>10. ASSUME NEW c \in Contender, Unlink(c) PROVE Kept'
  BY <1>10 DEF Unlink
<1>11. ASSUME NEW c \in Contender, Rmdir(c) PROVE Kept'
  <2>1. CASE owner.by = Nobody
    BY <1>11, <2>1 DEF Rmdir
  <2>2. CASE owner.by # Nobody
    <3>1. owner.by \in Keepers' /\ owner' = owner /\ dir' = dir /\ owner.by # c
      BY <1>11, <2>2 DEF Rmdir
    <3>2. QED
      BY <1>11, <2>2, <3>1 DEF Rmdir
  <2>3. QED
    BY <2>1, <2>2
<1>12. ASSUME NEW p \in Process, Die(p) PROVE Kept'
  <2>1. /\ dir' = dir /\ owner' = owner
        /\ \A c \in Contender : pc'[c] \in {pc[c], "dead"}
    BY <1>12 DEF Die
  <2>2. QED
    BY <2>1
<1>13. CASE Expire
  <2>1. dir'.exists = dir.exists /\ owner'.by = owner.by /\ pc' = pc
    BY <1>13 DEF Expire
  <2>2. QED
    BY <2>1
<1>14. CASE UNCHANGED vars
  BY <1>14 DEF vars
<1>15. QED
  BY <1>1, <1>2, <1>3, <1>4, <1>5, <1>6, <1>7, <1>8, <1>9, <1>10, <1>11, <1>12,
     <1>13, <1>14 DEF Next, Progress

\* Whatever the interleaving of releases, takeovers, aborted acquisitions and expired
\* leases, the lock directory is gone once every call has ended and no process died.
THEOREM LockNotLeaked == Spec => []NoLeakedLock
<1>1. Init => Kept
  BY LockAssumption DEF Init, Kept, NoFile
<1>2. Kept => NoLeakedLock
  BY DEF Kept, Keepers, InSection, NoLeakedLock
<1>3. QED
  BY <1>1, <1>2, KeptStep, Typing, PTL DEF Spec
=============================================================================
